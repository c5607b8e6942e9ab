------------------------- MODULE CommunicatorProofs -------------------------
(***************************************************************************)
(* The message ring and the communicators, for every size of the ring.     *)
(*                                                                         *)
(* With one thread that adds and one that fetches the ring is a bounded    *)
(* first-in-first-out queue.  Its slots are accessed outside the mutexes,  *)
(* so that only the semaphores keep the two threads apart; with a second   *)
(* producer the theorems fail (run two_producers).                         *)
(***************************************************************************)
EXTENDS Communicator, SequenceTheorems, TLAPS

OneOfEach == \E p, c : Producers = {p} /\ Consumers = {c}

-----------------------------------------------------------------------------
(* The ring: the inductive invariant *)

One(b) == IF b THEN 1 ELSE 0

\* Where the two threads can be.
Steps ==
  /\ pc[producer] \in {"idle", "wait", "claim", "write", "post"}
  /\ pc[consumer] \in {"idle", "claim", "read", "post"}

\* Every slot is counted by a semaphore or held by a thread.
Tokens ==
  empty_sem_ + full_sem_
    + One(pc[producer] \in {"claim", "write", "post"})
    + One(pc[consumer] \in {"claim", "read", "post"}) = RingSize

\* The slot the producer writes next.
Free == IF pc[producer] = "write" THEN index[producer] ELSE produce_point_

\* The points run ahead of the slots claimed, and the producer's is as many
\* slots ahead of the consumer's as messages are stored.
Points ==
  /\ pc[producer] = "write" => produce_point_ = (index[producer] + 1) % RingSize
  /\ pc[consumer] = "read" => consume_point_ = (index[consumer] + 1) % RingSize
  /\ Free = (First + Stored) % RingSize

\* The slots between them hold messages.
Held == \A k \in 1 .. Stored : ring_[(First + k - 1) % RingSize] \in Messages

RingInv ==
  /\ TypeOK
  /\ Steps
  /\ Tokens
  /\ Points
  /\ Held

-----------------------------------------------------------------------------
(* The threads and the slots *)

\* The one thread that adds and the one that fetches.
LEMMA TwoThreads ==
  ASSUME OneOfEach
  PROVE  /\ Producers = {producer} /\ Consumers = {consumer}
         /\ Threads = {producer, consumer} /\ producer # consumer
  <1>1. PICK p, c : Producers = {p} /\ Consumers = {c}
    BY DEF OneOfEach
  <1>2. producer = p /\ consumer = c
    BY <1>1 DEF producer, consumer
  <1> QED
    BY <1>1, <1>2, FifoRingAssumption DEF Threads

\* Going around the ring at most once.
LEMMA OneTurn ==
  ASSUME NEW x \in 0 .. 2 * RingSize - 1
  PROVE  /\ x % RingSize = IF x < RingSize THEN x ELSE x - RingSize
         /\ x % RingSize \in Slots
  <1>1. RingSize \in Nat \ {0}
    BY FifoRingAssumption
  <1>2. CASE x < RingSize
    BY <1>1, <1>2 DEF Slots
  <1>3. CASE x >= RingSize
    <2>1. x - RingSize \in 0 .. RingSize - 1 /\ x = 1 * RingSize + (x - RingSize)
      BY <1>1, <1>3
    <2> QED
      BY <1>1, <1>3, <2>1 DEF Slots
  <1> QED
    BY <1>1, <1>2, <1>3

\* Slots at different distances from a slot are different, and one slot further
\* is one less to go.
LEMMA SlotDistance ==
  ASSUME NEW a \in Slots, NEW j \in 0 .. RingSize - 1
  PROVE  /\ (a + j) % RingSize \in Slots /\ (a + 0) % RingSize = a
         /\ (a + 1) % RingSize \in Slots
         /\ (((a + 1) % RingSize) + j) % RingSize = (a + (j + 1)) % RingSize
         /\ (((a + j) % RingSize) + 1) % RingSize = (a + (j + 1)) % RingSize
         /\ \A k \in 0 .. RingSize - 1 :
              k # j => (a + k) % RingSize # (a + j) % RingSize
  <1>1. RingSize \in Nat \ {0} /\ a \in Nat /\ a < RingSize /\ j \in Nat /\ j < RingSize
    BY FifoRingAssumption DEF Slots
  <1>2. (a + j) % RingSize = IF a + j < RingSize THEN a + j ELSE a + j - RingSize
    BY <1>1, OneTurn
  <1>3. (a + 1) % RingSize = IF a + 1 < RingSize THEN a + 1 ELSE a + 1 - RingSize
    BY <1>1, OneTurn
  <1>4. (a + (j + 1)) % RingSize =
          IF a + (j + 1) < RingSize THEN a + (j + 1) ELSE a + (j + 1) - RingSize
    BY <1>1, OneTurn
  <1>5. (((a + 1) % RingSize) + j) % RingSize = (a + (j + 1)) % RingSize
    <2> DEFINE b == (a + 1) % RingSize
    <2>1. b \in Nat /\ b < RingSize
      BY <1>1, <1>3
    <2> HIDE DEF b
    <2>2. (b + j) % RingSize = IF b + j < RingSize THEN b + j ELSE b + j - RingSize
      BY <1>1, <2>1, OneTurn
    <2> QED
      BY <1>1, <1>3, <1>4, <2>2 DEF b
  <1>6. (((a + j) % RingSize) + 1) % RingSize = (a + (j + 1)) % RingSize
    <2> DEFINE b == (a + j) % RingSize
    <2>1. b \in Nat /\ b < RingSize
      BY <1>1, <1>2
    <2> HIDE DEF b
    <2>2. (b + 1) % RingSize = IF b + 1 < RingSize THEN b + 1 ELSE b + 1 - RingSize
      BY <1>1, <2>1, OneTurn
    <2> QED
      BY <1>1, <1>2, <1>4, <2>2 DEF b
  <1>7. ASSUME NEW k \in 0 .. RingSize - 1, k # j
        PROVE  (a + k) % RingSize # (a + j) % RingSize
    <2>1. (a + k) % RingSize = IF a + k < RingSize THEN a + k ELSE a + k - RingSize
      BY <1>1, OneTurn
    <2> QED
      BY <1>1, <1>2, <1>7, <2>1
  <1>8. (a + 0) % RingSize = a
    BY <1>1
  <1> QED
    BY <1>1, <1>2, <1>3, <1>5, <1>6, <1>7, <1>8 DEF Slots

\* The same for two distances.
LEMMA SlotsDiffer ==
  ASSUME NEW a \in Slots, NEW j \in 0 .. RingSize - 1, NEW k \in 0 .. RingSize - 1, k # j
  PROVE  (a + k) % RingSize # (a + j) % RingSize
  BY SlotDistance

\* How many messages are stored, by what the semaphores say.
LEMMA StoredCount ==
  ASSUME OneOfEach, TypeOK, Steps, Tokens
  PROVE  /\ Stored = full_sem_ + One(pc[producer] = "post")
                               + One(pc[consumer] \in {"claim", "read"})
         /\ Stored \in 0 .. RingSize
         /\ pc[producer] \in {"claim", "write"} => Stored < RingSize
         /\ pc[consumer] \in {"claim", "read"} => Stored > 0
         /\ First \in Slots /\ Free \in Slots
  <1>1. /\ empty_sem_ \in Nat /\ full_sem_ \in Nat /\ RingSize \in Nat
    BY FifoRingAssumption DEF TypeOK
  <1>2. /\ Stored = full_sem_ + One(pc[producer] = "post")
                              + One(pc[consumer] \in {"claim", "read"})
        /\ Stored \in 0 .. RingSize
        /\ pc[producer] \in {"claim", "write"} => Stored < RingSize
        /\ pc[consumer] \in {"claim", "read"} => Stored > 0
    BY <1>1 DEF Stored, Tokens, Steps, One
  <1>3. First \in Slots /\ Free \in Slots
    BY TwoThreads DEF First, Free, TypeOK
  <1> QED
    BY <1>2, <1>3

-----------------------------------------------------------------------------
(* What the steps do to the stored messages *)

\* The producer has not written its message yet.
Waiting == pc[producer] \in {"wait", "claim", "write"}

\* A step that touches no slot leaves the stored messages where they are.
Quiet ==
  /\ First' = First /\ Stored' = Stored /\ Free' = Free
  /\ UNCHANGED <<ring_, fetched>>
  /\ \/ StartAdd(producer)
     \/ (Waiting' <=> Waiting) /\ message' = message
  /\ pc'[consumer] = "post" => pc[consumer] = "post"
  /\ TypeOK' /\ Steps' /\ Tokens'
  /\ pc'[producer] = "write" => produce_point_' = (index'[producer] + 1) % RingSize
  /\ pc'[consumer] = "read" => consume_point_' = (index'[consumer] + 1) % RingSize

\* The producer adds its message behind the last.
Puts ==
  /\ Stored < RingSize /\ message[producer] \in Messages
  /\ ring_' = [ring_ EXCEPT ![Free] = message[producer]]
  /\ First' = First /\ Stored' = Stored + 1 /\ Free' = (Free + 1) % RingSize
  /\ UNCHANGED <<message, fetched>>
  /\ Waiting /\ ~ Waiting' /\ pc'[consumer] = pc[consumer]
  /\ TypeOK' /\ Steps' /\ Tokens'
  /\ pc'[producer] # "write"
  /\ pc'[consumer] = "read" => consume_point_' = (index'[consumer] + 1) % RingSize

\* The consumer takes the first message.
Gets ==
  /\ Stored > 0
  /\ ring_' = [ring_ EXCEPT ![First] = Null]
  /\ fetched'[consumer] = ring_[First]
  /\ pc[consumer] = "read" /\ pc'[consumer] = "post"
  /\ pc'[producer] = pc[producer] /\ message' = message
  /\ First' = (First + 1) % RingSize /\ Stored' = Stored - 1 /\ Free' = Free
  /\ TypeOK' /\ Steps' /\ Tokens'
  /\ pc'[producer] = "write" => produce_point_' = (index'[producer] + 1) % RingSize
  /\ pc'[consumer] # "read"

\* Every step is one of these.
LEMMA StepCases ==
  ASSUME OneOfEach, RingInv, [Next]_vars
  PROVE  Quiet \/ Puts \/ Gets
  <1> DEFINE P == producer
             C == consumer
  <1>0. /\ P # C /\ Producers = {P} /\ Consumers = {C} /\ Threads = {P, C}
    BY TwoThreads
  <1>1. TypeOK /\ Steps /\ Tokens /\ Points /\ Held
    BY DEF RingInv
  <1>2. /\ empty_sem_ \in Nat /\ full_sem_ \in Nat /\ RingSize \in Nat \ {0}
        /\ empty_sem_ <= RingSize /\ full_sem_ <= RingSize
        /\ pc \in [Threads -> {"idle", "wait", "claim", "write", "read", "post"}]
        /\ index \in [Threads -> Slots]
        /\ produce_point_ \in Slots /\ consume_point_ \in Slots
        /\ message \in [Producers -> Messages]
    BY <1>1, FifoRingAssumption DEF TypeOK
  <1>3. /\ Stored \in 0 .. RingSize
        /\ pc[P] \in {"claim", "write"} => Stored < RingSize
        /\ pc[C] \in {"claim", "read"} => Stored > 0
        /\ First \in Slots /\ Free \in Slots
    BY <1>1, StoredCount
  <1>4. \A a \in Slots : (a + 1) % RingSize \in Slots
    <2> SUFFICES ASSUME NEW a \in Slots PROVE (a + 1) % RingSize \in Slots
      OBVIOUS
    <2>1. 0 \in 0 .. RingSize - 1
      BY <1>2
    <2> QED
      BY <2>1, SlotDistance
  <1>5. empty_sem_ + full_sem_ + One(pc[P] \in {"claim", "write", "post"})
          + One(pc[C] \in {"claim", "read", "post"}) = RingSize
    BY <1>1 DEF Tokens
  <1> USE DEF First, Stored, Free, Steps, Tokens, One, Goto, Waiting
  <1>6. CASE StartAdd(P)
    <2>1. TypeOK'
      BY <1>0, <1>1, <1>6 DEF StartAdd, TypeOK
    <2>2. pc'[P] = "wait" /\ pc[P] = "idle" /\ pc'[C] = pc[C]
      BY <1>0, <1>2, <1>6 DEF StartAdd
    <2>3. /\ First' = First /\ Stored' = Stored /\ Free' = Free /\ Steps' /\ Tokens'
          /\ UNCHANGED <<ring_, fetched>> /\ pc'[P] # "write"
          /\ pc'[C] = "read" => consume_point_' = (index'[C] + 1) % RingSize
      BY <1>1, <1>6, <2>2 DEF StartAdd, Points
    <2> QED
      BY <1>6, <2>1, <2>2, <2>3 DEF Quiet
  <1>7. CASE WaitEmpty(P)
    <2>1. pc'[P] = "claim" /\ pc[P] = "wait" /\ pc'[C] = pc[C]
      BY <1>0, <1>2, <1>7 DEF WaitEmpty
    <2>2. TypeOK'
      BY <1>0, <1>1, <1>2, <1>7 DEF WaitEmpty, TypeOK
    <2> QED
      BY <1>1, <1>2, <1>5, <1>7, <2>1, <2>2 DEF WaitEmpty, Quiet, Points
  <1>8. CASE ClaimProduce(P)
    <2>1. /\ pc'[P] = "write" /\ pc[P] = "claim" /\ pc'[C] = pc[C]
          /\ index'[P] = produce_point_ /\ index'[C] = index[C]
      BY <1>0, <1>2, <1>8 DEF ClaimProduce
    <2>2. TypeOK'
      BY <1>0, <1>1, <1>2, <1>4, <1>8 DEF ClaimProduce, TypeOK
    <2> QED
      BY <1>1, <1>2, <1>5, <1>8, <2>1, <2>2 DEF ClaimProduce, Quiet, Points
  <1>9. CASE Write(P)
    <2>1. /\ pc'[P] = "post" /\ pc[P] = "write" /\ pc'[C] = pc[C]
          /\ ring_' = [ring_ EXCEPT ![index[P]] = message[P]]
          /\ message[P] \in Messages
      BY <1>0, <1>2, <1>9 DEF Write
    <2>2. TypeOK'
      BY <1>0, <1>1, <1>2, <1>9, <2>1 DEF Write, TypeOK
    <2>3. Free = index[P] /\ Free' = (Free + 1) % RingSize
      BY <1>1, <1>9, <2>1 DEF Write, Points
    <2>4. First' = First /\ Stored' = Stored + 1 /\ Stored < RingSize
      BY <1>2, <1>3, <1>9, <2>1 DEF Write
    <2>5. Steps' /\ Tokens'
      BY <1>1, <1>5, <1>9, <2>1 DEF Write
    <2> QED
      BY <1>1, <1>9, <2>1, <2>2, <2>3, <2>4, <2>5 DEF Write, Puts, Points
  <1>10. CASE PostFull(P)
    <2>1. pc'[P] = "idle" /\ pc[P] = "post" /\ pc'[C] = pc[C]
      BY <1>0, <1>2, <1>10 DEF PostFull
    <2>2. full_sem_ + 1 <= RingSize
      BY <1>2, <1>5, <2>1
    <2>3. TypeOK'
      BY <1>0, <1>1, <1>2, <1>10, <2>2 DEF PostFull, TypeOK
    <2> QED
      BY <1>1, <1>2, <1>5, <1>10, <2>1, <2>3 DEF PostFull, Quiet, Points
  <1>11. CASE WaitFull(C)
    <2>1. pc'[C] = "claim" /\ pc[C] = "idle" /\ pc'[P] = pc[P]
      BY <1>0, <1>2, <1>11 DEF WaitFull
    <2>2. TypeOK'
      BY <1>0, <1>1, <1>2, <1>11 DEF WaitFull, TypeOK
    <2> QED
      BY <1>1, <1>2, <1>5, <1>11, <2>1, <2>2 DEF WaitFull, Quiet, Points
  <1>12. CASE ClaimConsume(C)
    <2>1. /\ pc'[C] = "read" /\ pc[C] = "claim" /\ pc'[P] = pc[P]
          /\ index'[C] = consume_point_ /\ index'[P] = index[P]
      BY <1>0, <1>2, <1>12 DEF ClaimConsume
    <2>2. TypeOK'
      BY <1>0, <1>1, <1>2, <1>4, <1>12 DEF ClaimConsume, TypeOK
    <2> QED
      BY <1>1, <1>2, <1>5, <1>12, <2>1, <2>2 DEF ClaimConsume, Quiet, Points
  <1>13. CASE Read(C)
    <2>1. pc[C] = "read" /\ First = index[C]
      BY <1>13 DEF Read
    <2>2. ring_[First] \in Messages
      <3>1. 1 \in 1 .. Stored /\ (First + 1 - 1) % RingSize = First
        <4>1. Stored > 0 /\ First \in Nat /\ First < RingSize
          BY <1>2, <1>3, <2>1 DEF Slots
        <4> HIDE DEF First, Stored
        <4> QED
          BY <1>2, <1>3, <4>1
      <3> QED
        BY <1>1, <3>1 DEF Held
    <2>3. ring_[First] # Null
      BY <2>2, FifoRingAssumption
    <2>4. /\ pc'[C] = "post" /\ pc'[P] = pc[P]
          /\ ring_' = [ring_ EXCEPT ![First] = Null]
          /\ fetched' = [fetched EXCEPT ![C] = ring_[First]]
      BY <1>0, <1>2, <1>13, <2>1, <2>3 DEF Read
    <2>5. TypeOK'
      BY <1>0, <1>1, <1>2, <1>3, <1>13, <2>2, <2>4 DEF Read, TypeOK
    <2>6. First' = (First + 1) % RingSize
      BY <1>1, <1>13, <2>1, <2>4 DEF Read, Points
    <2>7. Stored' = Stored - 1 /\ Free' = Free /\ Stored > 0
      BY <1>2, <1>3, <1>13, <2>1, <2>4 DEF Read
    <2>8. Steps' /\ Tokens'
      BY <1>1, <1>5, <1>13, <2>1, <2>4 DEF Read
    <2>9. fetched'[C] = ring_[First]
      BY <1>0, <1>1, <2>4 DEF TypeOK
    <2> QED
      BY <1>1, <1>13, <2>4, <2>5, <2>6, <2>7, <2>8, <2>9 DEF Read, Gets, Points
  <1>14. CASE PostEmpty(C)
    <2>1. pc'[C] = "idle" /\ pc[C] = "post" /\ pc'[P] = pc[P]
      BY <1>0, <1>2, <1>14 DEF PostEmpty
    <2>2. empty_sem_ + 1 <= RingSize
      BY <1>2, <1>5, <2>1
    <2>3. TypeOK'
      BY <1>0, <1>1, <1>2, <1>14, <2>2 DEF PostEmpty, TypeOK
    <2> QED
      BY <1>1, <1>2, <1>5, <1>14, <2>1, <2>3 DEF PostEmpty, Quiet, Points
  <1>15. CASE UNCHANGED vars
    BY <1>1, <1>15 DEF vars, Quiet, Points, TypeOK
  <1> QED
    BY <1>0, <1>6, <1>7, <1>8, <1>9, <1>10, <1>11, <1>12, <1>13, <1>14, <1>15
    DEF Next, AddStep, FetchStep

-----------------------------------------------------------------------------
(* The queue *)

\* The slot that the k-th stored message occupies.
LEMMA QueueSlots ==
  ASSUME NEW a \in Slots, NEW k \in 1 .. RingSize
  PROVE  /\ (a + k - 1) % RingSize = (a + (k - 1)) % RingSize
         /\ (a + k - 1) % RingSize \in Slots /\ k - 1 \in 0 .. RingSize - 1
  <1>1. RingSize \in Nat \ {0} /\ a \in Nat
    BY FifoRingAssumption DEF Slots
  <1>2. k - 1 \in 0 .. RingSize - 1 /\ a + k - 1 = a + (k - 1)
    BY <1>1
  <1> QED
    BY <1>2, SlotDistance

\* What the invariant says of the stored messages and the free slot.
LEMMA RingFacts ==
  ASSUME OneOfEach, RingInv
  PROVE  /\ Stored \in 0 .. RingSize /\ First \in Slots /\ Free \in Slots
         /\ RingSize \in Nat \ {0} /\ ring_ \in [Slots -> Messages \cup {Null, Garbage}]
         /\ \A k \in 1 .. Stored :
              /\ (First + k - 1) % RingSize \in Slots
              /\ ring_[(First + k - 1) % RingSize] \in Messages
         /\ Stored < RingSize => /\ Free = (First + Stored) % RingSize
                                 /\ (Free + 1) % RingSize = (First + (Stored + 1)) % RingSize
                                 /\ \A k \in 1 .. Stored : (First + k - 1) % RingSize # Free
         /\ Stored > 0 => /\ (First + 1) % RingSize \in Slots
                          /\ (((First + 1) % RingSize) + (Stored - 1)) % RingSize = Free
                          /\ \A k \in 1 .. Stored - 1 :
                               /\ (((First + 1) % RingSize) + k - 1) % RingSize
                                    = (First + (k + 1) - 1) % RingSize
                               /\ (First + (k + 1) - 1) % RingSize # First
         /\ First = (First + 1 - 1) % RingSize
  <1> DEFINE a == First
             n == Stored
  <1>1. /\ n \in 0 .. RingSize /\ a \in Slots /\ Free \in Slots
        /\ RingSize \in Nat \ {0} /\ n \in Nat
        /\ ring_ \in [Slots -> Messages \cup {Null, Garbage}]
    BY StoredCount, FifoRingAssumption DEF RingInv, TypeOK
  <1>2. Free = (a + n) % RingSize
    BY DEF RingInv, Points
  <1>3. \A k \in 1 .. n : ring_[(a + k - 1) % RingSize] \in Messages
    BY DEF RingInv, Held
  <1> HIDE DEF a, n
  <1>4. \A k \in 1 .. n : (a + k - 1) % RingSize \in Slots
    BY <1>1, QueueSlots
  <1>5. ASSUME n < RingSize
        PROVE  /\ (Free + 1) % RingSize = (a + (n + 1)) % RingSize
               /\ \A k \in 1 .. n : (a + k - 1) % RingSize # Free
    <2>1. n \in 0 .. RingSize - 1
      BY <1>1, <1>5
    <2>2. (Free + 1) % RingSize = (a + (n + 1)) % RingSize
      BY <1>1, <1>2, <2>1, SlotDistance
    <2>3. ASSUME NEW k \in 1 .. n PROVE (a + k - 1) % RingSize # Free
      <3>1. k \in 1 .. RingSize /\ k - 1 \in 0 .. RingSize - 1 /\ k - 1 # n
        BY <1>1, <1>5
      <3>2. (a + k - 1) % RingSize = (a + (k - 1)) % RingSize
        BY <1>1, <3>1, QueueSlots
      <3>3. (a + (k - 1)) % RingSize # (a + n) % RingSize
        <4>1. PICK i \in 0 .. RingSize - 1 : i = k - 1 /\ i # n
          BY <3>1
        <4>2. a \in Slots
          BY <1>1
        <4>3. (a + i) % RingSize # (a + n) % RingSize
          BY <2>1, <4>1, <4>2, SlotsDiffer
        <4> QED
          BY <4>1, <4>3
      <3> QED
        BY <1>2, <3>2, <3>3
    <2> QED
      BY <2>2, <2>3
  <1>6. ASSUME n > 0
        PROVE  /\ (a + 1) % RingSize \in Slots
               /\ (((a + 1) % RingSize) + (n - 1)) % RingSize = Free
               /\ \A k \in 1 .. n - 1 :
                    /\ (((a + 1) % RingSize) + k - 1) % RingSize
                         = (a + (k + 1) - 1) % RingSize
                    /\ (a + (k + 1) - 1) % RingSize # a
    <2>1. n - 1 \in 0 .. RingSize - 1 /\ (n - 1) + 1 = n /\ 0 \in 0 .. RingSize - 1
      BY <1>1, <1>6
    <2>2. (a + 1) % RingSize \in Slots /\ (a + 0) % RingSize = a
      BY <1>1, <2>1, SlotDistance
    <2>3. (((a + 1) % RingSize) + (n - 1)) % RingSize = Free
      <3>1. (((a + 1) % RingSize) + (n - 1)) % RingSize = (a + ((n - 1) + 1)) % RingSize
        BY <1>1, <2>1, SlotDistance
      <3> QED
        BY <1>2, <2>1, <3>1
    <2>4. ASSUME NEW k \in 1 .. n - 1
          PROVE  /\ (((a + 1) % RingSize) + k - 1) % RingSize
                      = (a + (k + 1) - 1) % RingSize
                 /\ (a + (k + 1) - 1) % RingSize # a
      <3>1. /\ k \in 1 .. RingSize /\ k - 1 \in 0 .. RingSize - 1
            /\ k \in 0 .. RingSize - 1 /\ k # 0 /\ (k - 1) + 1 = k
            /\ k + 1 \in 1 .. RingSize /\ (k + 1) - 1 = k
        BY <1>1
      <3>2. (((a + 1) % RingSize) + k - 1) % RingSize
              = (((a + 1) % RingSize) + (k - 1)) % RingSize
        BY <2>2, <3>1, QueueSlots
      <3>3. (a + (k + 1) - 1) % RingSize = (a + k) % RingSize
        BY <1>1, <3>1, QueueSlots
      <3>4. (((a + 1) % RingSize) + (k - 1)) % RingSize = (a + k) % RingSize
        BY <1>1, <3>1, SlotDistance
      <3>5. (a + k) % RingSize # (a + 0) % RingSize
        BY <1>1, <2>1, <3>1, SlotDistance
      <3> QED
        BY <2>2, <3>2, <3>3, <3>4, <3>5
    <2> QED
      BY <2>2, <2>3, <2>4
  <1>7. a = (a + 1 - 1) % RingSize
    <2>1. 1 \in 1 .. RingSize /\ 0 \in 0 .. RingSize - 1 /\ 1 - 1 = 0
      BY <1>1
    <2> QED
      BY <1>1, <2>1, QueueSlots, SlotDistance
  <1> QED
    BY <1>1, <1>2, <1>3, <1>4, <1>5, <1>6, <1>7 DEF a, n

\* The invariant of the ring holds initially.
LEMMA RingInit ==
  ASSUME OneOfEach, Init PROVE RingInv
  <1>0. RingSize \in Nat \ {0}
    BY FifoRingAssumption
  <1>1. pc[producer] = "idle" /\ pc[consumer] = "idle"
    BY TwoThreads DEF Init
  <1>2. TypeOK
    BY <1>0 DEF Init, TypeOK, Slots
  <1>3. Steps /\ Tokens
    BY <1>0, <1>1 DEF Init, Steps, Tokens, One
  <1>4. Stored = 0 /\ First = 0 /\ Free = 0
    BY <1>0, <1>1 DEF Init, Stored, First, Free
  <1>5. Points
    BY <1>0, <1>1, <1>4 DEF Points
  <1>6. Held
    BY <1>4 DEF Held
  <1> QED
    BY <1>2, <1>3, <1>5, <1>6 DEF RingInv

\* Every step of the two threads preserves it.
LEMMA RingStep ==
  ASSUME OneOfEach, RingInv, [Next]_vars PROVE RingInv'
  <1>0. TypeOK /\ Points
    BY DEF RingInv
  <1>1. CASE Quiet
    <2>1. Points' /\ Held'
      BY <1>1 DEF Quiet, RingInv, Points, Held
    <2> QED
      BY <1>1, <2>1 DEF Quiet, RingInv
  <1>2. CASE Puts
    <2> DEFINE a == First
               n == Stored
               m == message[producer]
    <2>1. /\ n < RingSize /\ m \in Messages /\ ring_' = [ring_ EXCEPT ![Free] = m]
          /\ First' = a /\ Stored' = n + 1 /\ Free' = (Free + 1) % RingSize
      BY <1>2 DEF Puts
    <2>2. /\ n \in Nat /\ Free \in Slots /\ Free = (a + n) % RingSize
          /\ ring_ \in [Slots -> Messages \cup {Null, Garbage}]
          /\ (Free + 1) % RingSize = (a + (n + 1)) % RingSize
          /\ \A k \in 1 .. n : /\ (a + k - 1) % RingSize # Free
                               /\ (a + k - 1) % RingSize \in Slots
                               /\ ring_[(a + k - 1) % RingSize] \in Messages
          /\ a \in Slots
      BY <2>1, RingFacts
    <2> HIDE DEF a, n, m
    <2>3. \A k \in 1 .. n + 1 : ring_'[(a + k - 1) % RingSize] \in Messages
      <3> SUFFICES ASSUME NEW k \in 1 .. n + 1
                   PROVE  ring_'[(a + k - 1) % RingSize] \in Messages
        OBVIOUS
      <3>1. CASE k \in 1 .. n
        BY <2>1, <2>2, <3>1
      <3>2. CASE k = n + 1
        <4>1. a + k - 1 = a + n
          BY <2>2, <3>2 DEF Slots
        <4> QED
          BY <2>1, <2>2, <4>1
      <3> QED
        BY <2>2, <3>1, <3>2
    <2>4. Held'
      BY <2>1, <2>3 DEF Held
    <2>5. Points'
      BY <1>2, <2>1, <2>2 DEF Puts, Points
    <2> QED
      BY <1>2, <2>4, <2>5 DEF Puts, RingInv
  <1>3. CASE Gets
    <2> DEFINE a == First
               n == Stored
               b == (a + 1) % RingSize
    <2>1. /\ n > 0 /\ ring_' = [ring_ EXCEPT ![a] = Null]
          /\ First' = b /\ Stored' = n - 1 /\ Free' = Free
      BY <1>3 DEF Gets
    <2>2. /\ n \in Nat /\ a \in Slots /\ (b + (n - 1)) % RingSize = Free
          /\ ring_ \in [Slots -> Messages \cup {Null, Garbage}]
          /\ \A k \in 1 .. n - 1 :
               /\ (b + k - 1) % RingSize = (a + (k + 1) - 1) % RingSize
               /\ (a + (k + 1) - 1) % RingSize # a
          /\ \A k \in 1 .. n : /\ (a + k - 1) % RingSize \in Slots
                               /\ ring_[(a + k - 1) % RingSize] \in Messages
      BY <2>1, RingFacts
    <2> HIDE DEF a, n, b
    <2>3. \A k \in 1 .. n - 1 : ring_'[(b + k - 1) % RingSize] \in Messages
      <3> SUFFICES ASSUME NEW k \in 1 .. n - 1
                   PROVE  ring_'[(b + k - 1) % RingSize] \in Messages
        OBVIOUS
      <3>1. k + 1 \in 1 .. n
        BY <2>2
      <3> QED
        BY <2>1, <2>2, <3>1
    <2>4. Held'
      BY <2>1, <2>3 DEF Held
    <2>5. Points'
      BY <1>3, <2>1, <2>2 DEF Gets, Points
    <2> QED
      BY <1>3, <2>4, <2>5 DEF Gets, RingInv
  <1> QED
    BY <1>1, <1>2, <1>3, StepCases

\* The queue as a sequence.
LEMMA QueueSeq ==
  ASSUME OneOfEach, RingInv
  PROVE  /\ Queue \in Seq(Messages) /\ Len(Queue) = Stored
         /\ \A k \in 1 .. Stored : Queue[k] = ring_[(First + k - 1) % RingSize]
  <1>1. Stored \in Nat
    BY RingFacts
  <1>2. \A k \in 1 .. Stored : ring_[(First + k - 1) % RingSize] \in Messages
    BY RingFacts
  <1> QED
    BY <1>1, <1>2 DEF Queue

\* A write adds to the queue, a read takes from it, no other step changes it.
LEMMA QueueMoves ==
  ASSUME OneOfEach, RingInv, RingInv', [Next]_vars
  PROVE  \/ Quiet /\ Queue' = Queue
         \/ /\ Puts /\ Len(Queue) < RingSize
            /\ Queue' = Append(Queue, message[producer])
         \/ /\ Gets /\ Queue # <<>> /\ Queue' = Tail(Queue)
            /\ fetched'[consumer] = Head(Queue)
  <1>1. /\ Queue \in Seq(Messages) /\ Len(Queue) = Stored /\ Stored \in Nat
        /\ \A k \in 1 .. Stored : Queue[k] = ring_[(First + k - 1) % RingSize]
    BY QueueSeq, RingFacts
  <1>2. /\ Queue' \in Seq(Messages) /\ Len(Queue') = Stored' /\ Stored' \in Nat
        /\ \A k \in 1 .. Stored' :
             Queue'[k] = ring_'[(First' + k - 1) % RingSize]
    <2>1. Stored' \in Nat
      <3>1. Stored \in 0 .. RingSize
        BY RingFacts
      <3> QED
        BY <1>1, <3>1, StepCases DEF Quiet, Puts, Gets
    <2>2. \A k \in 1 .. Stored' : ring_'[(First' + k - 1) % RingSize] \in Messages
      BY DEF RingInv, Held
    <2> QED
      BY <2>1, <2>2 DEF Queue
  <1>3. CASE Quiet
    BY <1>3 DEF Quiet, Queue
  <1>4. CASE Puts
    <2> DEFINE a == First
               n == Stored
               m == message[producer]
    <2>1. /\ n < RingSize /\ m \in Messages /\ ring_' = [ring_ EXCEPT ![Free] = m]
          /\ First' = a /\ Stored' = n + 1 /\ fetched' = fetched
      BY <1>4 DEF Puts
    <2>2. /\ n \in Nat /\ Free \in Slots /\ Free = (a + n) % RingSize /\ a \in Slots
          /\ ring_ \in [Slots -> Messages \cup {Null, Garbage}]
          /\ \A k \in 1 .. n : /\ (a + k - 1) % RingSize # Free
                               /\ (a + k - 1) % RingSize \in Slots
      BY <2>1, RingFacts
    <2>3. /\ Append(Queue, m) \in Seq(Messages) /\ Len(Append(Queue, m)) = n + 1
          /\ \A k \in 1 .. n : Append(Queue, m)[k] = Queue[k]
          /\ Append(Queue, m)[n + 1] = m
      BY <1>1, <2>1, AppendProperties
    <2> HIDE DEF a, n, m
    <2>4. \A k \in 1 .. n + 1 : Queue'[k] = Append(Queue, m)[k]
      <3> SUFFICES ASSUME NEW k \in 1 .. n + 1
                   PROVE  Queue'[k] = Append(Queue, m)[k]
        OBVIOUS
      <3>1. Queue'[k] = ring_'[(a + k - 1) % RingSize]
        BY <1>2, <2>1
      <3>2. CASE k \in 1 .. n
        <4>1. ring_'[(a + k - 1) % RingSize] = ring_[(a + k - 1) % RingSize]
          BY <2>1, <2>2, <3>2
        <4> QED
          BY <1>1, <2>3, <3>1, <3>2, <4>1 DEF a, n
      <3>3. CASE k = n + 1
        <4>1. a + k - 1 = a + n
          BY <2>2, <3>3 DEF Slots
        <4> QED
          BY <2>1, <2>2, <2>3, <3>1, <3>3, <4>1
      <3>4. k \in 1 .. n \/ k = n + 1
        BY <1>1 DEF n
      <3> QED
        BY <3>2, <3>3, <3>4
    <2>5. Queue' = Append(Queue, m)
      <3>1. Len(Queue') = n + 1
        BY <1>2, <2>1
      <3> QED
        BY <1>2, <2>3, <2>4, <3>1, SeqEqual
    <2>6. Len(Queue) < RingSize
      BY <1>1, <2>1 DEF n
    <2> QED
      BY <1>4, <2>5, <2>6 DEF m
  <1>5. CASE Gets
    <2> DEFINE a == First
               n == Stored
               b == (a + 1) % RingSize
    <2>1. /\ n > 0 /\ ring_' = [ring_ EXCEPT ![a] = Null]
          /\ First' = b /\ Stored' = n - 1 /\ fetched'[consumer] = ring_[a]
      BY <1>5 DEF Gets
    <2>2. /\ n \in Nat /\ a \in Slots /\ a = (a + 1 - 1) % RingSize
          /\ ring_ \in [Slots -> Messages \cup {Null, Garbage}]
          /\ \A k \in 1 .. n - 1 :
               /\ (b + k - 1) % RingSize = (a + (k + 1) - 1) % RingSize
               /\ (a + (k + 1) - 1) % RingSize # a
          /\ \A k \in 1 .. n : (a + k - 1) % RingSize \in Slots
      BY <2>1, RingFacts
    <2>3. Queue # <<>>
      BY <1>1, <2>1
    <2>4. /\ Tail(Queue) \in Seq(Messages) /\ Len(Tail(Queue)) = n - 1
          /\ \A k \in 1 .. n - 1 : Tail(Queue)[k] = Queue[k + 1]
          /\ Head(Queue) = Queue[1]
      BY <1>1, <2>3, HeadTailProperties
    <2>5. Queue[1] = ring_[a]
      BY <1>1, <2>1, <2>2
    <2> HIDE DEF a, n, b
    <2>6. \A k \in 1 .. n - 1 : Queue'[k] = Tail(Queue)[k]
      <3> SUFFICES ASSUME NEW k \in 1 .. n - 1 PROVE Queue'[k] = Tail(Queue)[k]
        OBVIOUS
      <3>1. k + 1 \in 1 .. n
        BY <2>2
      <3>2. Queue'[k] = ring_'[(a + (k + 1) - 1) % RingSize]
        BY <1>2, <2>1, <2>2
      <3>3. Queue'[k] = ring_[(a + (k + 1) - 1) % RingSize]
        BY <2>1, <2>2, <3>1, <3>2
      <3>4. Queue[k + 1] = ring_[(a + (k + 1) - 1) % RingSize]
        BY <1>1, <3>1 DEF a, n
      <3> QED
        BY <2>4, <3>3, <3>4
    <2>7. Queue' = Tail(Queue)
      <3>1. Len(Queue') = n - 1
        BY <1>2, <2>1
      <3> QED
        BY <1>2, <2>4, <2>6, <3>1, SeqEqual
    <2> QED
      BY <1>5, <2>1, <2>3, <2>4, <2>5, <2>7
  <1> QED
    BY <1>3, <1>4, <1>5, StepCases

\* Adding puts, fetching gets, and every other step is a stutter.
LEMMA RingStepFifo ==
  ASSUME OneOfEach, RingInv, RingInv', [Next]_vars
  PROVE  [Fifo!Next]_<<Queue, fetched[consumer]>>
  <1>1. CASE Quiet /\ Queue' = Queue
    BY <1>1 DEF Quiet
  <1>2. CASE /\ Puts /\ Len(Queue) < RingSize
             /\ Queue' = Append(Queue, message[producer])
    BY <1>2 DEF Puts, Fifo!Put, Fifo!Next
  <1>3. CASE /\ Gets /\ Queue # <<>> /\ Queue' = Tail(Queue)
             /\ fetched'[consumer] = Head(Queue)
    BY <1>3 DEF Fifo!Get, Fifo!Next
  <1> QED
    BY <1>1, <1>2, <1>3, QueueMoves

-----------------------------------------------------------------------------
(* The ring: the theorems *)

\* The invariant of the ring holds in every reachable state.
THEOREM RingInvariance ==
  ASSUME OneOfEach PROVE Spec => []RingInv
  BY RingInit, RingStep, PTL DEF Spec

\* A Fetch that got past full_sem_ finds a message in its slot.
THEOREM FetchesFind ==
  ASSUME OneOfEach PROVE Spec => []FetchFindsMessage
  <1>1. RingInv => FetchFindsMessage
    <2> SUFFICES ASSUME RingInv, pc[consumer] = "read"
                 PROVE  ring_[index[consumer]] \in Messages
      BY TwoThreads DEF FetchFindsMessage
    <2>1. Stored > 0 /\ Stored \in Nat
      BY StoredCount, RingFacts DEF RingInv
    <2>2. First = index[consumer]
      BY DEF First
    <2> QED
      BY <2>1, <2>2, RingFacts
  <1> QED
    BY <1>1, RingInvariance, PTL

\* With one thread that adds and one that fetches, FifoRing implements the
\* bounded queue.
THEOREM RingIsFifo ==
  ASSUME OneOfEach PROVE Spec => RefinesFifo
  <1>1. Init => Fifo!Init
    <2> SUFFICES ASSUME Init PROVE Fifo!Init
      OBVIOUS
    <2>1. RingInv /\ Stored = 0
      <3>1. pc[producer] = "idle" /\ pc[consumer] = "idle"
        BY TwoThreads DEF Init
      <3> QED
        BY <3>1, RingInit, FifoRingAssumption DEF Init, Stored
    <2>2. Queue = <<>>
      BY <2>1, QueueSeq
    <2>3. fetched[consumer] = Null
      BY TwoThreads DEF Init
    <2> QED
      BY <2>2, <2>3 DEF Fifo!Init
  <1>2. RingInv /\ RingInv' /\ [Next]_vars => [Fifo!Next]_<<Queue, fetched[consumer]>>
    BY RingStepFifo
  <1> QED
    BY <1>1, <1>2, RingInvariance, PTL DEF Spec, RefinesFifo, Fifo!Spec

-----------------------------------------------------------------------------
(* The communicators: the inductive invariant *)

\* An element of a receiver's ring: a content and a length.
Item == (Messages \cup {None}) \X (0 .. MaxSends)

\* Consume holds a message that it has not handed to a socket or dropped.
Holding == consumed # "fetch" \/ pc[consumer] = "post"

Types ==
  /\ CommTypeOK
  /\ rings \in [Addresses -> Seq(Item)] /\ received \in [Addresses -> Seq(Item)]
  /\ arrived \in [Addresses -> Seq(Messages)]
  /\ via \in [1 .. MaxSends -> (Addresses \cup {None}) \X Nat]
  /\ \A a \in mapper_ : Len(network[a]) > 0
  /\ sent \in Seq(Addresses \cup {None}) /\ Len(sent) <= MaxSends
  /\ \A a \in Addresses : producing[a] # "receive" => got[a] \in Messages
  /\ consumed # "fetch" => pc[consumer] = "idle"
  /\ Holding => fetched[consumer] \in Messages
  /\ consumed \in {"socket", "send"} => addr \in Addresses

\* A message under way has an address in the table, the one it had when it was
\* sent, unless an entry with that address was deleted since.
Explained(m) ==
  /\ Number(m) \in 1 .. Len(sent)
  /\ Number(m) \notin unsafe =>
       /\ id_to_addr_[Dst(m)] \in Addresses
       /\ id_to_addr_[Dst(m)] = sent[Number(m)]

TableOK ==
  /\ \A m \in UnderWay : Explained(m)
  /\ consumed \in {"socket", "send"} /\ Number(fetched[consumer]) \notin unsafe =>
       addr = id_to_addr_[Dst(fetched[consumer])]
  /\ consumed = "send" /\ Number(fetched[consumer]) \notin unsafe =>
       addr \in mapper_
  /\ LossExplained

\* The messages behind number n have greater numbers.
Behind(n) ==
  /\ n <= Len(sent)
  /\ Waiting => n < Number(message[producer])
  /\ \A k \in 1 .. Stored : n < Number(Queue[k])

\* The messages in the sending process are in the order of their numbers.
SenderOrder ==
  /\ Waiting => Number(message[producer]) = Len(sent)
  /\ \A k \in 1 .. Stored :
       /\ Number(Queue[k]) <= Len(sent)
       /\ Waiting => Number(Queue[k]) < Len(sent)
       /\ \A j \in 1 .. k - 1 : Number(Queue[j]) < Number(Queue[k])
  /\ Holding => Behind(Number(fetched[consumer]))

\* The messages handed to a socket of port a; they are ahead of everything in the
\* sending process.
Landed(a) ==
  {n \in 1 .. MaxSends : /\ Behind(n)
                         /\ Holding => n < Number(fetched[consumer])
                         /\ n \in unsafe \/ sent[n] = a}

\* A connection holds its messages in order, behind those that came out of it.
OnWire(a) ==
  \A c \in 1 .. Len(network[a]) : \A i \in 1 .. Len(network[a][c]) :
    /\ Number(network[a][c][i]) \in Landed(a)
    /\ via[Number(network[a][c][i])] = <<a, c>>
    /\ \A j \in 1 .. i - 1 : Number(network[a][c][j]) < Number(network[a][c][i])
    /\ \A k \in 1 .. Len(arrived[a]) :
         via[Number(arrived[a][k])] = <<a, c>> =>
           Number(arrived[a][k]) < Number(network[a][c][i])

\* What arrived came through connections of the port, in order from each.
InOrder(a) ==
  \A k \in 1 .. Len(arrived[a]) :
    /\ Number(arrived[a][k]) \in Landed(a)
    /\ via[Number(arrived[a][k])][1] = a
    /\ \A j \in 1 .. k - 1 :
         via[Number(arrived[a][j])] = via[Number(arrived[a][k])] =>
           Number(arrived[a][j]) < Number(arrived[a][k])

\* x is message m as it arrived, or both are of messages that shared the buffer.
Faithful(m, x) ==
  IF Number(m) \in disturbed
  THEN Number(x[1]) \in disturbed /\ x[2] \in disturbed
  ELSE x = <<m, Number(m)>>

\* Port a added everything that arrived, except what its thread holds; that is
\* in the static buffer with its length, unless it shares the buffer.
InHand(a) ==
  IF producing[a] = "receive"
  THEN Len(arrived[a]) = Len(Added(a))
  ELSE /\ Len(arrived[a]) = Len(Added(a)) + 1
       /\ got[a] = arrived[a][Len(arrived[a])]
       /\ Number(got[a]) \in disturbed =>
            /\ Number(buffer) \in disturbed
            /\ producing[a] = "call" => len \in disturbed
            /\ producing[a] = "copy" => arg[a] \in disturbed
       /\ Number(got[a]) \notin disturbed =>
            /\ buffer = got[a]
            /\ producing[a] = "call" => len = Number(got[a])
            /\ producing[a] = "copy" => arg[a] = Number(got[a])
            /\ Others(a) = {}

Ports ==
  \A a \in Addresses :
    /\ OnWire(a)
    /\ InOrder(a)

Hands ==
  \A a \in Addresses :
    /\ InHand(a)
    /\ \A k \in 1 .. Len(Added(a)) : Faithful(arrived[a][k], Added(a)[k])

CommInv ==
  /\ RingInv
  /\ Types
  /\ TableOK
  /\ SenderOrder
  /\ Ports
  /\ Hands

-----------------------------------------------------------------------------
(* The sender's ring *)

\* Seen from the ring, a step of the communicators is one of its own threads'.
LEMMA RingOfSender == [CommNext]_commVars => [Next]_vars
  <1>1. ASSUME NEW p \in Producers, Send(p) \/ Add(p) PROVE Next
    BY <1>1 DEF Send, Add, Next
  <1>2. ASSUME NEW c \in Consumers, Consume(c) PROVE [Next]_vars
    BY <1>2 DEF Consume, Fetch, Lookup, OpenSocket, SendMessage, Next, ringVars
  <1>3. ASSUME NEW a \in Addresses, Produce(a) \/ Receive(a) PROVE UNCHANGED vars
    BY <1>3
    DEF Produce, ReceiveMessage, TakeFrom, SetLen, CallAdd, CopyBuffer, Receive, ringVars
  <1>4. Configure => UNCHANGED vars
    BY DEF Configure, ringVars
  <1>5. UNCHANGED commVars => UNCHANGED vars
    BY DEF commVars, ringVars
  <1> QED
    BY <1>1, <1>2, <1>3, <1>4, <1>5 DEF CommNext

\* The ring of a communicator behaves as FifoRing does.
THEOREM SenderRing == CommSpec => Spec
  <1>1. CommInit => Init
    BY DEF CommInit
  <1> QED
    BY <1>1, RingOfSender, PTL DEF CommSpec, Spec

\* The sender's ring is a bounded queue.
THEOREM SenderIsFifo ==
  ASSUME OneOfEach PROVE CommSpec => RefinesFifo
  BY SenderRing, RingIsFifo, PTL

\* The parts of a message.
LEMMA MessageParts ==
  /\ \A m \in Messages : /\ Dst(m) \in Ids
                         /\ Number(m) \in 1 .. MaxSends
                         /\ Number(m) \in 0 .. MaxSends
  /\ MaxSends \in Nat \ {0} /\ None \notin Messages /\ None \notin Addresses
  BY CommunicatorAssumption DEF Dst, Number

\* The messages under way, now and in the next state.
LEMMA UnderWayIs ==
  ASSUME OneOfEach, NEW m
  PROVE  /\ m \in UnderWay <=>
              \/ pc[producer] # "idle" /\ m = message[producer]
              \/ m \in Messages /\ \E s \in Slots : ring_[s] = m
              \/ Holding /\ m = fetched[consumer]
         /\ m \in UnderWay' <=>
              \/ pc'[producer] # "idle" /\ m = message'[producer]
              \/ m \in Messages /\ \E s \in Slots : ring_'[s] = m
              \/ Holding' /\ m = fetched'[consumer]
  BY TwoThreads DEF UnderWay, Holding

\* The one thread of each kind.
LEMMA CommCases ==
  ASSUME OneOfEach, [CommNext]_commVars
  PROVE  \/ Send(producer) \/ Add(producer) \/ Fetch(consumer)
         \/ Lookup(consumer) \/ OpenSocket \/ SendMessage(consumer)
         \/ Configure
         \/ \E a \in Addresses : Produce(a) \/ Receive(a)
         \/ UNCHANGED commVars
  BY TwoThreads DEF CommNext, Consume

-----------------------------------------------------------------------------
(* What the threads of the sender do to its messages *)

\* Send hands a message to the producer.
LEMMA SendEffect ==
  ASSUME OneOfEach, RingInv, RingInv', Types, Send(producer)
  PROVE  /\ pc[producer] = "idle" /\ ~ Waiting /\ Waiting'
         /\ pc'[consumer] = pc[consumer] /\ (Holding' <=> Holding)
         /\ Queue' = Queue /\ Stored' = Stored
         /\ UNCHANGED <<ring_, fetched, id_to_addr_, mapper_, consumed, addr, lost>>
         /\ message'[producer] \in Messages
         /\ Len(sent) < MaxSends /\ Len(sent) \in Nat
         /\ Number(message'[producer]) = Len(sent) + 1
         /\ sent' = Append(sent, id_to_addr_[Dst(message'[producer])])
         /\ unsafe' = unsafe \cup (IF id_to_addr_[Dst(message'[producer])] = None
                                   THEN {Len(sent) + 1} ELSE {})
         /\ UNCHANGED <<network, receiverVars, via>>
  <1>1. /\ StartAdd(producer) /\ Len(sent) < MaxSends
        /\ Number(message'[producer]) = Len(sent) + 1
        /\ sent' = Append(sent, id_to_addr_[Dst(message'[producer])])
        /\ unsafe' = unsafe \cup (IF id_to_addr_[Dst(message'[producer])] = None
                                  THEN {Len(sent) + 1} ELSE {})
        /\ UNCHANGED <<id_to_addr_, mapper_, consumed, addr, network, receiverVars, lost,
                       via>>
    BY DEF Send, senderVars
  <1>2. [Next]_vars
    BY <1>1, TwoThreads DEF Next
  <1>3. /\ pc \in [Threads -> {"idle", "wait", "claim", "write", "read", "post"}]
        /\ message \in [Producers -> Messages]
    BY DEF RingInv, TypeOK
  <1>4. /\ pc[producer] = "idle" /\ pc'[producer] = "wait"
        /\ pc'[consumer] = pc[consumer] /\ UNCHANGED <<ring_, fetched>>
        /\ message'[producer] \in Messages
    BY <1>1, <1>3, TwoThreads DEF StartAdd, Goto
  <1>5. ~ Puts /\ ~ Gets
    BY <1>4 DEF Puts, Gets, Waiting
  <1>6. Quiet /\ Queue' = Queue
    BY <1>2, <1>5, QueueMoves
  <1>7. Len(sent) \in Nat
    BY LenProperties DEF Types
  <1> QED
    BY <1>1, <1>4, <1>6, <1>7 DEF Quiet, Waiting, Holding

\* Add moves it into the queue.
LEMMA AddEffect ==
  ASSUME OneOfEach, RingInv, RingInv', Add(producer)
  PROVE  /\ pc[producer] # "idle"
         /\ pc'[consumer] = pc[consumer] /\ (Holding' <=> Holding)
         /\ UNCHANGED <<message, fetched, senderVars, network, receiverVars, sent,
                        unsafe, lost, via>>
         /\ \/ /\ (Waiting' <=> Waiting) /\ Queue' = Queue /\ Stored' = Stored
               /\ UNCHANGED ring_
            \/ /\ Waiting /\ ~ Waiting' /\ Queue' = Append(Queue, message[producer])
               /\ Stored' = Stored + 1
               /\ ring_' = [ring_ EXCEPT ![Free] = message[producer]]
  <1>1. /\ AddStep(producer)
        /\ UNCHANGED <<senderVars, network, receiverVars, sent, unsafe, lost, via>>
    BY DEF Add
  <1>2. [Next]_vars
    BY <1>1, TwoThreads DEF Next
  <1>3. pc \in [Threads -> {"idle", "wait", "claim", "write", "read", "post"}]
    BY DEF RingInv, TypeOK
  <1>4. /\ pc[producer] # "idle" /\ pc'[consumer] = pc[consumer]
        /\ UNCHANGED <<message, fetched>>
    BY <1>1, <1>3, TwoThreads
    DEF AddStep, WaitEmpty, ClaimProduce, Write, PostFull, Goto
  <1>5. ~ Gets /\ ~ StartAdd(producer)
    BY <1>4 DEF Gets, StartAdd
  <1>6. \/ Quiet /\ Queue' = Queue
        \/ Puts /\ Queue' = Append(Queue, message[producer])
    BY <1>2, <1>5, QueueMoves
  <1> QED
    BY <1>1, <1>4, <1>5, <1>6 DEF Quiet, Puts, Holding, senderVars

\* Fetch takes the first message out of the queue, and then returns it.
LEMMA FetchEffect ==
  ASSUME OneOfEach, RingInv, RingInv', Fetch(consumer)
  PROVE  /\ consumed = "fetch"
         /\ UNCHANGED <<message, id_to_addr_, mapper_, addr, network, receiverVars,
                        sent, unsafe, lost, via>>
         /\ pc'[producer] = pc[producer] /\ (Waiting' <=> Waiting)
         /\ \/ /\ ~ Holding /\ ~ Holding' /\ consumed' = "fetch"
               /\ Queue' = Queue /\ Stored' = Stored /\ UNCHANGED <<ring_, fetched>>
            \/ /\ Holding /\ Holding' /\ consumed' = "lookup" /\ pc'[consumer] = "idle"
               /\ Queue' = Queue /\ Stored' = Stored /\ UNCHANGED <<ring_, fetched>>
            \/ /\ ~ Holding /\ Holding' /\ consumed' = "fetch"
               /\ Queue # <<>> /\ Queue' = Tail(Queue) /\ Stored' = Stored - 1
               /\ fetched'[consumer] = Head(Queue)
               /\ fetched'[consumer] = ring_[First] /\ fetched'[consumer] \in Messages
               /\ ring_' = [ring_ EXCEPT ![First] = Null]
  <1>1. /\ FetchStep(consumer) /\ consumed = "fetch"
        /\ consumed' = IF pc[consumer] = "post" THEN "lookup" ELSE "fetch"
        /\ UNCHANGED <<id_to_addr_, mapper_, addr, network, receiverVars, sent,
                       unsafe, lost, via>>
    BY DEF Fetch
  <1>2. [Next]_vars
    BY <1>1, TwoThreads DEF Next
  <1>3. pc \in [Threads -> {"idle", "wait", "claim", "write", "read", "post"}]
    BY DEF RingInv, TypeOK
  <1>4. pc'[producer] = pc[producer] /\ message' = message
    BY <1>1, <1>3, TwoThreads
    DEF FetchStep, WaitFull, ClaimConsume, Read, PostEmpty, Goto
  <1>5. ~ Puts /\ (Waiting' <=> Waiting)
    BY <1>4 DEF Puts, Waiting
  <1>6. pc[consumer] = "post" => pc'[consumer] = "idle"
    BY <1>1, <1>3, TwoThreads
    DEF FetchStep, WaitFull, ClaimConsume, Read, PostEmpty, Goto
  <1>7. CASE Quiet /\ Queue' = Queue
    BY <1>1, <1>4, <1>5, <1>6, <1>7 DEF Quiet, Holding
  <1>8. CASE /\ Gets /\ Queue # <<>> /\ Queue' = Tail(Queue)
             /\ fetched'[consumer] = Head(Queue)
    <2>1. ring_[First] \in Messages
      <3>1. Stored > 0 /\ Stored \in Nat
        BY <1>8, RingFacts DEF Gets
      <3>2. 1 \in 1 .. Stored
        BY <3>1
      <3> QED
        BY <3>2, RingFacts
    <2> QED
      BY <1>1, <1>4, <1>5, <1>8, <2>1 DEF Gets, Holding
  <1> QED
    BY <1>2, <1>5, <1>7, <1>8, QueueMoves

-----------------------------------------------------------------------------
(* The network *)

\* The connections of a port.
LEMMA Connections ==
  ASSUME Types, NEW a \in Addresses
  PROVE  /\ network[a] \in Seq(Seq(Messages)) /\ Len(network[a]) \in Nat
         /\ DOMAIN network[a] = 1 .. Len(network[a])
         /\ \A c \in 1 .. Len(network[a]) :
              /\ network[a][c] \in Seq(Messages) /\ Len(network[a][c]) \in Nat
              /\ \A i \in 1 .. Len(network[a][c]) :
                   /\ network[a][c][i] \in Messages
                   /\ Number(network[a][c][i]) \in 1 .. MaxSends
         /\ arrived[a] \in Seq(Messages) /\ Len(arrived[a]) \in Nat
         /\ DOMAIN arrived[a] = 1 .. Len(arrived[a])
         /\ \A k \in 1 .. Len(arrived[a]) :
              /\ arrived[a][k] \in Messages
              /\ Number(arrived[a][k]) \in 1 .. MaxSends
  <1>1. network[a] \in Seq(Seq(Messages)) /\ arrived[a] \in Seq(Messages)
    BY DEF Types, CommTypeOK
  <1>2. /\ Len(network[a]) \in Nat /\ DOMAIN network[a] = 1 .. Len(network[a])
        /\ Len(arrived[a]) \in Nat /\ DOMAIN arrived[a] = 1 .. Len(arrived[a])
    BY <1>1, LenProperties
  <1>3. ASSUME NEW c \in 1 .. Len(network[a])
        PROVE  /\ network[a][c] \in Seq(Messages) /\ Len(network[a][c]) \in Nat
               /\ \A i \in 1 .. Len(network[a][c]) :
                    /\ network[a][c][i] \in Messages
                    /\ Number(network[a][c][i]) \in 1 .. MaxSends
    <2>1. network[a][c] \in Seq(Messages)
      BY <1>1, ElementOfSeq
    <2> QED
      BY <2>1, ElementOfSeq, LenProperties, MessageParts
  <1>4. \A k \in 1 .. Len(arrived[a]) :
          arrived[a][k] \in Messages /\ Number(arrived[a][k]) \in 1 .. MaxSends
    BY <1>1, ElementOfSeq, MessageParts
  <1> QED
    BY <1>1, <1>2, <1>3, <1>4

\* A new socket is an empty connection behind the others.
LEMMA OpenEffect ==
  ASSUME Types, OpenSocket
  PROVE  /\ consumed = "socket" /\ consumed' = "send" /\ addr \in Addresses
         /\ mapper_' = mapper_ \cup {addr}
         /\ UNCHANGED <<ringVars, id_to_addr_, addr, receiverVars, sent, unsafe, lost, via>>
         /\ network' \in [Addresses -> Seq(Seq(Messages))]
         /\ \A a \in mapper_' : Len(network'[a]) > 0
         /\ \A a \in Addresses : \A c \in 1 .. Len(network'[a]) :
              \/ c \in 1 .. Len(network[a]) /\ network'[a][c] = network[a][c]
              \/ network'[a][c] = <<>>
  <1>1. /\ consumed = "socket" /\ consumed' = "send" /\ addr \in Addresses
        /\ UNCHANGED <<ringVars, id_to_addr_, addr, receiverVars, sent, unsafe, lost, via>>
        /\ \/ addr \in mapper_ /\ mapper_' = mapper_ /\ network' = network
           \/ /\ mapper_' = mapper_ \cup {addr}
              /\ network' = [network EXCEPT ![addr] = Append(@, <<>>)]
    BY DEF OpenSocket, Types
  <1>2. /\ network \in [Addresses -> Seq(Seq(Messages))] /\ mapper_ \subseteq Addresses
        /\ \A a \in mapper_ : Len(network[a]) > 0
    BY DEF Types, CommTypeOK
  <1>3. CASE addr \in mapper_ /\ mapper_' = mapper_ /\ network' = network
    BY <1>1, <1>2, <1>3
  <1>4. CASE /\ mapper_' = mapper_ \cup {addr}
             /\ network' = [network EXCEPT ![addr] = Append(@, <<>>)]
    <2> DEFINE N == network[addr]
    <2>1. N \in Seq(Seq(Messages)) /\ Len(N) \in Nat /\ <<>> \in Seq(Messages)
      BY <1>1, <1>2, LenProperties, EmptySeq
    <2>2. /\ Append(N, <<>>) \in Seq(Seq(Messages)) /\ Len(Append(N, <<>>)) = Len(N) + 1
          /\ \A c \in 1 .. Len(N) : Append(N, <<>>)[c] = N[c]
          /\ Append(N, <<>>)[Len(N) + 1] = <<>>
      BY <2>1, AppendProperties
    <2>3. network'[addr] = Append(N, <<>>) /\ \A a \in Addresses : a # addr => network'[a] = network[a]
      BY <1>1, <1>2, <1>4
    <2>4. network' \in [Addresses -> Seq(Seq(Messages))]
      BY <1>1, <1>2, <1>4, <2>2
    <2> HIDE DEF N
    <2>5. \A a \in mapper_' : Len(network'[a]) > 0
      BY <1>1, <1>2, <1>4, <2>1, <2>2, <2>3
    <2>6. ASSUME NEW a \in Addresses, NEW c \in 1 .. Len(network'[a])
          PROVE  \/ c \in 1 .. Len(network[a]) /\ network'[a][c] = network[a][c]
                 \/ network'[a][c] = <<>>
      <3>1. CASE a # addr
        BY <2>3, <2>6, <3>1
      <3>2. CASE a = addr
        <4>1. c \in 1 .. Len(N) \/ c = Len(N) + 1
          BY <2>1, <2>2, <2>3, <2>6, <3>2
        <4> QED
          BY <2>2, <2>3, <3>2, <4>1 DEF N
      <3> QED
        BY <3>1, <3>2
    <2> QED
      BY <1>1, <1>4, <2>4, <2>5, <2>6
  <1> QED
    BY <1>1, <1>3, <1>4

\* A message goes to the end of the last connection of its address.
LEMMA SocketEffect ==
  ASSUME Types, SendMessage(consumer)
  PROVE  /\ consumed = "send" /\ consumed' = "fetch" /\ addr' = None /\ addr \in Addresses
         /\ fetched[consumer] \in Messages
         /\ UNCHANGED <<ringVars, id_to_addr_, mapper_, receiverVars, sent, unsafe>>
         /\ network' \in [Addresses -> Seq(Seq(Messages))]
         /\ via' \in [1 .. MaxSends -> (Addresses \cup {None}) \X Nat]
         /\ \A a \in mapper_' : Len(network'[a]) > 0
         /\ \/ UNCHANGED <<network, via>>
            \/ \E c \in 1 .. Len(network[addr]) :
                 /\ via' = [via EXCEPT ![Number(fetched[consumer])] = <<addr, c>>]
                 /\ Len(network'[addr]) = Len(network[addr])
                 /\ \A d \in 1 .. Len(network[addr]) :
                      d # c => network'[addr][d] = network[addr][d]
                 /\ \A a \in Addresses : a # addr => network'[a] = network[a]
                 /\ Len(network'[addr][c]) = Len(network[addr][c]) + 1
                 /\ \A i \in 1 .. Len(network[addr][c]) :
                      network'[addr][c][i] = network[addr][c][i]
                 /\ network'[addr][c][Len(network[addr][c]) + 1] = fetched[consumer]
  <1> DEFINE f == fetched[consumer]
             c == Len(network[addr])
             N == network[addr]
  <1>1. /\ consumed = "send" /\ consumed' = "fetch" /\ addr' = None
        /\ UNCHANGED <<ringVars, id_to_addr_, mapper_, receiverVars, sent, unsafe>>
        /\ \/ UNCHANGED <<network, via>>
           \/ /\ addr \in mapper_
              /\ network' = [network EXCEPT ![addr][c] = Append(@, f)]
              /\ via' = [via EXCEPT ![Number(f)] = <<addr, c>>]
    BY DEF SendMessage
  <1>2. /\ f \in Messages /\ addr \in Addresses /\ Number(f) \in 1 .. MaxSends
        /\ network \in [Addresses -> Seq(Seq(Messages))] /\ mapper_ \subseteq Addresses
        /\ \A a \in mapper_ : Len(network[a]) > 0
        /\ via \in [1 .. MaxSends -> (Addresses \cup {None}) \X Nat]
    BY <1>1, MessageParts DEF Types, CommTypeOK, Holding
  <1>3. CASE UNCHANGED <<network, via>>
    BY <1>1, <1>2, <1>3
  <1>4. CASE /\ addr \in mapper_
             /\ network' = [network EXCEPT ![addr][c] = Append(@, f)]
             /\ via' = [via EXCEPT ![Number(f)] = <<addr, c>>]
    <2>1. N \in Seq(Seq(Messages)) /\ c \in 1 .. Len(N) /\ c \in Nat
      BY <1>2, <1>4, LenProperties
    <2>2. /\ N[c] \in Seq(Messages) /\ Len(N[c]) \in Nat
          /\ Append(N[c], f) \in Seq(Messages) /\ Len(Append(N[c], f)) = Len(N[c]) + 1
          /\ \A i \in 1 .. Len(N[c]) : Append(N[c], f)[i] = N[c][i]
          /\ Append(N[c], f)[Len(N[c]) + 1] = f
      BY <1>2, <2>1, ElementOfSeq, LenProperties, AppendProperties
    <2> DEFINE M == [N EXCEPT ![c] = Append(N[c], f)]
    <2>3. /\ M \in Seq(Seq(Messages)) /\ Len(M) = Len(N)
          /\ \A d \in 1 .. Len(N) : M[d] = IF d = c THEN Append(N[c], f) ELSE N[d]
      BY <2>1, <2>2, ExceptSeq
    <2>4. network' = [network EXCEPT ![addr] = M]
      BY <1>4
    <2> HIDE DEF M
    <2>5. network'[addr] = M /\ \A a \in Addresses : a # addr => network'[a] = network[a]
      BY <1>2, <2>4
    <2>6. network' \in [Addresses -> Seq(Seq(Messages))]
      BY <1>2, <2>3, <2>4
    <2>7. via' \in [1 .. MaxSends -> (Addresses \cup {None}) \X Nat]
      <3>1. <<addr, c>> \in (Addresses \cup {None}) \X Nat
        BY <1>2, <2>1
      <3> QED
        BY <1>2, <1>4, <3>1
    <2>8. \A a \in mapper_' : Len(network'[a]) > 0
      BY <1>1, <1>2, <2>3, <2>5
    <2>9. /\ Len(network'[addr]) = Len(network[addr])
          /\ \A d \in 1 .. Len(network[addr]) : d # c => network'[addr][d] = network[addr][d]
          /\ network'[addr][c] = Append(N[c], f)
      BY <2>1, <2>3, <2>5
    <2> QED
      BY <1>1, <1>2, <1>4, <2>1, <2>2, <2>5, <2>6, <2>7, <2>8, <2>9
  <1> QED
    BY <1>1, <1>3, <1>4

\* A port takes the first message of one of its connections.
LEMMA TakeEffect ==
  ASSUME Types, NEW a \in Addresses, NEW c \in DOMAIN network[a], TakeFrom(a, c)
  PROVE  /\ c \in 1 .. Len(network[a]) /\ 1 \in 1 .. Len(network[a][c])
         /\ network[a][c][1] \in Messages
         /\ buffer' = network[a][c][1] /\ got' = [got EXCEPT ![a] = network[a][c][1]]
         /\ producing' = [producing EXCEPT ![a] = "len"]
         /\ disturbed' = disturbed \cup
              (IF Others(a) = {} THEN {}
               ELSE {Number(network[a][c][1])} \cup {Number(got[b]) : b \in Others(a)})
         /\ UNCHANGED <<ringVars, senderVars, len, arg, rings, received, sent, unsafe,
                        lost, via>>
         /\ network' \in [Addresses -> Seq(Seq(Messages))]
         /\ Len(network'[a]) = Len(network[a])
         /\ \A d \in 1 .. Len(network[a]) : d # c => network'[a][d] = network[a][d]
         /\ \A b \in Addresses : b # a => network'[b] = network[b] /\ arrived'[b] = arrived[b]
         /\ Len(network'[a][c]) = Len(network[a][c]) - 1
         /\ \A i \in 1 .. Len(network[a][c]) - 1 :
              network'[a][c][i] = network[a][c][i + 1]
         /\ arrived' \in [Addresses -> Seq(Messages)]
         /\ Len(arrived'[a]) = Len(arrived[a]) + 1
         /\ \A k \in 1 .. Len(arrived[a]) : arrived'[a][k] = arrived[a][k]
         /\ arrived'[a][Len(arrived[a]) + 1] = network[a][c][1]
  <1> DEFINE N == network[a]
             m == Head(N[c])
  <1>1. /\ N[c] # <<>> /\ network' = [network EXCEPT ![a][c] = Tail(@)]
        /\ arrived' = [arrived EXCEPT ![a] = Append(@, m)]
        /\ buffer' = m /\ got' = [got EXCEPT ![a] = m]
        /\ producing' = [producing EXCEPT ![a] = "len"]
        /\ disturbed' = disturbed \cup
             (IF Others(a) = {} THEN {} ELSE {Number(m)} \cup {Number(got[b]) : b \in Others(a)})
        /\ UNCHANGED <<ringVars, senderVars, len, arg, rings, received, sent, unsafe,
                       lost, via>>
    BY DEF TakeFrom
  <1>2. /\ network \in [Addresses -> Seq(Seq(Messages))]
        /\ arrived \in [Addresses -> Seq(Messages)]
    BY DEF Types, CommTypeOK
  <1>3. /\ N \in Seq(Seq(Messages)) /\ c \in 1 .. Len(N)
        /\ N[c] \in Seq(Messages) /\ Len(N[c]) \in Nat
    BY Connections
  <1>4. /\ m \in Messages /\ m = N[c][1] /\ Tail(N[c]) \in Seq(Messages)
        /\ Len(Tail(N[c])) = Len(N[c]) - 1 /\ 1 \in 1 .. Len(N[c])
        /\ \A i \in 1 .. Len(N[c]) - 1 : Tail(N[c])[i] = N[c][i + 1]
    BY <1>1, <1>3, HeadTailProperties, EmptySeq
  <1> DEFINE M == [N EXCEPT ![c] = Tail(N[c])]
  <1>5. /\ M \in Seq(Seq(Messages)) /\ Len(M) = Len(N)
        /\ \A d \in 1 .. Len(N) : M[d] = IF d = c THEN Tail(N[c]) ELSE N[d]
    BY <1>3, <1>4, ExceptSeq
  <1>6. network' = [network EXCEPT ![a] = M]
    BY <1>1
  <1> HIDE DEF M
  <1>7. network'[a] = M /\ \A b \in Addresses : b # a => network'[b] = network[b]
    BY <1>2, <1>6
  <1>8. network' \in [Addresses -> Seq(Seq(Messages))]
    BY <1>2, <1>5, <1>6
  <1>9. /\ Append(arrived[a], m) \in Seq(Messages)
        /\ Len(Append(arrived[a], m)) = Len(arrived[a]) + 1
        /\ \A k \in 1 .. Len(arrived[a]) : Append(arrived[a], m)[k] = arrived[a][k]
        /\ Append(arrived[a], m)[Len(arrived[a]) + 1] = m
    <2> HIDE DEF m
    <2> QED
      BY <1>2, <1>4, AppendProperties
  <1> HIDE DEF m
  <1>10. /\ arrived' \in [Addresses -> Seq(Messages)] /\ arrived'[a] = Append(arrived[a], m)
         /\ \A b \in Addresses : b # a => arrived'[b] = arrived[b]
    BY <1>1, <1>2, <1>9
  <1>11. /\ Len(network'[a]) = Len(network[a])
         /\ \A d \in 1 .. Len(network[a]) : d # c => network'[a][d] = network[a][d]
         /\ network'[a][c] = Tail(N[c])
    BY <1>3, <1>5, <1>7
  <1> QED
    BY <1>1, <1>3, <1>4, <1>7, <1>8, <1>9, <1>10, <1>11

-----------------------------------------------------------------------------
(* The types *)

\* Every step keeps the types of the sender and of the receivers.
LEMMA TypesStep ==
  ASSUME OneOfEach, RingInv, RingInv', Types, [CommNext]_commVars
  PROVE  Types'
  <1>0. CommTypeOK /\ TypeOK' /\ Len(sent) \in Nat
    BY LenProperties DEF Types, RingInv
  <1> DEFINE Sender ==
               /\ id_to_addr_ \in [Ids -> Addresses \cup {None}]
               /\ mapper_ \subseteq Addresses
               /\ consumed \in {"fetch", "lookup", "socket", "send"}
               /\ addr \in Addresses \cup {None}
               /\ network \in [Addresses -> Seq(Seq(Messages))]
               /\ \A a \in mapper_ : Len(network[a]) > 0
               /\ via \in [1 .. MaxSends -> (Addresses \cup {None}) \X Nat]
               /\ sent \in Seq(Addresses \cup {None}) /\ Len(sent) <= MaxSends
               /\ consumed # "fetch" => pc[consumer] = "idle"
               /\ Holding => fetched[consumer] \in Messages
               /\ consumed \in {"socket", "send"} => addr \in Addresses
             Receiver ==
               /\ buffer \in Messages \cup {None} /\ len \in 0 .. MaxSends
               /\ producing \in [Addresses -> {"receive", "len", "call", "copy"}]
               /\ got \in [Addresses -> Messages \cup {None}]
               /\ arg \in [Addresses -> 0 .. MaxSends]
               /\ \A a \in Addresses : Len(rings[a]) <= RingSize
               /\ rings \in [Addresses -> Seq(Item)]
               /\ received \in [Addresses -> Seq(Item)]
               /\ arrived \in [Addresses -> Seq(Messages)]
               /\ \A a \in Addresses : producing[a] # "receive" => got[a] \in Messages
  <1>1. Sender /\ Receiver
    BY DEF Types, CommTypeOK
  <1>2. SUFFICES Sender' /\ Receiver'
    BY <1>0 DEF Types, CommTypeOK
  <1>3. ASSUME UNCHANGED receiverVars PROVE Receiver'
    BY <1>1, <1>3 DEF receiverVars
  <1>4. CASE Send(producer)
    <2>1. id_to_addr_[Dst(message'[producer])] \in Addresses \cup {None}
      BY <1>1, <1>4, SendEffect, MessageParts
    <2>2. sent' \in Seq(Addresses \cup {None}) /\ Len(sent') <= MaxSends
      <3> DEFINE x == id_to_addr_[Dst(message'[producer])]
                 A == Addresses \cup {None}
      <3>1. sent' = Append(sent, x) /\ Len(sent) < MaxSends /\ MaxSends \in Nat
        BY <1>4, SendEffect, MessageParts
      <3>2. sent \in Seq(A) /\ x \in A
        BY <1>1, <2>1
      <3> HIDE DEF x, A
      <3>3. Append(sent, x) \in Seq(A) /\ Len(Append(sent, x)) = Len(sent) + 1
        BY <3>2, AppendProperties
      <3> QED
        BY <1>0, <3>1, <3>3 DEF A
    <2> QED
      BY <1>1, <1>3, <1>4, <2>2, SendEffect
  <1>5. CASE Add(producer)
    BY <1>1, <1>3, <1>5, AddEffect DEF senderVars
  <1>6. CASE Fetch(consumer)
    <2>1. Holding' => fetched'[consumer] \in Messages
      BY <1>1, <1>6, FetchEffect
    <2>2. UNCHANGED <<id_to_addr_, mapper_, addr, network, receiverVars, sent, via>>
      BY <1>6, FetchEffect
    <2>3. /\ consumed' \in {"fetch", "lookup"}
          /\ consumed' # "fetch" => pc'[consumer] = "idle"
      BY <1>6, FetchEffect
    <2> QED
      BY <1>1, <1>3, <2>1, <2>2, <2>3
  <1>7. CASE Lookup(consumer)
    <2>1. /\ consumed = "lookup" /\ UNCHANGED <<ringVars, id_to_addr_, mapper_, network,
                                                receiverVars, sent, via>>
          /\ \/ consumed' = "fetch" /\ UNCHANGED addr
             \/ /\ id_to_addr_[Dst(fetched[consumer])] # None
                /\ addr' = id_to_addr_[Dst(fetched[consumer])] /\ consumed' = "socket"
      BY <1>7 DEF Lookup
    <2>2. fetched[consumer] \in Messages /\ UNCHANGED <<pc, fetched>>
      BY <1>1, <2>1 DEF Holding, ringVars, vars
    <2>3. id_to_addr_[Dst(fetched[consumer])] \in Addresses \cup {None}
      BY <1>1, <2>2, MessageParts
    <2> QED
      BY <1>1, <1>3, <2>1, <2>2, <2>3 DEF Holding
  <1>8. CASE OpenSocket
    BY <1>1, <1>3, <1>8, OpenEffect DEF Holding, ringVars, vars
  <1>9. CASE SendMessage(consumer)
    BY <1>1, <1>3, <1>9, SocketEffect DEF Holding, ringVars, vars
  <1>10. CASE Configure
    <2>1. UNCHANGED <<ringVars, consumed, addr, network, receiverVars, sent, via>>
      BY <1>10 DEF Configure
    <2>2. /\ id_to_addr_' \in [Ids -> Addresses \cup {None}]
          /\ mapper_' \subseteq Addresses
      <3>1. \A e \in Entries : e[1] \in Ids /\ e[2] \in Addresses
        BY CommunicatorAssumption
      <3> QED
        BY <1>1, <1>10, <3>1 DEF Configure, AddIdAddr, DeleteId, CloseSocket
    <2>3. mapper_' \subseteq mapper_
      BY <1>10 DEF Configure, AddIdAddr, DeleteId, CloseSocket
    <2>4. \A a \in mapper_' : Len(network'[a]) > 0
      BY <1>1, <2>1, <2>3
    <2> QED
      BY <1>1, <1>3, <2>1, <2>2, <2>4 DEF Holding, ringVars, vars
  <1>11. ASSUME NEW a \in Addresses, Produce(a) \/ Receive(a) PROVE Sender' /\ Receiver'
    <2>1. ASSUME UNCHANGED network PROVE Sender'
      BY <1>1, <1>11, <2>1
      DEF Produce, ReceiveMessage, TakeFrom, SetLen, CallAdd, CopyBuffer, Receive, senderVars,
          ringVars, vars, Holding
    <2>2. CASE ReceiveMessage(a)
      <3>1. PICK c \in DOMAIN network[a] : TakeFrom(a, c)
        BY <2>2 DEF ReceiveMessage
      <3>2. Sender'
        <4>1. \A b \in mapper_' : Len(network'[b]) > 0
          BY <1>1, <3>1, TakeEffect DEF senderVars
        <4> QED
          BY <1>1, <3>1, <4>1, TakeEffect DEF senderVars, ringVars, vars, Holding
      <3>3. /\ buffer' \in Messages /\ arrived' \in [Addresses -> Seq(Messages)]
            /\ got' = [got EXCEPT ![a] = network[a][c][1]] /\ network[a][c][1] \in Messages
            /\ producing' = [producing EXCEPT ![a] = "len"]
            /\ UNCHANGED <<len, arg, rings, received>>
        BY <3>1, TakeEffect
      <3>4. Receiver'
        BY <1>1, <3>3
      <3> QED
        BY <3>2, <3>4
    <2>3. CASE SetLen(a)
      <3>1. Number(got[a]) \in 0 .. MaxSends
        BY <1>1, <2>3, MessageParts DEF SetLen
      <3> QED
        BY <1>1, <2>1, <2>3, <3>1 DEF SetLen
    <2>4. CASE CallAdd(a)
      <3>1. Number(got[a]) \in 0 .. MaxSends
        BY <1>1, <2>4, MessageParts DEF CallAdd
      <3> QED
        BY <1>1, <2>1, <2>4, <3>1, SMTT(20) DEF CallAdd
    <2>5. CASE CopyBuffer(a)
      <3>1. /\ Len(rings[a]) < RingSize
            /\ rings' = [rings EXCEPT ![a] = Append(@, <<buffer, arg[a]>>)]
            /\ producing' = [producing EXCEPT ![a] = "receive"]
            /\ UNCHANGED <<network, buffer, len, got, arg, received, arrived>>
        BY <2>5 DEF CopyBuffer
      <3>2. <<buffer, arg[a]>> \in Item
        BY <1>1 DEF Item
      <3>3. /\ Append(rings[a], <<buffer, arg[a]>>) \in Seq(Item)
            /\ Len(Append(rings[a], <<buffer, arg[a]>>)) <= RingSize
        <4>1. Len(rings[a]) \in Nat /\ RingSize \in Nat
          BY <1>1, LenProperties, FifoRingAssumption
        <4> QED
          BY <1>1, <3>1, <3>2, <4>1, AppendProperties
      <3> QED
        BY <1>1, <2>1, <3>1, <3>3
    <2>6. CASE Receive(a)
      <3>1. /\ rings[a] # <<>>
            /\ received' = [received EXCEPT ![a] = Append(@, Head(rings[a]))]
            /\ rings' = [rings EXCEPT ![a] = Tail(@)]
            /\ UNCHANGED <<network, buffer, len, producing, got, arg, arrived>>
        BY <2>6 DEF Receive
      <3>2. /\ Head(rings[a]) \in Item /\ Tail(rings[a]) \in Seq(Item)
            /\ Len(Tail(rings[a])) <= RingSize
        <4>1. Len(rings[a]) \in Nat /\ RingSize \in Nat
          BY <1>1, LenProperties, FifoRingAssumption
        <4> QED
          BY <1>1, <3>1, <4>1, HeadTailProperties
      <3>3. Append(received[a], Head(rings[a])) \in Seq(Item)
        BY <1>1, <3>2, AppendProperties
      <3> QED
        BY <1>1, <2>1, <3>1, <3>2, <3>3
    <2> QED
      BY <1>11, <2>2, <2>3, <2>4, <2>5, <2>6 DEF Produce
  <1>12. CASE UNCHANGED commVars
    BY <1>1, <1>3, <1>12 DEF commVars, senderVars, ringVars, vars, Holding
  <1> QED
    BY <1>4, <1>5, <1>6, <1>7, <1>8, <1>9, <1>10, <1>11, <1>12, CommCases

-----------------------------------------------------------------------------
(* The table and the losses *)

\* A step that neither sends nor changes the table explains what was explained.
LEMMA ExplainedStays ==
  ASSUME TableOK, UNCHANGED <<id_to_addr_, sent, unsafe>>, UnderWay' \subseteq UnderWay
  PROVE  \A m \in UnderWay' : Explained(m)'
  BY DEF TableOK, Explained

\* Whatever the table becomes while a message is under way, its loss is
\* accounted for.
LEMMA TableStep ==
  ASSUME OneOfEach, RingInv, RingInv', Types, Types', TableOK, [CommNext]_commVars
  PROVE  TableOK'
  <1> DEFINE f == fetched[consumer]
  <1>0. /\ id_to_addr_ \in [Ids -> Addresses \cup {None}] /\ None \notin Addresses
        /\ sent \in Seq(Addresses \cup {None}) /\ Len(sent) \in Nat
        /\ ring_ \in [Slots -> Messages \cup {Null, Garbage}]
        /\ First \in Slots /\ Free \in Slots
    BY MessageParts, LenProperties, RingFacts DEF Types, CommTypeOK
  <1>1. Holding => f \in UnderWay /\ f \in Messages /\ Dst(f) \in Ids
    BY UnderWayIs, MessageParts DEF Types
  <1>2. CASE Send(producer)
    <2> DEFINE new == message'[producer]
               x == id_to_addr_[Dst(new)]
    <2>1. /\ new \in Messages /\ Number(new) = Len(sent) + 1 /\ sent' = Append(sent, x)
          /\ unsafe' = unsafe \cup (IF x = None THEN {Len(sent) + 1} ELSE {})
          /\ UNCHANGED <<fetched, id_to_addr_, mapper_, consumed, addr, lost, ring_>>
          /\ pc[producer] = "idle" /\ (Holding' <=> Holding)
      BY <1>2, SendEffect
    <2>2. x \in Addresses \cup {None}
      BY <1>0, <2>1, MessageParts
    <2> HIDE DEF x
    <2>3. /\ Len(sent') = Len(sent) + 1 /\ sent'[Len(sent) + 1] = x
          /\ \A k \in 1 .. Len(sent) : sent'[k] = sent[k]
      BY <1>0, <2>1, <2>2, AppendProperties
    <2>4. \A m \in UnderWay' : m = new \/ m \in UnderWay
      BY <2>1, UnderWayIs
    <2>5. ASSUME NEW m, m = new PROVE Explained(m)'
      BY <1>0, <2>1, <2>2, <2>3, <2>5 DEF Explained, x
    <2>6. ASSUME NEW m \in UnderWay PROVE Explained(m)'
      <3>1. Number(m) \in 1 .. Len(sent)
        BY DEF TableOK, Explained
      <3>2. /\ Number(m) \in 1 .. Len(sent') /\ sent'[Number(m)] = sent[Number(m)]
            /\ Number(m) \notin unsafe' => Number(m) \notin unsafe
        BY <1>0, <2>1, <2>3, <3>1
      <3> QED
        BY <2>1, <3>2 DEF TableOK, Explained
    <2>7. LossExplained'
      BY <2>1 DEF TableOK, LossExplained
    <2> QED
      BY <2>1, <2>4, <2>5, <2>6, <2>7 DEF TableOK
  <1>3. CASE Add(producer)
    <2>1. /\ UNCHANGED <<message, fetched, id_to_addr_, mapper_, consumed, addr, sent,
                         unsafe, lost>>
          /\ pc[producer] # "idle" /\ (Holding' <=> Holding)
          /\ \/ UNCHANGED ring_
             \/ ring_' = [ring_ EXCEPT ![Free] = message[producer]]
      BY <1>3, AddEffect DEF senderVars
    <2>2. UnderWay' \subseteq UnderWay
      BY <1>0, <2>1, UnderWayIs
    <2> QED
      BY <2>1, <2>2, ExplainedStays DEF TableOK, LossExplained
  <1>4. CASE Fetch(consumer)
    <2>1. /\ UNCHANGED <<message, id_to_addr_, mapper_, addr, sent, unsafe, lost>>
          /\ pc'[producer] = pc[producer] /\ consumed' \in {"fetch", "lookup"}
          /\ \/ UNCHANGED <<ring_, fetched>> /\ (Holding' => Holding)
             \/ /\ ring_' = [ring_ EXCEPT ![First] = Null]
                /\ fetched'[consumer] = ring_[First] /\ ring_[First] \in Messages
      BY <1>4, FetchEffect
    <2>2. UnderWay' \subseteq UnderWay
      <3>1. Null \notin Messages
        BY FifoRingAssumption
      <3>2. CASE UNCHANGED <<ring_, fetched>> /\ (Holding' => Holding)
        BY <2>1, <3>2, UnderWayIs
      <3>3. CASE /\ ring_' = [ring_ EXCEPT ![First] = Null]
                 /\ fetched'[consumer] = ring_[First] /\ ring_[First] \in Messages
        <4>1. \A m \in Messages, s \in Slots : ring_'[s] = m => ring_[s] = m
          BY <1>0, <3>1, <3>3
        <4> QED
          BY <1>0, <2>1, <3>3, <4>1, UnderWayIs
      <3> QED
        BY <2>1, <3>2, <3>3
    <2> QED
      BY <2>1, <2>2, ExplainedStays DEF TableOK, LossExplained
  <1>5. ASSUME UNCHANGED ringVars, consumed # "fetch" \/ consumed' = "fetch"
        PROVE  UnderWay' \subseteq UnderWay
    BY <1>5, UnderWayIs DEF ringVars, vars, Holding
  <1>6. CASE Lookup(consumer)
    <2>1. /\ consumed = "lookup"
          /\ UNCHANGED <<ringVars, id_to_addr_, mapper_, sent, unsafe>>
      BY <1>6 DEF Lookup
    <2>2. fetched' = fetched /\ Holding /\ UnderWay' \subseteq UnderWay
      BY <1>5, <2>1 DEF ringVars, vars, Holding
    <2>3. \A m \in UnderWay' : Explained(m)'
      BY <2>1, <2>2, ExplainedStays
    <2>4. CASE id_to_addr_[Dst(f)] = None /\ lost' = lost \cup {Number(f)} /\ consumed' = "fetch"
      <3>1. Number(f) \in unsafe
        BY <1>0, <1>1, <2>2, <2>4 DEF TableOK, Explained
      <3> QED
        BY <2>1, <2>3, <2>4, <3>1 DEF TableOK, LossExplained
    <2>5. CASE addr' = id_to_addr_[Dst(f)] /\ consumed' = "socket" /\ UNCHANGED lost
      BY <2>1, <2>2, <2>3, <2>5 DEF TableOK, LossExplained
    <2> QED
      BY <1>6, <2>4, <2>5 DEF Lookup
  <1>7. CASE OpenSocket
    <2>1. /\ consumed = "socket" /\ mapper_' = mapper_ \cup {addr} /\ consumed' = "send"
          /\ UNCHANGED <<ringVars, id_to_addr_, addr, sent, unsafe, lost>>
      BY <1>7 DEF OpenSocket
    <2>2. fetched' = fetched /\ UnderWay' \subseteq UnderWay
      BY <1>5, <2>1 DEF ringVars, vars
    <2>3. \A m \in UnderWay' : Explained(m)'
      BY <2>1, <2>2, ExplainedStays
    <2> QED
      BY <2>1, <2>2, <2>3 DEF TableOK, LossExplained
  <1>8. CASE SendMessage(consumer)
    <2>1. /\ consumed = "send" /\ consumed' = "fetch"
          /\ UNCHANGED <<ringVars, id_to_addr_, mapper_, sent, unsafe>>
          /\ \/ lost' = lost
             \/ addr \notin mapper_ /\ lost' = lost \cup {Number(f)}
      BY <1>8 DEF SendMessage
    <2>2. UnderWay' \subseteq UnderWay
      BY <1>5, <2>1
    <2>3. \A m \in UnderWay' : Explained(m)'
      BY <2>1, <2>2, ExplainedStays
    <2>4. LossExplained'
      BY <2>1 DEF TableOK, LossExplained
    <2> QED
      BY <2>1, <2>3, <2>4 DEF TableOK
  <1>9. CASE Configure
    <2>1. UNCHANGED <<ringVars, consumed, addr, sent, lost>>
      BY <1>9 DEF Configure
    <2>2. /\ fetched' = fetched /\ UnderWay' \subseteq UnderWay
          /\ consumed \in {"socket", "send"} => Holding
      BY <2>1, UnderWayIs DEF ringVars, vars, Holding
    <2>3. ASSUME NEW e \in Entries, AddIdAddr(e[1], e[2]) PROVE TableOK'
      <3>1. /\ id_to_addr_[e[1]] = None /\ e[1] \in Ids /\ e[2] \in Addresses
            /\ id_to_addr_' = [id_to_addr_ EXCEPT ![e[1]] = e[2]]
            /\ UNCHANGED <<mapper_, unsafe>>
        BY <2>3, CommunicatorAssumption DEF AddIdAddr
      <3>2. ASSUME NEW m \in UnderWay, Number(m) \notin unsafe
            PROVE  id_to_addr_'[Dst(m)] = id_to_addr_[Dst(m)]
        <4>1. id_to_addr_[Dst(m)] \in Addresses
          BY <3>2 DEF TableOK, Explained
        <4> QED
          BY <1>0, <3>1, <4>1
      <3>3. \A m \in UnderWay' : Explained(m)'
        BY <2>1, <2>2, <3>1, <3>2 DEF TableOK, Explained
      <3> QED
        BY <1>1, <2>1, <2>2, <3>1, <3>2, <3>3 DEF TableOK, LossExplained
    <2>4. ASSUME NEW j \in Ids, DeleteId(j) PROVE TableOK'
      <3>1. /\ id_to_addr_' = [id_to_addr_ EXCEPT ![j] = None]
            /\ mapper_' = mapper_ \ {id_to_addr_[j]}
            /\ unsafe' = unsafe \cup {Number(m) :
                 m \in {u \in UnderWay : id_to_addr_[Dst(u)] = id_to_addr_[j]}}
        BY <2>4 DEF DeleteId, CloseSocket
      <3>2. ASSUME NEW m \in UnderWay, Number(m) \notin unsafe'
            PROVE  /\ Number(m) \notin unsafe
                   /\ id_to_addr_[Dst(m)] # id_to_addr_[j]
                   /\ id_to_addr_'[Dst(m)] = id_to_addr_[Dst(m)]
        <4>1. Number(m) \notin unsafe /\ id_to_addr_[Dst(m)] # id_to_addr_[j]
          BY <3>1, <3>2
        <4> QED
          BY <1>0, <3>1, <4>1
      <3>3. \A m \in UnderWay' : Explained(m)'
        BY <2>1, <2>2, <3>1, <3>2 DEF TableOK, Explained
      <3>4. LossExplained'
        BY <2>1, <3>1 DEF TableOK, LossExplained
      <3>5. ASSUME consumed \in {"socket", "send"}, Number(f) \notin unsafe'
            PROVE  /\ addr = id_to_addr_'[Dst(f)]
                   /\ consumed = "send" => addr \in mapper_'
        <4>1. f \in UnderWay
          BY <1>1, <2>2, <3>5
        <4>2. /\ Number(f) \notin unsafe /\ id_to_addr_[Dst(f)] # id_to_addr_[j]
              /\ id_to_addr_'[Dst(f)] = id_to_addr_[Dst(f)]
          BY <3>2, <3>5, <4>1
        <4> QED
          BY <3>1, <3>5, <4>2 DEF TableOK
      <3> QED
        BY <2>1, <2>2, <3>3, <3>4, <3>5 DEF TableOK
    <2> QED
      BY <1>9, <2>3, <2>4 DEF Configure
  <1>10. ASSUME UNCHANGED <<ringVars, senderVars, sent, unsafe, lost>> PROVE TableOK'
    <2>1. UnderWay' \subseteq UnderWay
      BY <1>10, UnderWayIs DEF ringVars, vars, senderVars, Holding
    <2>2. /\ \A m \in UnderWay' : Explained(m)'
          /\ UNCHANGED <<id_to_addr_, mapper_, consumed, addr, fetched, unsafe, lost>>
      BY <1>10, <2>1, ExplainedStays DEF ringVars, vars, senderVars
    <2> QED
      BY <2>2 DEF TableOK, LossExplained
  <1>11. ASSUME NEW a \in Addresses, Produce(a) \/ Receive(a)
         PROVE  UNCHANGED <<ringVars, senderVars, sent, unsafe, lost>>
    BY <1>11 DEF Produce, ReceiveMessage, TakeFrom, SetLen, CallAdd, CopyBuffer, Receive
  <1>12. UNCHANGED commVars => UNCHANGED <<ringVars, senderVars, sent, unsafe, lost>>
    BY DEF commVars
  <1> QED
    BY <1>2, <1>3, <1>4, <1>6, <1>7, <1>8, <1>9, <1>10, <1>11, <1>12, CommCases

-----------------------------------------------------------------------------
(* The order of the messages in the sending process *)

\* How a step changes what waits in the sending process.
LEMMA SenderMoves ==
  ASSUME OneOfEach, RingInv, RingInv', Types, [CommNext]_commVars
  PROVE  /\ Queue \in Seq(Messages) /\ Len(Queue) = Stored /\ Stored \in Nat
         /\ \A k \in 1 .. Stored : Number(Queue[k]) \in Nat
         /\ Len(sent) \in Nat
         /\ \/ /\ Send(producer) /\ ~ Waiting /\ Waiting'
               /\ Queue' = Queue /\ Stored' = Stored
               /\ Number(message'[producer]) = Len(sent) + 1 /\ Len(sent') = Len(sent) + 1
               /\ (Holding' <=> Holding) /\ fetched' = fetched
            \/ /\ Waiting /\ ~ Waiting' /\ Len(sent') = Len(sent)
               /\ Queue' = Append(Queue, message[producer]) /\ Stored' = Stored + 1
               /\ message[producer] \in Messages
               /\ (Holding' <=> Holding) /\ fetched' = fetched
            \/ /\ (Waiting' <=> Waiting) /\ message' = message /\ Len(sent') = Len(sent)
               /\ Queue # <<>> /\ Queue' = Tail(Queue) /\ Stored' = Stored - 1
               /\ ~ Holding /\ Holding' /\ fetched'[consumer] = Head(Queue)
            \/ /\ (Waiting' <=> Waiting) /\ message' = message /\ Len(sent') = Len(sent)
               /\ Queue' = Queue /\ Stored' = Stored
               /\ (Holding' => Holding) /\ fetched' = fetched
  <1>1. /\ Queue \in Seq(Messages) /\ Len(Queue) = Stored /\ Stored \in Nat
        /\ Len(sent) \in Nat /\ message[producer] \in Messages
        /\ sent \in Seq(Addresses \cup {None})
    BY QueueSeq, RingFacts, LenProperties, TwoThreads DEF Types, RingInv, TypeOK
  <1>2. \A k \in 1 .. Stored : Number(Queue[k]) \in Nat
    <2>1. \A k \in 1 .. Stored : Queue[k] \in Messages
      BY <1>1, ElementOfSeq
    <2> QED
      BY <2>1, MessageParts
  <1>3. CASE Send(producer)
    <2> DEFINE x == id_to_addr_[Dst(message'[producer])]
    <2>1. sent' = Append(sent, x) /\ message'[producer] \in Messages
      BY <1>3, SendEffect
    <2>2. x \in Addresses \cup {None}
      BY <2>1, MessageParts DEF Types, CommTypeOK
    <2> HIDE DEF x
    <2>3. Len(sent') = Len(sent) + 1
      BY <1>1, <2>1, <2>2, AppendProperties
    <2> QED
      BY <1>1, <1>2, <1>3, <2>3, SendEffect
  <1>4. CASE Add(producer)
    <2>1. sent' = sent
      BY <1>4, AddEffect
    <2> QED
      BY <1>1, <1>2, <1>4, <2>1, AddEffect
  <1>5. CASE Fetch(consumer)
    <2>1. sent' = sent
      BY <1>5, FetchEffect
    <2> QED
      BY <1>1, <1>2, <1>5, <2>1, FetchEffect
  <1>6. ASSUME UNCHANGED <<ringVars, sent>>, consumed' # "fetch" => consumed # "fetch"
        PROVE  /\ (Waiting' <=> Waiting) /\ message' = message /\ Len(sent') = Len(sent)
               /\ Queue' = Queue /\ Stored' = Stored
               /\ (Holding' => Holding) /\ fetched' = fetched
    BY <1>6 DEF ringVars, vars, Waiting, Queue, Stored, First, Holding
  <1>7. CASE Lookup(consumer) \/ OpenSocket \/ SendMessage(consumer) \/ Configure
    <2>1. UNCHANGED <<ringVars, sent>> /\ (consumed' # "fetch" => consumed # "fetch")
      BY <1>7 DEF Lookup, OpenSocket, SendMessage, Configure
    <2> QED
      BY <1>1, <1>2, <1>6, <2>1
  <1>8. ASSUME NEW a \in Addresses, Produce(a) \/ Receive(a)
        PROVE  UNCHANGED <<ringVars, sent, consumed>>
    BY <1>8
    DEF Produce, ReceiveMessage, TakeFrom, SetLen, CallAdd, CopyBuffer, Receive, senderVars
  <1>9. UNCHANGED commVars => UNCHANGED <<ringVars, sent, consumed>>
    BY DEF commVars, senderVars
  <1> QED
    BY <1>1, <1>2, <1>3, <1>4, <1>5, <1>6, <1>7, <1>8, <1>9, CommCases

\* What came before everything in the sending process still does.
LEMMA BehindStep ==
  ASSUME OneOfEach, RingInv, RingInv', Types, [CommNext]_commVars,
         NEW n \in Nat, Behind(n)
  PROVE  Behind(n)'
  <1>1. /\ Queue \in Seq(Messages) /\ Len(Queue) = Stored /\ Stored \in Nat
        /\ \A k \in 1 .. Stored : Number(Queue[k]) \in Nat
        /\ Len(sent) \in Nat
    BY SenderMoves
  <1>2. /\ n <= Len(sent) /\ (Waiting => n < Number(message[producer]))
        /\ \A k \in 1 .. Stored : n < Number(Queue[k])
    BY DEF Behind
  <1>3. CASE /\ Waiting' /\ Queue' = Queue /\ Stored' = Stored
             /\ Number(message'[producer]) = Len(sent) + 1 /\ Len(sent') = Len(sent) + 1
    BY <1>1, <1>2, <1>3 DEF Behind
  <1>4. CASE /\ Waiting /\ ~ Waiting' /\ Len(sent') = Len(sent)
             /\ Queue' = Append(Queue, message[producer]) /\ Stored' = Stored + 1
             /\ message[producer] \in Messages
    <2>1. /\ \A k \in 1 .. Stored : Queue'[k] = Queue[k]
          /\ Queue'[Stored + 1] = message[producer]
      BY <1>1, <1>4, AppendProperties
    <2>2. ASSUME NEW k \in 1 .. Stored' PROVE n < Number(Queue'[k])
      <3>1. k \in 1 .. Stored \/ k = Stored + 1
        BY <1>1, <1>4
      <3> QED
        BY <1>2, <1>4, <2>1, <3>1
    <2> QED
      BY <1>2, <1>4, <2>2 DEF Behind
  <1>5. CASE /\ (Waiting' <=> Waiting) /\ message' = message /\ Len(sent') = Len(sent)
             /\ Queue # <<>> /\ Queue' = Tail(Queue) /\ Stored' = Stored - 1
    <2>1. \A k \in 1 .. Stored - 1 : Queue'[k] = Queue[k + 1] /\ k + 1 \in 1 .. Stored
      BY <1>1, <1>5, HeadTailProperties
    <2> QED
      BY <1>2, <1>5, <2>1 DEF Behind
  <1>6. CASE /\ (Waiting' <=> Waiting) /\ message' = message /\ Len(sent') = Len(sent)
             /\ Queue' = Queue /\ Stored' = Stored
    BY <1>2, <1>6 DEF Behind
  <1> QED
    BY <1>3, <1>4, <1>5, <1>6, SenderMoves

\* The messages in the sending process stay in the order of their numbers.
LEMMA SenderOrderStep ==
  ASSUME OneOfEach, RingInv, RingInv', Types, SenderOrder, [CommNext]_commVars
  PROVE  SenderOrder'
  <1>1. /\ Queue \in Seq(Messages) /\ Len(Queue) = Stored /\ Stored \in Nat
        /\ \A k \in 1 .. Stored : Number(Queue[k]) \in Nat
        /\ Len(sent) \in Nat
    BY SenderMoves
  <1>2. /\ Waiting => Number(message[producer]) = Len(sent)
        /\ \A k \in 1 .. Stored :
             /\ Number(Queue[k]) <= Len(sent)
             /\ Waiting => Number(Queue[k]) < Len(sent)
             /\ \A j \in 1 .. k - 1 : Number(Queue[j]) < Number(Queue[k])
    BY DEF SenderOrder
  <1>3. ASSUME Holding, Holding', fetched' = fetched
        PROVE  Behind(Number(fetched[consumer]))'
    <2>1. fetched[consumer] \in Messages
      BY <1>3 DEF Types
    <2>2. Number(fetched[consumer]) \in Nat /\ Behind(Number(fetched[consumer]))
      BY <1>3, <2>1, MessageParts DEF SenderOrder
    <2>3. \A n \in Nat : Behind(n) => Behind(n)'
      BY BehindStep
    <2>4. PICK n : n = Number(fetched[consumer])
      OBVIOUS
    <2>5. Behind(n)'
      BY <2>2, <2>3, <2>4
    <2> QED
      BY <1>3, <2>4, <2>5 DEF Behind
  <1>4. CASE /\ ~ Waiting /\ Waiting' /\ Queue' = Queue /\ Stored' = Stored
             /\ Number(message'[producer]) = Len(sent) + 1 /\ Len(sent') = Len(sent) + 1
             /\ (Holding' <=> Holding) /\ fetched' = fetched
    BY <1>1, <1>2, <1>3, <1>4 DEF SenderOrder
  <1>5. CASE /\ Waiting /\ ~ Waiting' /\ Len(sent') = Len(sent)
             /\ Queue' = Append(Queue, message[producer]) /\ Stored' = Stored + 1
             /\ message[producer] \in Messages
             /\ (Holding' <=> Holding) /\ fetched' = fetched
    <2>1. /\ \A k \in 1 .. Stored : Queue'[k] = Queue[k]
          /\ Queue'[Stored + 1] = message[producer]
      BY <1>1, <1>5, AppendProperties
    <2>2. ASSUME NEW k \in 1 .. Stored'
          PROVE  /\ Number(Queue'[k]) <= Len(sent)
                 /\ \A j \in 1 .. k - 1 : Number(Queue'[j]) < Number(Queue'[k])
      <3>1. CASE k \in 1 .. Stored
        <4>1. \A j \in 1 .. k - 1 : j \in 1 .. Stored
          BY <1>1, <3>1
        <4>2. \A j \in 1 .. k - 1 : Queue'[j] = Queue[j]
          BY <2>1, <4>1
        <4>3. Queue'[k] = Queue[k]
          BY <2>1, <3>1
        <4> QED
          BY <1>2, <3>1, <4>2, <4>3
      <3>2. CASE k = Stored + 1
        <4>1. Queue'[k] = message[producer] /\ \A j \in 1 .. k - 1 : j \in 1 .. Stored
          BY <1>1, <2>1, <3>2
        <4>2. \A j \in 1 .. k - 1 : Queue'[j] = Queue[j]
          BY <2>1, <4>1
        <4>3. Number(message[producer]) = Len(sent)
          BY <1>2, <1>5
        <4> QED
          BY <1>1, <1>2, <1>5, <4>1, <4>2, <4>3
      <3> QED
        BY <1>1, <1>5, <3>1, <3>2
    <2> QED
      BY <1>3, <1>5, <2>2 DEF SenderOrder
  <1>6. CASE /\ (Waiting' <=> Waiting) /\ message' = message /\ Len(sent') = Len(sent)
             /\ Queue # <<>> /\ Queue' = Tail(Queue) /\ Stored' = Stored - 1
             /\ Holding' /\ fetched'[consumer] = Head(Queue)
    <2>1. /\ \A k \in 1 .. Stored - 1 : Queue'[k] = Queue[k + 1] /\ k + 1 \in 1 .. Stored
          /\ fetched'[consumer] = Queue[1] /\ 1 \in 1 .. Stored
      BY <1>1, <1>6, HeadTailProperties
    <2>2. \A k \in 1 .. Stored - 1 : \A j \in 1 .. k - 1 :
            Number(Queue'[j]) < Number(Queue'[k])
      <3> SUFFICES ASSUME NEW k \in 1 .. Stored - 1, NEW j \in 1 .. k - 1
                   PROVE  Number(Queue'[j]) < Number(Queue'[k])
        OBVIOUS
      <3>1. j \in 1 .. Stored - 1 /\ j + 1 \in 1 .. (k + 1) - 1
        BY <1>1
      <3> QED
        BY <1>2, <2>1, <3>1
    <2>3. \A k \in 1 .. Stored - 1 : Number(Queue[1]) < Number(Queue'[k])
      <3> SUFFICES ASSUME NEW k \in 1 .. Stored - 1
                   PROVE  Number(Queue[1]) < Number(Queue'[k])
        OBVIOUS
      <3>1. 1 \in 1 .. (k + 1) - 1
        BY <1>1
      <3> QED
        BY <1>2, <2>1, <3>1
    <2>4. Behind(Number(fetched[consumer]))'
      BY <1>2, <1>6, <2>1, <2>3 DEF Behind
    <2>5. \A k \in 1 .. Stored' : /\ Number(Queue'[k]) <= Len(sent)
                                  /\ Waiting => Number(Queue'[k]) < Len(sent)
      BY <1>2, <1>6, <2>1
    <2> QED
      BY <1>2, <1>6, <2>2, <2>4, <2>5 DEF SenderOrder
  <1>7. CASE /\ (Waiting' <=> Waiting) /\ message' = message /\ Len(sent') = Len(sent)
             /\ Queue' = Queue /\ Stored' = Stored
             /\ (Holding' => Holding) /\ fetched' = fetched
    BY <1>2, <1>3, <1>7 DEF SenderOrder
  <1> QED
    BY <1>4, <1>5, <1>6, <1>7, SenderMoves

-----------------------------------------------------------------------------
(* What was handed to the sockets *)

\* The histories of the sender only grow.
LEMMA HistoryGrows ==
  ASSUME OneOfEach, RingInv, RingInv', Types, [CommNext]_commVars
  PROVE  /\ unsafe \subseteq unsafe'
         /\ \A n \in 1 .. Len(sent) : sent'[n] = sent[n]
  <1>1. CASE Send(producer)
    <2> DEFINE x == id_to_addr_[Dst(message'[producer])]
    <2>1. sent' = Append(sent, x) /\ unsafe \subseteq unsafe' /\ message'[producer] \in Messages
      BY <1>1, SendEffect
    <2>2. x \in Addresses \cup {None} /\ sent \in Seq(Addresses \cup {None})
      BY <2>1, MessageParts DEF Types, CommTypeOK
    <2> HIDE DEF x
    <2> QED
      BY <2>1, <2>2, AppendProperties
  <1>2. CASE Configure
    BY <1>2 DEF Configure, AddIdAddr, DeleteId
  <1>3. CASE Add(producer) \/ Fetch(consumer)
    BY <1>3 DEF Add, Fetch
  <1>4. CASE Lookup(consumer) \/ OpenSocket \/ SendMessage(consumer)
    BY <1>4 DEF Lookup, OpenSocket, SendMessage
  <1>5. ASSUME NEW a \in Addresses, Produce(a) \/ Receive(a) PROVE UNCHANGED <<sent, unsafe>>
    BY <1>5 DEF Produce, ReceiveMessage, TakeFrom, SetLen, CallAdd, CopyBuffer, Receive
  <1>6. UNCHANGED commVars => UNCHANGED <<sent, unsafe>>
    BY DEF commVars
  <1> QED
    BY <1>1, <1>2, <1>3, <1>4, <1>5, <1>6, CommCases

\* What was handed to a port stays so, whatever happens next.
LEMMA LandedStays ==
  ASSUME OneOfEach, RingInv, RingInv', Types, [CommNext]_commVars, NEW a \in Addresses
  PROVE  Landed(a) \subseteq Landed(a)'
  <1> SUFFICES ASSUME NEW n, n \in Landed(a)
               PROVE  n \in Landed(a)'
    OBVIOUS
  <1>1. MaxSends \in Nat /\ Len(sent) \in Nat
    BY MessageParts, SenderMoves
  <1>2. /\ n \in Nat /\ n >= 1 /\ Behind(n) /\ n \in 1 .. MaxSends
        /\ Holding => n < Number(fetched[consumer])
        /\ n \in unsafe \/ sent[n] = a
    BY <1>1 DEF Landed
  <1>3. n \in 1 .. Len(sent)
    BY <1>1, <1>2 DEF Behind
  <1>4. n \in unsafe' \/ sent'[n] = a
    BY <1>2, <1>3, HistoryGrows
  <1>5. Behind(n)'
    BY <1>2, BehindStep
  <1>6. Holding' => n < Number(fetched'[consumer])
    <2>1. CASE fetched' = fetched /\ (Holding' => Holding)
      BY <1>2, <2>1
    <2>2. CASE Queue # <<>> /\ fetched'[consumer] = Head(Queue)
      <3>1. Head(Queue) = Queue[1] /\ 1 \in 1 .. Stored
        BY <2>2, SenderMoves, HeadTailProperties, LenProperties, EmptySeq
      <3> QED
        BY <1>2, <2>2, <3>1 DEF Behind
    <2> QED
      BY <2>1, <2>2, SenderMoves
  <1> QED
    BY <1>2, <1>4, <1>5, <1>6 DEF Landed

\* The message that Consume hands to a socket is the last so far.
LEMMA SentLands ==
  ASSUME OneOfEach, RingInv, RingInv', Types, TableOK, SenderOrder, [CommNext]_commVars,
         SendMessage(consumer), NEW x, x = addr
  PROVE  /\ Number(fetched[consumer]) \in Landed(x)'
         /\ \A a \in Addresses : \A n \in Landed(a) : n < Number(fetched[consumer])
         /\ Number(fetched[consumer]) \in 1 .. MaxSends
  <1> DEFINE f == fetched[consumer]
  <1>1. /\ consumed = "send" /\ consumed' = "fetch" /\ UNCHANGED <<ringVars, sent, unsafe>>
        /\ f \in Messages
    BY SocketEffect
  <1>2. Holding /\ ~ Holding' /\ Number(f) \in 1 .. MaxSends /\ Number(f) \in Nat
    BY <1>1, MessageParts DEF Types, Holding, ringVars, vars
  <1>3. Number(f) \in unsafe' \/ sent'[Number(f)] = x
    <2>1. f \in UnderWay
      BY <1>2, UnderWayIs
    <2>2. Explained(f) /\ (Number(f) \notin unsafe => addr = id_to_addr_[Dst(f)])
      BY <1>1, <2>1 DEF TableOK
    <2> QED
      BY <1>1, <2>2 DEF Explained
  <1>4. PICK n \in Nat : n = Number(f)
    BY <1>2
  <1>5. Behind(n)'
    <2>1. Behind(n)
      BY <1>2, <1>4 DEF SenderOrder
    <2> QED
      BY <2>1, BehindStep
  <1>6. n \in Landed(x)'
    BY <1>2, <1>3, <1>4, <1>5 DEF Landed
  <1>7. \A a \in Addresses : \A i \in Landed(a) : i < Number(f)
    BY <1>2 DEF Landed
  <1> QED
    BY <1>2, <1>4, <1>6, <1>7

-----------------------------------------------------------------------------
(* The arrivals at a port *)

\* Two messages that arrived are different, as are one that arrived and one that
\* did not.
LEMMA OnceOnly ==
  ASSUME Types, Ports, NEW a \in Addresses, NEW b \in Addresses,
         NEW k \in 1 .. Len(arrived[a])
  PROVE  /\ \A j \in 1 .. Len(arrived[b]) :
              Number(arrived[a][k]) = Number(arrived[b][j]) => a = b /\ j = k
         /\ \A c \in 1 .. Len(network[b]) : \A i \in 1 .. Len(network[b][c]) :
              Number(arrived[a][k]) # Number(network[b][c][i])
  <1>1. /\ \A x \in Addresses : \A i \in 1 .. Len(arrived[x]) :
             Number(arrived[x][i]) \in Nat /\ via[Number(arrived[x][i])][1] = x
        /\ Len(arrived[a]) \in Nat
    BY Connections, MessageParts DEF Ports, InOrder
  <1>2. ASSUME NEW j \in 1 .. Len(arrived[b]),
               Number(arrived[a][k]) = Number(arrived[b][j])
        PROVE  a = b /\ j = k
    <2>1. a = b
      BY <1>1, <1>2
    <2>2. j \in Nat /\ k \in Nat /\ ~ (j < k) /\ ~ (k < j)
      BY <1>1, <1>2, <2>1 DEF Ports, InOrder
    <2> QED
      BY <2>1, <2>2
  <1>3. ASSUME NEW c \in 1 .. Len(network[b]), NEW i \in 1 .. Len(network[b][c]),
               Number(arrived[a][k]) = Number(network[b][c][i])
        PROVE  FALSE
    <2>1. via[Number(network[b][c][i])] = <<b, c>>
      BY DEF Ports, OnWire
    <2>2. a = b
      BY <1>1, <1>3, <2>1
    <2>3. Number(arrived[a][k]) < Number(network[b][c][i])
      BY <1>3, <2>1, <2>2 DEF Ports, OnWire
    <2> QED
      BY <1>1, <1>3, <2>3
  <1> QED
    BY <1>2, <1>3

\* Order is kept by what touches neither the network nor the arrivals.
LEMMA PortsStay ==
  ASSUME Ports, \A a \in Addresses : Landed(a) \subseteq Landed(a)',
         UNCHANGED <<network, arrived, via>>
  PROVE  Ports'
  <1> SUFFICES ASSUME NEW a \in Addresses PROVE OnWire(a)' /\ InOrder(a)'
    BY DEF Ports
  <1>1. OnWire(a) /\ InOrder(a) /\ Landed(a) \subseteq Landed(a)'
    BY DEF Ports
  <1>2. OnWire(a)'
    BY <1>1 DEF OnWire
  <1>3. InOrder(a)'
    BY <1>1 DEF InOrder
  <1> QED
    BY <1>2, <1>3

\* A message handed to a socket comes last.
LEMMA PortsSend ==
  ASSUME OneOfEach, RingInv, RingInv', Types, Types', TableOK, SenderOrder, Ports,
         [CommNext]_commVars, SendMessage(consumer)
  PROVE  Ports'
  <1> DEFINE f == fetched[consumer]
             n == Number(f)
  <1>1. PICK x \in Addresses : x = addr
    BY SocketEffect
  <1>2. /\ n \in Landed(x)' /\ n \in 1 .. MaxSends /\ n \in Nat
        /\ \A a \in Addresses : \A i \in Landed(a) : i < n
        /\ \A a \in Addresses : Landed(a) \subseteq Landed(a)'
    BY <1>1, SentLands, LandedStays, MessageParts
  <1>3. CASE UNCHANGED <<network, via>>
    <2>1. UNCHANGED arrived
      BY SocketEffect DEF receiverVars
    <2> QED
      BY <1>2, <1>3, <2>1, PortsStay
  <1>4. ASSUME NEW c \in 1 .. Len(network[addr]),
               /\ via' = [via EXCEPT ![n] = <<addr, c>>]
               /\ Len(network'[addr]) = Len(network[addr])
               /\ \A d \in 1 .. Len(network[addr]) :
                    d # c => network'[addr][d] = network[addr][d]
               /\ \A a \in Addresses : a # addr => network'[a] = network[a]
               /\ Len(network'[addr][c]) = Len(network[addr][c]) + 1
               /\ \A i \in 1 .. Len(network[addr][c]) :
                    network'[addr][c][i] = network[addr][c][i]
               /\ network'[addr][c][Len(network[addr][c]) + 1] = f
        PROVE  Ports'
    <2>1. arrived' = arrived /\ via \in [1 .. MaxSends -> (Addresses \cup {None}) \X Nat]
      BY SocketEffect DEF receiverVars, Types
    <2>2. /\ \A i \in 1 .. MaxSends : i # n => via'[i] = via[i]
          /\ via'[n] = <<x, c>>
      BY <1>1, <1>2, <1>4, <2>1
    <2>3. \A a \in Addresses : \A k \in 1 .. Len(arrived[a]) :
            /\ Number(arrived[a][k]) \in 1 .. MaxSends
            /\ Number(arrived[a][k]) \in Landed(a)
            /\ Number(arrived[a][k]) < n /\ Number(arrived[a][k]) \in Nat
            /\ via'[Number(arrived[a][k])] = via[Number(arrived[a][k])]
      <3> SUFFICES ASSUME NEW a \in Addresses, NEW k \in 1 .. Len(arrived[a])
                   PROVE  /\ Number(arrived[a][k]) \in 1 .. MaxSends
                          /\ Number(arrived[a][k]) \in Landed(a)
                          /\ Number(arrived[a][k]) < n /\ Number(arrived[a][k]) \in Nat
                          /\ via'[Number(arrived[a][k])] = via[Number(arrived[a][k])]
        OBVIOUS
      <3>1. Number(arrived[a][k]) \in 1 .. MaxSends /\ Number(arrived[a][k]) \in Nat
        BY Connections, MessageParts
      <3>2. Number(arrived[a][k]) \in Landed(a)
        BY DEF Ports, InOrder
      <3>3. Number(arrived[a][k]) < n
        BY <1>2, <3>2
      <3> QED
        BY <1>2, <2>2, <3>1, <3>2, <3>3
    <2>4. \A a \in Addresses : \A d \in 1 .. Len(network[a]) :
            \A i \in 1 .. Len(network[a][d]) :
              /\ Number(network[a][d][i]) \in Landed(a)
              /\ Number(network[a][d][i]) < n /\ Number(network[a][d][i]) \in Nat
              /\ via'[Number(network[a][d][i])] = <<a, d>>
      <3> SUFFICES ASSUME NEW a \in Addresses, NEW d \in 1 .. Len(network[a]),
                          NEW i \in 1 .. Len(network[a][d])
                   PROVE  /\ Number(network[a][d][i]) \in Landed(a)
                          /\ Number(network[a][d][i]) < n
                          /\ Number(network[a][d][i]) \in Nat
                          /\ via'[Number(network[a][d][i])] = <<a, d>>
        OBVIOUS
      <3>1. Number(network[a][d][i]) \in 1 .. MaxSends /\ Number(network[a][d][i]) \in Nat
        BY Connections, MessageParts
      <3>2. /\ Number(network[a][d][i]) \in Landed(a)
            /\ via[Number(network[a][d][i])] = <<a, d>>
        BY DEF Ports, OnWire
      <3>3. Number(network[a][d][i]) < n
        BY <1>2, <3>2
      <3> QED
        BY <1>2, <2>2, <3>1, <3>2, <3>3
    <2> HIDE DEF n, f
    <2>5. ASSUME NEW a \in Addresses PROVE InOrder(a)'
      BY <1>2, <2>1, <2>3 DEF Ports, InOrder
    <2>6. ASSUME NEW a \in Addresses, NEW d \in 1 .. Len(network'[a]),
                 NEW i \in 1 .. Len(network'[a][d]),
                 d \in 1 .. Len(network[a]), i \in 1 .. Len(network[a][d]),
                 network'[a][d][i] = network[a][d][i],
                 \A j \in 1 .. i - 1 : network'[a][d][j] = network[a][d][j]
          PROVE  /\ Number(network'[a][d][i]) \in Landed(a)'
                 /\ via'[Number(network'[a][d][i])] = <<a, d>>
                 /\ \A j \in 1 .. i - 1 :
                      Number(network'[a][d][j]) < Number(network'[a][d][i])
                 /\ \A k \in 1 .. Len(arrived'[a]) :
                      via'[Number(arrived'[a][k])] = <<a, d>> =>
                        Number(arrived'[a][k]) < Number(network'[a][d][i])
      BY <1>2, <2>1, <2>3, <2>4, <2>6 DEF Ports, OnWire
    <2>7. ASSUME NEW a \in Addresses, NEW d \in 1 .. Len(network'[a]),
                 NEW i \in 1 .. Len(network'[a][d])
          PROVE  /\ Number(network'[a][d][i]) \in Landed(a)'
                 /\ via'[Number(network'[a][d][i])] = <<a, d>>
                 /\ \A j \in 1 .. i - 1 :
                      Number(network'[a][d][j]) < Number(network'[a][d][i])
                 /\ \A k \in 1 .. Len(arrived'[a]) :
                      via'[Number(arrived'[a][k])] = <<a, d>> =>
                        Number(arrived'[a][k]) < Number(network'[a][d][i])
      <3>1. CASE a # x \/ d # c
        <4>1. d \in 1 .. Len(network[a]) /\ network'[a][d] = network[a][d]
          BY <1>1, <1>4, <2>7, <3>1
        <4> QED
          BY <2>6, <2>7, <4>1
      <3>2. CASE a = x /\ d = c
        <4>1. /\ Len(network[a][d]) \in Nat /\ Len(network'[a][d]) = Len(network[a][d]) + 1
              /\ \A j \in 1 .. Len(network[a][d]) : network'[a][d][j] = network[a][d][j]
              /\ network'[a][d][Len(network[a][d]) + 1] = f /\ d \in 1 .. Len(network[a])
          BY <1>1, <1>4, <3>2, Connections
        <4>2. CASE i \in 1 .. Len(network[a][d])
          <5>1. \A j \in 1 .. i - 1 : j \in 1 .. Len(network[a][d])
            BY <4>1, <4>2
          <5> QED
            BY <2>6, <2>7, <4>1, <4>2, <5>1
        <4>3. CASE i = Len(network[a][d]) + 1
          <5>1. Number(network'[a][d][i]) = n
            BY <4>1, <4>3 DEF n
          <5>2. ASSUME NEW j \in 1 .. i - 1 PROVE Number(network'[a][d][j]) < n
            <6>1. j \in 1 .. Len(network[a][d])
              BY <4>1, <4>3
            <6>2. network'[a][d][j] = network[a][d][j]
              BY <4>1, <6>1
            <6> QED
              BY <2>4, <4>1, <6>1, <6>2
          <5>3. \A k \in 1 .. Len(arrived'[a]) : Number(arrived'[a][k]) < n
            BY <2>1, <2>3
          <5>4. n \in Landed(a)' /\ via'[n] = <<a, d>>
            BY <1>2, <2>2, <3>2
          <5> QED
            BY <5>1, <5>2, <5>3, <5>4
        <4>4. i \in 1 .. Len(network[a][d]) \/ i = Len(network[a][d]) + 1
          BY <2>7, <4>1
        <4> QED
          BY <4>2, <4>3, <4>4
      <3> QED
        BY <3>1, <3>2
    <2>8. ASSUME NEW a \in Addresses PROVE OnWire(a)'
      BY <2>7 DEF OnWire
    <2> QED
      BY <2>5, <2>8 DEF Ports
  <1> HIDE DEF n, f
  <1>5. \/ UNCHANGED <<network, via>>
        \/ \E c \in 1 .. Len(network[addr]) :
             /\ via' = [via EXCEPT ![n] = <<addr, c>>]
             /\ Len(network'[addr]) = Len(network[addr])
             /\ \A d \in 1 .. Len(network[addr]) :
                  d # c => network'[addr][d] = network[addr][d]
             /\ \A a \in Addresses : a # addr => network'[a] = network[a]
             /\ Len(network'[addr][c]) = Len(network[addr][c]) + 1
             /\ \A i \in 1 .. Len(network[addr][c]) :
                  network'[addr][c][i] = network[addr][c][i]
             /\ network'[addr][c][Len(network[addr][c]) + 1] = f
    BY SocketEffect DEF n, f
  <1> QED
    BY <1>3, <1>4, <1>5

\* A new connection is empty.
LEMMA PortsOpen ==
  ASSUME OneOfEach, Types, Ports, \A a \in Addresses : Landed(a) \subseteq Landed(a)',
         OpenSocket
  PROVE  Ports'
  <1>1. UNCHANGED <<arrived, via>>
    BY OpenEffect DEF receiverVars
  <1>2. ASSUME NEW a \in Addresses PROVE InOrder(a)'
    BY <1>1 DEF Ports, InOrder
  <1>3. ASSUME NEW a \in Addresses PROVE OnWire(a)'
    <2> SUFFICES ASSUME NEW c \in 1 .. Len(network'[a]), NEW i \in 1 .. Len(network'[a][c])
                 PROVE  /\ Number(network'[a][c][i]) \in Landed(a)'
                        /\ via'[Number(network'[a][c][i])] = <<a, c>>
                        /\ \A j \in 1 .. i - 1 :
                             Number(network'[a][c][j]) < Number(network'[a][c][i])
                        /\ \A k \in 1 .. Len(arrived'[a]) :
                             via'[Number(arrived'[a][k])] = <<a, c>> =>
                               Number(arrived'[a][k]) < Number(network'[a][c][i])
      BY DEF OnWire
    <2>1. CASE c \in 1 .. Len(network[a]) /\ network'[a][c] = network[a][c]
      BY <1>1, <2>1 DEF Ports, OnWire
    <2>2. CASE network'[a][c] = <<>>
      BY <2>2
    <2> QED
      BY <2>1, <2>2, OpenEffect
  <1> QED
    BY <1>2, <1>3 DEF Ports

\* A port takes the next message of one connection.
LEMMA PortsTake ==
  ASSUME OneOfEach, Types, Ports, \A a \in Addresses : Landed(a) \subseteq Landed(a)',
         NEW b \in Addresses, NEW c \in DOMAIN network[b], TakeFrom(b, c)
  PROVE  Ports'
  <1> DEFINE m == network[b][c][1]
  <1>1. /\ c \in 1 .. Len(network[b]) /\ 1 \in 1 .. Len(network[b][c])
        /\ via' = via
        /\ Len(network'[b]) = Len(network[b])
        /\ \A d \in 1 .. Len(network[b]) : d # c => network'[b][d] = network[b][d]
        /\ \A a \in Addresses : a # b => network'[a] = network[a] /\ arrived'[a] = arrived[a]
        /\ Len(network'[b][c]) = Len(network[b][c]) - 1
        /\ \A i \in 1 .. Len(network[b][c]) - 1 : network'[b][c][i] = network[b][c][i + 1]
        /\ Len(arrived'[b]) = Len(arrived[b]) + 1
        /\ \A k \in 1 .. Len(arrived[b]) : arrived'[b][k] = arrived[b][k]
        /\ arrived'[b][Len(arrived[b]) + 1] = m
    BY TakeEffect
  <1>2. Len(network[b][c]) \in Nat /\ Len(arrived[b]) \in Nat
    BY <1>1, Connections
  <1>3. /\ Number(m) \in Landed(b) /\ via[Number(m)] = <<b, c>>
        /\ \A k \in 1 .. Len(arrived[b]) :
             via[Number(arrived[b][k])] = <<b, c>> => Number(arrived[b][k]) < Number(m)
    BY <1>1 DEF Ports, OnWire
  <1>4. ASSUME NEW a \in Addresses PROVE InOrder(a)'
    <2>0. InOrder(a) /\ Landed(a) \subseteq Landed(a)'
      BY DEF Ports
    <2>1. CASE a # b
      <3>1. arrived'[a] = arrived[a] /\ via' = via
        BY <1>1, <2>1
      <3> QED
        BY <2>0, <3>1 DEF InOrder
    <2>2. CASE a = b
      <3> SUFFICES ASSUME NEW k \in 1 .. Len(arrived'[b])
                   PROVE  /\ Number(arrived'[b][k]) \in Landed(b)'
                          /\ via'[Number(arrived'[b][k])][1] = b
                          /\ \A j \in 1 .. k - 1 :
                               via'[Number(arrived'[b][j])] = via'[Number(arrived'[b][k])] =>
                                 Number(arrived'[b][j]) < Number(arrived'[b][k])
        BY <2>2 DEF InOrder
      <3>1. CASE k \in 1 .. Len(arrived[b])
        <4>1. \A j \in 1 .. k - 1 : arrived'[b][j] = arrived[b][j]
          BY <1>1, <1>2, <3>1
        <4> QED
          BY <1>1, <2>0, <2>2, <3>1, <4>1 DEF InOrder
      <3>2. CASE k = Len(arrived[b]) + 1
        <4>1. \A j \in 1 .. k - 1 : j \in 1 .. Len(arrived[b])
          BY <1>2, <3>2
        <4> HIDE DEF m
        <4>2. arrived'[b][k] = m /\ via' = via
          BY <1>1, <3>2
        <4>3. Number(m) \in Landed(b)' /\ via'[Number(m)] = <<b, c>>
          BY <1>3, <2>0, <2>2, <4>2
        <4>4. \A j \in 1 .. k - 1 : via'[Number(arrived'[b][j])] = <<b, c>> =>
                                      Number(arrived'[b][j]) < Number(m)
          BY <1>1, <1>3, <4>1, <4>2
        <4> QED
          BY <4>2, <4>3, <4>4
      <3>3. k \in 1 .. Len(arrived[b]) \/ k = Len(arrived[b]) + 1
        BY <1>1, <1>2
      <3> QED
        BY <3>1, <3>2, <3>3
    <2> QED
      BY <2>1, <2>2
  <1>5. ASSUME NEW a \in Addresses PROVE OnWire(a)'
    <2>0. OnWire(a) /\ Landed(a) \subseteq Landed(a)'
      BY DEF Ports
    <2>1. CASE a # b
      <3>1. network'[a] = network[a] /\ arrived'[a] = arrived[a] /\ via' = via
        BY <1>1, <2>1
      <3> QED
        BY <2>0, <3>1 DEF OnWire
    <2>2. CASE a = b
      <3>0. SUFFICES ASSUME NEW d \in 1 .. Len(network'[b]), NEW i \in 1 .. Len(network'[b][d])
                     PROVE  /\ Number(network'[b][d][i]) \in Landed(b)'
                            /\ via'[Number(network'[b][d][i])] = <<b, d>>
                            /\ \A j \in 1 .. i - 1 :
                                 Number(network'[b][d][j]) < Number(network'[b][d][i])
                            /\ \A k \in 1 .. Len(arrived'[b]) :
                                 via'[Number(arrived'[b][k])] = <<b, d>> =>
                                   Number(arrived'[b][k]) < Number(network'[b][d][i])
        BY <2>2 DEF OnWire
      <3>1. \A k \in 1 .. Len(arrived'[b]) :
              k \in 1 .. Len(arrived[b]) \/ k = Len(arrived[b]) + 1
        BY <1>1, <1>2
      <3>2. CASE d # c
        <4>1. d \in 1 .. Len(network[b]) /\ network'[b][d] = network[b][d]
          BY <1>1, <3>0, <3>2
        <4>2. via[Number(m)] # <<b, d>>
          BY <1>3, <3>2
        <4> HIDE DEF m
        <4>3. ASSUME NEW k \in 1 .. Len(arrived'[b]), via'[Number(arrived'[b][k])] = <<b, d>>
              PROVE  k \in 1 .. Len(arrived[b]) /\ arrived'[b][k] = arrived[b][k]
          BY <1>1, <3>1, <4>2, <4>3
        <4>4. via' = via
          BY <1>1
        <4> QED
          BY <2>0, <2>2, <3>0, <4>1, <4>3, <4>4 DEF OnWire
      <3>3. CASE d = c
        <4>1. /\ i \in 1 .. Len(network[b][c]) - 1 /\ i + 1 \in 1 .. Len(network[b][c])
              /\ 1 \in 1 .. (i + 1) - 1
              /\ \A j \in 1 .. i - 1 : /\ j \in 1 .. Len(network[b][c]) - 1
                                       /\ j + 1 \in 1 .. (i + 1) - 1
          BY <1>1, <1>2, <3>0, <3>3
        <4>2. network'[b][d][i] = network[b][c][i + 1]
          BY <1>1, <3>3, <4>1
        <4>3. /\ Number(network[b][c][i + 1]) \in Landed(b)
              /\ via[Number(network[b][c][i + 1])] = <<b, c>>
              /\ \A j \in 1 .. (i + 1) - 1 :
                   Number(network[b][c][j]) < Number(network[b][c][i + 1])
              /\ \A k \in 1 .. Len(arrived[b]) :
                   via[Number(arrived[b][k])] = <<b, c>> =>
                     Number(arrived[b][k]) < Number(network[b][c][i + 1])
          BY <1>1, <2>0, <2>2, <4>1 DEF OnWire
        <4>4. \A j \in 1 .. i - 1 : Number(network'[b][d][j]) < Number(network[b][c][i + 1])
          BY <1>1, <3>3, <4>1, <4>3
        <4>5. Number(m) < Number(network[b][c][i + 1])
          BY <4>1, <4>3
        <4> HIDE DEF m
        <4>6. \A k \in 1 .. Len(arrived'[b]) :
                via'[Number(arrived'[b][k])] = <<b, c>> =>
                  Number(arrived'[b][k]) < Number(network[b][c][i + 1])
          BY <1>1, <3>1, <4>3, <4>5
        <4> QED
          BY <1>1, <2>0, <2>2, <3>3, <4>2, <4>3, <4>4, <4>6
      <3> QED
        BY <3>2, <3>3
    <2> QED
      BY <2>1, <2>2
  <1> QED
    BY <1>4, <1>5 DEF Ports

\* Every step keeps the order of every connection.
LEMMA PortsStep ==
  ASSUME OneOfEach, RingInv, RingInv', Types, Types', TableOK, SenderOrder, Ports,
         [CommNext]_commVars
  PROVE  Ports'
  <1>1. \A a \in Addresses : Landed(a) \subseteq Landed(a)'
    BY LandedStays
  <1>2. CASE Send(producer) \/ Add(producer) \/ Fetch(consumer) \/ Configure
    BY <1>1, <1>2, PortsStay DEF Send, Add, Fetch, Configure, receiverVars
  <1>3. CASE Lookup(consumer) \/ UNCHANGED commVars
    BY <1>1, <1>3, PortsStay DEF Lookup, commVars, receiverVars
  <1>4. ASSUME NEW a \in Addresses, Produce(a) \/ Receive(a) PROVE Ports'
    <2>1. CASE ReceiveMessage(a)
      BY <1>1, <2>1, PortsTake DEF ReceiveMessage
    <2>2. CASE SetLen(a) \/ CallAdd(a) \/ CopyBuffer(a) \/ Receive(a)
      BY <1>1, <2>2, PortsStay DEF SetLen, CallAdd, CopyBuffer, Receive
    <2> QED
      BY <1>4, <2>1, <2>2 DEF Produce
  <1> QED
    BY <1>1, <1>2, <1>3, <1>4, PortsSend, PortsOpen, CommCases

-----------------------------------------------------------------------------
(* What a port hands on *)

\* Taking the first element of B to the end of A.
LEMMA MoveFirst ==
  ASSUME NEW S, NEW A \in Seq(S), NEW B \in Seq(S), B # <<>>
  PROVE  Append(A, Head(B)) \o Tail(B) = A \o B
  <1>1. /\ Head(B) \in S /\ Tail(B) \in Seq(S) /\ Len(Tail(B)) = Len(B) - 1
        /\ \A i \in 1 .. Len(B) - 1 : Tail(B)[i] = B[i + 1]
        /\ Len(A) \in Nat /\ Len(B) \in Nat /\ Head(B) = B[1]
    BY HeadTailProperties, LenProperties
  <1> DEFINE C == Append(A, Head(B))
  <1>2. /\ C \in Seq(S) /\ Len(C) = Len(A) + 1 /\ C[Len(A) + 1] = B[1]
        /\ \A i \in 1 .. Len(A) : C[i] = A[i]
    BY <1>1, AppendProperties
  <1> HIDE DEF C
  <1>3. /\ C \o Tail(B) \in Seq(S) /\ Len(C \o Tail(B)) = Len(A) + Len(B)
        /\ \A i \in 1 .. Len(A) + Len(B) :
             (C \o Tail(B))[i] = IF i <= Len(A) + 1 THEN C[i] ELSE Tail(B)[i - (Len(A) + 1)]
    <2>1. Len(C) + Len(Tail(B)) = Len(A) + Len(B)
      BY <1>1, <1>2
    <2>2. /\ C \o Tail(B) \in Seq(S) /\ Len(C \o Tail(B)) = Len(C) + Len(Tail(B))
          /\ \A i \in 1 .. Len(C) + Len(Tail(B)) :
               (C \o Tail(B))[i] = IF i <= Len(C) THEN C[i] ELSE Tail(B)[i - Len(C)]
      BY <1>1, <1>2, ConcatProperties
    <2> QED
      BY <1>2, <2>1, <2>2
  <1>4. /\ A \o B \in Seq(S) /\ Len(A \o B) = Len(A) + Len(B)
        /\ \A i \in 1 .. Len(A) + Len(B) :
             (A \o B)[i] = IF i <= Len(A) THEN A[i] ELSE B[i - Len(A)]
    BY ConcatProperties
  <1>5. ASSUME NEW i \in 1 .. Len(A) + Len(B) PROVE (C \o Tail(B))[i] = (A \o B)[i]
    <2>1. CASE i <= Len(A)
      BY <1>1, <1>2, <1>3, <1>4, <2>1
    <2>2. CASE i = Len(A) + 1
      BY <1>1, <1>2, <1>3, <1>4, <2>2
    <2>3. CASE i > Len(A) + 1
      <3>1. i - (Len(A) + 1) \in 1 .. Len(B) - 1 /\ (i - (Len(A) + 1)) + 1 = i - Len(A)
        BY <1>1, <2>3
      <3> QED
        BY <1>1, <1>3, <1>4, <2>3, <3>1
    <2>4. i <= Len(A) \/ i = Len(A) + 1 \/ i > Len(A) + 1
      <3>1. i \in Int /\ Len(A) \in Int
        BY <1>1
      <3> QED
        BY <3>1
    <2> QED
      BY <2>1, <2>2, <2>3, <2>4
  <1>6. C \o Tail(B) = A \o B
    BY <1>3, <1>4, <1>5, SeqEqual
  <1> QED
    BY <1>6 DEF C

\* Appending to the second of two sequences.
LEMMA AppendSecond ==
  ASSUME NEW S, NEW A \in Seq(S), NEW B \in Seq(S), NEW x \in S
  PROVE  A \o Append(B, x) = Append(A \o B, x)
  <1>1. Append(B, x) = B \o <<x>> /\ A \o B \in Seq(S) /\ <<x>> \in Seq(S)
    BY AppendIsConcat, ConcatProperties
  <1>2. Append(A \o B, x) = (A \o B) \o <<x>>
    BY <1>1, AppendIsConcat
  <1> QED
    BY <1>1, <1>2, ConcatAssociative

\* What a port added, step by step.
LEMMA AddedIs ==
  ASSUME Types, NEW b \in Addresses
  PROVE  /\ Added(b) \in Seq(Item) /\ Len(Added(b)) \in Nat
         /\ DOMAIN Added(b) = 1 .. Len(Added(b))
         /\ UNCHANGED <<rings, received>> => Added(b)' = Added(b)
         /\ \A a \in Addresses : Receive(a) => Added(b)' = Added(b)
         /\ \A a \in Addresses : CopyBuffer(a) =>
              Added(b)' = IF a = b THEN Append(Added(b), <<buffer, arg[a]>>) ELSE Added(b)
  <1>1. /\ received \in [Addresses -> Seq(Item)] /\ rings \in [Addresses -> Seq(Item)]
        /\ buffer \in Messages \cup {None} /\ arg \in [Addresses -> 0 .. MaxSends]
    BY DEF Types, CommTypeOK
  <1>2. Added(b) \in Seq(Item)
    BY <1>1, ConcatProperties DEF Added
  <1>3. UNCHANGED <<rings, received>> => Added(b)' = Added(b)
    BY DEF Added
  <1>4. ASSUME NEW a \in Addresses, Receive(a) PROVE Added(b)' = Added(b)
    <2>1. /\ rings[a] # <<>> /\ rings' = [rings EXCEPT ![a] = Tail(@)]
          /\ received' = [received EXCEPT ![a] = Append(@, Head(rings[a]))]
      BY <1>4 DEF Receive
    <2>2. CASE a # b
      BY <1>1, <2>1, <2>2 DEF Added
    <2>3. CASE a = b
      <3>1. Added(b)' = Append(received[b], Head(rings[b])) \o Tail(rings[b])
        BY <1>1, <2>1, <2>3 DEF Added
      <3>2. Append(received[b], Head(rings[b])) \o Tail(rings[b]) = received[b] \o rings[b]
        BY <1>1, <2>1, <2>3, MoveFirst
      <3> QED
        BY <3>1, <3>2 DEF Added
    <2> QED
      BY <2>2, <2>3
  <1>5. ASSUME NEW a \in Addresses, CopyBuffer(a)
        PROVE  Added(b)' = IF a = b THEN Append(Added(b), <<buffer, arg[a]>>) ELSE Added(b)
    <2>1. rings' = [rings EXCEPT ![a] = Append(@, <<buffer, arg[a]>>)] /\ received' = received
      BY <1>5 DEF CopyBuffer
    <2>2. CASE a # b
      BY <1>1, <2>1, <2>2 DEF Added
    <2>3. CASE a = b
      <3>1. PICK x \in Item : x = <<buffer, arg[a]>>
        BY <1>1 DEF Item
      <3>2. Added(b)' = received[b] \o Append(rings[b], x)
        BY <1>1, <2>1, <2>3, <3>1 DEF Added
      <3>3. received[b] \o Append(rings[b], x) = Append(received[b] \o rings[b], x)
        BY <1>1, AppendSecond
      <3> QED
        BY <2>3, <3>1, <3>2, <3>3 DEF Added
    <2> QED
      BY <2>2, <2>3
  <1> QED
    BY <1>2, <1>3, <1>4, <1>5, LenProperties

\* A message that arrives at one port disturbs only what other ports hold.
LEMMA HandsTake ==
  ASSUME Types, Ports, Hands, NEW b \in Addresses, NEW c \in DOMAIN network[b],
         producing[b] = "receive", TakeFrom(b, c)
  PROVE  Hands'
  <1> DEFINE m == network[b][c][1]
  <1>1. /\ c \in 1 .. Len(network[b]) /\ 1 \in 1 .. Len(network[b][c])
        /\ buffer' = m /\ got' = [got EXCEPT ![b] = m]
        /\ producing' = [producing EXCEPT ![b] = "len"]
        /\ disturbed' = disturbed \cup
             (IF Others(b) = {} THEN {}
              ELSE {Number(m)} \cup {Number(got[y]) : y \in Others(b)})
        /\ UNCHANGED <<len, arg, rings, received>>
        /\ \A a \in Addresses : a # b => arrived'[a] = arrived[a]
        /\ Len(arrived'[b]) = Len(arrived[b]) + 1
        /\ \A k \in 1 .. Len(arrived[b]) : arrived'[b][k] = arrived[b][k]
        /\ arrived'[b][Len(arrived[b]) + 1] = m
    BY TakeEffect
  <1>2. /\ producing \in [Addresses -> {"receive", "len", "call", "copy"}]
        /\ got \in [Addresses -> Messages \cup {None}]
        /\ \A a \in Addresses : /\ Added(a)' = Added(a) /\ Len(Added(a)) \in Nat
                                /\ Len(arrived[a]) \in Nat
    BY <1>1, AddedIs, Connections DEF Types, CommTypeOK
  <1>3. \A a \in Addresses :
          /\ Len(arrived[a]) >= Len(Added(a))
          /\ a \in Others(b) =>
               /\ Len(arrived[a]) = Len(Added(a)) + 1
               /\ got[a] = arrived[a][Len(arrived[a])]
    BY <1>2 DEF Hands, InHand, Others
  <1>4. ASSUME NEW a \in Addresses, NEW k \in 1 .. Len(Added(a)),
               Number(arrived[a][k]) \in disturbed'
        PROVE  Number(arrived[a][k]) \in disturbed
    <2>1. k \in 1 .. Len(arrived[a])
      BY <1>2, <1>3
    <2>2. Number(arrived[a][k]) # Number(m)
      <3>1. \A d \in 1 .. Len(network[b]) : \A i \in 1 .. Len(network[b][d]) :
              Number(arrived[a][k]) # Number(network[b][d][i])
        BY <2>1, OnceOnly
      <3> QED
        BY <1>1, <3>1
    <2>3. ASSUME NEW y \in Others(b) PROVE Number(arrived[a][k]) # Number(got[y])
      <3>1. y \in Addresses
        BY DEF Others
      <3>2. /\ Len(arrived[y]) \in 1 .. Len(arrived[y])
            /\ got[y] = arrived[y][Len(arrived[y])] /\ Len(arrived[y]) = Len(Added(y)) + 1
        BY <1>2, <1>3, <2>3, <3>1
      <3>3. ~ (a = y /\ Len(arrived[y]) = k)
        BY <1>2, <3>1, <3>2
      <3> QED
        BY <2>1, <3>1, <3>2, <3>3, OnceOnly
    <2> HIDE DEF m
    <2> QED
      BY <1>1, <1>4, <2>2, <2>3
  <1>5. ASSUME NEW a \in Addresses, NEW k \in 1 .. Len(Added(a))
        PROVE  /\ arrived'[a][k] = arrived[a][k]
               /\ Faithful(arrived[a][k], Added(a)[k])'
    <2>1. arrived'[a][k] = arrived[a][k]
      <3>1. k \in 1 .. Len(arrived[a])
        BY <1>2, <1>3
      <3> QED
        BY <1>1, <3>1
    <2>2. Faithful(arrived[a][k], Added(a)[k])
      BY DEF Hands
    <2>3. disturbed \subseteq disturbed' /\ Added(a)'[k] = Added(a)[k]
      BY <1>1, <1>2
    <2> QED
      BY <1>4, <2>1, <2>2, <2>3 DEF Faithful
  <1> HIDE DEF m
  <1>6. InHand(b)'
    <2>1. /\ producing'[b] = "len" /\ got'[b] = m /\ Len(arrived'[b]) = Len(Added(b)') + 1
          /\ arrived'[b][Len(arrived'[b])] = m
      <3>1. Len(arrived[b]) = Len(Added(b))
        BY DEF Hands, InHand
      <3> QED
        BY <1>1, <1>2, <3>1
    <2>2. Number(m) \notin disturbed' => Others(b)' = {}
      <3>1. Others(b)' = Others(b)
        BY <1>1, <1>2 DEF Others
      <3> QED
        BY <1>1, <3>1
    <2> QED
      BY <1>1, <2>1, <2>2 DEF InHand
  <1>7. ASSUME NEW a \in Addresses, a # b PROVE InHand(a)'
    <2>1. /\ producing'[a] = producing[a] /\ got'[a] = got[a] /\ arrived'[a] = arrived[a]
          /\ Added(a)' = Added(a) /\ UNCHANGED <<len, arg>> /\ InHand(a)
      BY <1>1, <1>2, <1>7 DEF Hands
    <2>2. CASE producing[a] = "receive"
      BY <2>1, <2>2 DEF InHand
    <2>3. CASE producing[a] # "receive"
      <3>1. a \in Others(b)
        BY <1>7, <2>3 DEF Others
      <3>2. Number(got[a]) \in disturbed' /\ Number(buffer') \in disturbed'
            /\ disturbed \subseteq disturbed'
        BY <1>1, <3>1
      <3> QED
        BY <2>1, <2>3, <3>2 DEF InHand
    <2> QED
      BY <2>2, <2>3
  <1>8. ASSUME NEW a \in Addresses
        PROVE  /\ InHand(a)'
               /\ \A k \in 1 .. Len(Added(a)') : Faithful(arrived[a][k], Added(a)[k])'
    BY <1>2, <1>5, <1>6, <1>7
  <1> QED
    BY <1>8 DEF Hands

\* Every step of the receivers keeps what they hold and what they added.
LEMMA HandsStep ==
  ASSUME OneOfEach, Types, Ports, Hands, [CommNext]_commVars
  PROVE  Hands'
  <1>1. ASSUME UNCHANGED receiverVars PROVE Hands'
    <2>1. UNCHANGED <<buffer, len, producing, got, arg, arrived, disturbed>>
      BY <1>1 DEF receiverVars
    <2>2. \A a \in Addresses : Added(a)' = Added(a) /\ Others(a)' = Others(a)
      BY <1>1 DEF Added, Others, receiverVars
    <2>3. ASSUME NEW a \in Addresses
          PROVE  /\ InHand(a)'
                 /\ \A k \in 1 .. Len(Added(a)') : Faithful(arrived[a][k], Added(a)[k])'
      BY <2>1, <2>2 DEF Hands, InHand, Faithful
    <2> QED
      BY <2>3 DEF Hands
  <1>2. CASE Send(producer) \/ Add(producer) \/ Fetch(consumer) \/ Configure
    BY <1>1, <1>2 DEF Send, Add, Fetch, Configure
  <1>3. CASE \/ Lookup(consumer) \/ OpenSocket \/ SendMessage(consumer)
             \/ UNCHANGED commVars
    BY <1>1, <1>3 DEF Lookup, OpenSocket, SendMessage, commVars
  <1>4. ASSUME NEW b \in Addresses, Produce(b) \/ Receive(b) PROVE Hands'
    <2>1. /\ producing \in [Addresses -> {"receive", "len", "call", "copy"}]
          /\ got \in [Addresses -> Messages \cup {None}]
          /\ arg \in [Addresses -> 0 .. MaxSends]
          /\ \A a \in Addresses : InHand(a)
          /\ \A a \in Addresses : \A k \in 1 .. Len(Added(a)) :
               Faithful(arrived[a][k], Added(a)[k])
      BY DEF Types, CommTypeOK, Hands
    <2>2. ASSUME UNCHANGED <<disturbed, arrived>>, \A a \in Addresses : Added(a)' = Added(a),
                 \A a \in Addresses : InHand(a)'
          PROVE  Hands'
      BY <2>1, <2>2 DEF Hands, Faithful
    <2>3. CASE ReceiveMessage(b)
      BY <2>3, HandsTake DEF ReceiveMessage
    <2>4. CASE SetLen(b)
      <3>1. /\ producing[b] = "len" /\ len' = Number(got[b])
            /\ producing' = [producing EXCEPT ![b] = "call"]
            /\ UNCHANGED <<buffer, got, arg, rings, received, disturbed, arrived>>
        BY <2>4 DEF SetLen
      <3>2. \A a \in Addresses : Others(a)' = Others(a) /\ Added(a)' = Added(a)
        BY <2>1, <3>1, AddedIs DEF Others
      <3>3. InHand(b)'
        BY <2>1, <3>1, <3>2 DEF InHand
      <3>4. ASSUME NEW a \in Addresses, a # b PROVE InHand(a)'
        <4>1. b \in Others(a) /\ (producing[a] # "receive" => a \in Others(b))
          BY <3>1, <3>4 DEF Others
        <4>2. producing[a] # "receive" =>
                Number(got[a]) \in disturbed /\ Number(got[b]) \in disturbed
          BY <2>1, <3>1, <4>1 DEF InHand
        <4>3. producing'[a] = producing[a]
          BY <2>1, <3>1, <3>4
        <4> QED
          BY <2>1, <3>1, <3>2, <4>2, <4>3 DEF InHand
      <3> QED
        BY <2>2, <3>1, <3>2, <3>3, <3>4
    <2>5. CASE CallAdd(b)
      <3>1. /\ producing[b] = "call" /\ producing' = [producing EXCEPT ![b] = "copy"]
            /\ UNCHANGED <<buffer, got, len, rings, received, disturbed, arrived>>
        BY <2>5 DEF CallAdd
      <3>2. PICK l \in {len, Number(got[b])} : arg' = [arg EXCEPT ![b] = l]
        BY <2>5 DEF CallAdd
      <3>3. \A a \in Addresses : Others(a)' = Others(a) /\ Added(a)' = Added(a)
        BY <2>1, <3>1, AddedIs DEF Others
      <3>4. InHand(b)'
        <4>1. producing'[b] = "copy" /\ arg'[b] = l
          BY <2>1, <3>1, <3>2
        <4> QED
          BY <2>1, <3>1, <3>2, <3>3, <4>1 DEF InHand
      <3>5. ASSUME NEW a \in Addresses, a # b PROVE InHand(a)'
        <4>1. producing'[a] = producing[a] /\ arg'[a] = arg[a]
          BY <2>1, <3>1, <3>2, <3>5
        <4> QED
          BY <2>1, <3>1, <3>3, <4>1 DEF InHand
      <3> QED
        BY <2>2, <3>1, <3>3, <3>4, <3>5
    <2>6. CASE CopyBuffer(b)
      <3>1. /\ producing[b] = "copy" /\ producing' = [producing EXCEPT ![b] = "receive"]
            /\ UNCHANGED <<buffer, got, len, arg, disturbed, arrived>>
        BY <2>6 DEF CopyBuffer
      <3>2. PICK x : x = <<buffer, arg[b]>>
        OBVIOUS
      <3>3. /\ Added(b)' = Append(Added(b), x) /\ Added(b) \in Seq(Item)
            /\ Len(Added(b)) \in Nat /\ x \in Item
            /\ \A a \in Addresses : a # b => Added(a)' = Added(a)
        BY <2>6, <3>2, AddedIs DEF Item, Types, CommTypeOK
      <3>4. /\ Len(Added(b)') = Len(Added(b)) + 1
            /\ \A k \in 1 .. Len(Added(b)) : Added(b)'[k] = Added(b)[k]
            /\ Added(b)'[Len(Added(b)) + 1] = x
        BY <3>3, AppendProperties
      <3>5. /\ Len(arrived[b]) = Len(Added(b)) + 1
            /\ got[b] = arrived[b][Len(Added(b)) + 1]
            /\ Faithful(got[b], x)
        BY <2>1, <3>1, <3>2 DEF InHand, Faithful
      <3>6. InHand(b)'
        <4>1. producing'[b] = "receive"
          BY <2>1, <3>1
        <4> QED
          BY <3>1, <3>4, <3>5, <4>1 DEF InHand
      <3>7. ASSUME NEW a \in Addresses, a # b PROVE InHand(a)'
        <4>1. producing'[a] = producing[a] /\ Added(a)' = Added(a)
          BY <2>1, <3>1, <3>3, <3>7
        <4>2. Others(a)' \subseteq Others(a)
          BY <2>1, <3>1 DEF Others
        <4> QED
          BY <2>1, <3>1, <4>1, <4>2 DEF InHand
      <3>8. ASSUME NEW a \in Addresses, NEW k \in 1 .. Len(Added(a)')
            PROVE  Faithful(arrived[a][k], Added(a)[k])'
        <4>1. CASE a # b
          BY <2>1, <3>1, <3>3, <3>8, <4>1 DEF Faithful
        <4>2. CASE a = b /\ k \in 1 .. Len(Added(b))
          BY <2>1, <3>1, <3>4, <4>2 DEF Faithful
        <4>3. CASE a = b /\ k = Len(Added(b)) + 1
          BY <3>1, <3>4, <3>5, <4>3 DEF Faithful
        <4>4. a = b => k \in 1 .. Len(Added(b)) \/ k = Len(Added(b)) + 1
          BY <3>3, <3>4, <3>8
        <4> QED
          BY <4>1, <4>2, <4>3, <4>4
      <3> QED
        BY <3>6, <3>7, <3>8 DEF Hands
    <2>7. CASE Receive(b)
      <3>1. UNCHANGED <<buffer, len, producing, got, arg, arrived, disturbed>>
        BY <2>7 DEF Receive
      <3>2. \A a \in Addresses : Added(a)' = Added(a)
        BY <2>7, AddedIs
      <3>3. ASSUME NEW a \in Addresses PROVE InHand(a)'
        BY <2>1, <3>1, <3>2 DEF InHand, Others
      <3> QED
        BY <2>2, <3>1, <3>2, <3>3
    <2> QED
      BY <1>4, <2>3, <2>4, <2>5, <2>6, <2>7 DEF Produce
  <1> QED
    BY <1>2, <1>3, <1>4, CommCases

-----------------------------------------------------------------------------
(* The invariant and what it gives *)

\* The communicators start in the invariant.
LEMMA CommStart ==
  ASSUME OneOfEach, CommInit
  PROVE  CommInv
  <1>1. RingInv
    BY RingInit DEF CommInit
  <1>2. /\ pc = [t \in Threads |-> "idle"] /\ consumed = "fetch" /\ empty_sem_ = RingSize
        /\ ring_ \in [Slots -> {Null, Garbage}]
    BY DEF CommInit, Init
  <1>3. pc[producer] = "idle" /\ pc[consumer] = "idle"
    BY <1>2, TwoThreads
  <1>4. ~ Waiting /\ ~ Holding /\ Stored = 0
    BY <1>2, <1>3, FifoRingAssumption DEF Waiting, Holding, Stored
  <1>5. Types
    <2>1. CommTypeOK
      <3>1. \A a \in Addresses : rings[a] = <<>>
        BY DEF CommInit
      <3>2. TypeOK /\ <<>> \in Seq(Seq(Messages))
        BY <1>1, EmptySeq DEF RingInv
      <3> QED
        BY <3>1, <3>2, CommunicatorAssumption, FifoRingAssumption
        DEF CommInit, CommTypeOK
    <2>2. /\ rings \in [Addresses -> Seq(Item)] /\ received \in [Addresses -> Seq(Item)]
          /\ arrived \in [Addresses -> Seq(Messages)]
          /\ via \in [1 .. MaxSends -> (Addresses \cup {None}) \X Nat]
      <3>1. <<>> \in Seq(Item) /\ <<>> \in Seq(Messages)
        BY EmptySeq
      <3> QED
        BY <3>1 DEF CommInit
    <2>3. /\ sent \in Seq(Addresses \cup {None}) /\ Len(sent) <= MaxSends
      BY CommunicatorAssumption, EmptySeq DEF CommInit
    <2>4. /\ \A a \in Addresses : producing[a] = "receive"
          /\ consumed = "fetch" /\ mapper_ = {}
      BY DEF CommInit
    <2> QED
      BY <1>4, <2>1, <2>2, <2>3, <2>4 DEF Types
  <1>6. TableOK
    <2>1. \A s \in Slots : ring_[s] \notin Messages
      BY <1>2, FifoRingAssumption
    <2>2. \A m : m \notin UnderWay
      BY <1>3, <1>4, <2>1, UnderWayIs
    <2> QED
      BY <1>2, <2>2 DEF TableOK, LossExplained, CommInit
  <1>7. SenderOrder
    BY <1>4 DEF SenderOrder
  <1>8. ASSUME NEW a \in Addresses
        PROVE  /\ Len(network[a]) = 0 /\ Len(arrived[a]) = 0 /\ Len(Added(a)) = 0
               /\ producing[a] = "receive"
    <2>1. /\ received[a] = <<>> /\ rings[a] = <<>> /\ network[a] = <<>> /\ arrived[a] = <<>>
          /\ producing[a] = "receive"
      BY DEF CommInit
    <2>2. <<>> \o <<>> = <<>>
      BY EmptySeq, ConcatEmptySeq
    <2> QED
      BY <2>1, <2>2 DEF Added
  <1>9. Ports /\ Hands
    BY <1>8 DEF Ports, OnWire, InOrder, Hands, InHand
  <1> QED
    BY <1>1, <1>5, <1>6, <1>7, <1>9 DEF CommInv

\* Every step of every thread keeps the invariant.
LEMMA CommStep ==
  ASSUME OneOfEach, CommInv, [CommNext]_commVars
  PROVE  CommInv'
  <1>1. RingInv /\ Types /\ TableOK /\ SenderOrder /\ Ports /\ Hands
    BY DEF CommInv
  <1>2. RingInv'
    BY <1>1, RingOfSender, RingStep
  <1>3. Types'
    BY <1>1, <1>2, TypesStep
  <1>4. TableOK'
    BY <1>1, <1>2, <1>3, TableStep
  <1>5. SenderOrder'
    BY <1>1, <1>2, SenderOrderStep
  <1>6. Ports'
    BY <1>1, <1>2, <1>3, PortsStep
  <1>7. Hands'
    BY <1>1, HandsStep
  <1> QED
    BY <1>2, <1>3, <1>4, <1>5, <1>6, <1>7 DEF CommInv

\* The inductive invariant of two communicators, when one thread calls Send and
\* one thread Consume runs.
THEOREM CommInvariance ==
  ASSUME OneOfEach PROVE CommSpec => []CommInv
  BY CommStart, CommStep, PTL DEF CommSpec

\* The variables of the communicators keep their types, no receiver's ring holds
\* more messages than its size.
THEOREM CommTypeCorrect ==
  ASSUME OneOfEach PROVE CommSpec => []CommTypeOK
  <1>1. CommInv => CommTypeOK
    BY DEF CommInv, Types
  <1> QED
    BY <1>1, CommInvariance, PTL

\* Consume drops a message only if its id was unknown when it was sent, or an
\* entry with its address was deleted while it was under way.
THEOREM LossesExplained ==
  ASSUME OneOfEach PROVE CommSpec => []LossExplained
  <1>1. CommInv => LossExplained
    BY DEF CommInv, TableOK
  <1> QED
    BY <1>1, CommInvariance, PTL

\* A message arrives once and at its port, in order from each connection, and is
\* handed on as it arrived unless two threads Produce held the buffer at once.
THEOREM DeliveryInOrder ==
  ASSUME OneOfEach PROVE CommSpec => []DeliveredInOrder
  <1>1. ASSUME CommInv PROVE DeliveredInOrder
    <2>0. Types /\ Ports /\ Hands
      BY <1>1 DEF CommInv
    <2>1. SUFFICES ASSUME NEW a \in Addresses
                   PROVE  /\ \A k \in DOMAIN arrived[a] :
                               LET n == Number(arrived[a][k])
                               IN  /\ n \in unsafe \/ sent[n] = a
                                   /\ \A j \in 1 .. k - 1 :
                                        via[Number(arrived[a][j])] = via[n] =>
                                          Number(arrived[a][j]) < n
                          /\ \A b \in Addresses :
                               \A k \in DOMAIN arrived[a], j \in DOMAIN arrived[b] :
                                 arrived[a][k] = arrived[b][j] => a = b /\ j = k
                          /\ \A k \in DOMAIN Added(a) : Faithful(arrived[a][k], Added(a)[k])
      BY DEF DeliveredInOrder, Faithful
    <2>2. ASSUME NEW k \in DOMAIN arrived[a]
          PROVE  LET n == Number(arrived[a][k])
                 IN  /\ n \in unsafe \/ sent[n] = a
                     /\ \A j \in 1 .. k - 1 : via[Number(arrived[a][j])] = via[n] =>
                                                Number(arrived[a][j]) < n
      <3>1. k \in 1 .. Len(arrived[a])
        BY <2>0, Connections
      <3> QED
        BY <2>0, <3>1 DEF Ports, InOrder, Landed
    <2>3. ASSUME NEW b \in Addresses, NEW k \in DOMAIN arrived[a], NEW j \in DOMAIN arrived[b],
                 arrived[a][k] = arrived[b][j]
          PROVE  a = b /\ j = k
      <3>1. k \in 1 .. Len(arrived[a]) /\ j \in 1 .. Len(arrived[b])
        BY <2>0, Connections
      <3> QED
        BY <2>0, <2>3, <3>1, OnceOnly
    <2>4. \A k \in DOMAIN Added(a) : Faithful(arrived[a][k], Added(a)[k])
      BY <2>0, AddedIs DEF Hands
    <2> QED
      BY <2>2, <2>3, <2>4
  <1> QED
    BY <1>1, CommInvariance, PTL

=============================================================================
