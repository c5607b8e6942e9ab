---------------------------- MODULE BoundedFifo -----------------------------
(***************************************************************************)
(* What FifoRing promises to one producer and one consumer: a queue of at  *)
(* most Capacity messages, first in, first out.                            *)
(***************************************************************************)
EXTENDS Naturals, Sequences

CONSTANTS Messages, Capacity, NoMessage

VARIABLES
  queue,   \* messages added and not fetched yet, oldest first
  fetched  \* the message fetched last

Init == queue = <<>> /\ fetched = NoMessage

Put(m) ==
  /\ Len(queue) < Capacity
  /\ queue' = Append(queue, m)
  /\ UNCHANGED fetched

Get ==
  /\ queue # <<>>
  /\ fetched' = Head(queue)
  /\ queue' = Tail(queue)

Next == Get \/ \E m \in Messages : Put(m)

Spec == Init /\ [][Next]_<<queue, fetched>>

=============================================================================
