--------------------------- MODULE MCCommunicator ---------------------------
(***************************************************************************)
(* Instances of Communicator for TLC.                                      *)
(***************************************************************************)
EXTENDS Communicator

MCMessages == Ids \X (1 .. MaxSends)

MCTable == [i \in Ids |-> IF i = 1 THEN "requests" ELSE "heartbeats"]

\* The node behind id 2 may come back at the port of id 1.
MCEntries == {<<1, "requests">>, <<2, "requests">>}

=============================================================================
