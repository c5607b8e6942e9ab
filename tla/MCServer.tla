------------------------------ MODULE MCServer ------------------------------
(***************************************************************************)
(* Module Server with clients that send any request at any time, within    *)
(* bounds.  Agents are interchangeable and so are blocks: no operator of   *)
(* Server orders either.                                                   *)
(***************************************************************************)
EXTENDS Server, TLC

CONSTANTS
  MaxPushes,    \* bound: updates of one agent at one server
  MaxInFlight,  \* bound: requests of a client under way to a server
  MaxPulls      \* bound: unanswered or unread pulls of a client at a server

Symmetry == Permutations(Agents) \cup Permutations(Blocks)

InFlight(a, s, type) ==
  Len(SelectSeq(requests[a][s], LAMBDA m : m.type = type))

Pushes(a, s) ==
  InFlight(a, s, "push") + (IF a \in Agents THEN Len(accepted[s][a]) ELSE 0)

Pulls(a, s) ==
  InFlight(a, s, "pull") + Len(replies[s][a])
    + (IF a \in Agents THEN Len(pull_request_[s][a]) ELSE 0)

BoundedSend(a, s) ==
  /\ Len(requests[a][s]) < MaxInFlight
  /\ \E block \in Blocks :
       \/ Pushes(a, s) < MaxPushes /\ Send(a, s, "push", block)
       \/ Pulls(a, s) < MaxPulls /\ Send(a, s, "pull", block)

\* The instances of this module keep no backups, so the servers exchange no
\* messages and ServePeer is never enabled; module MCParameterServer has the
\* instances with backups.
MCNext ==
  \/ \E s \in Servers : ServeClient(s)
  \/ \E a \in Clients, s \in Servers : BoundedSend(a, s) \/ ReadReply(a, s)

MCSpec == Init /\ [][MCNext]_vars

=============================================================================
