----------------------------- MODULE MCCluster -----------------------------
(***************************************************************************)
(* The cluster with two servers.  The servers are interchangeable, and an  *)
(* id is only compared for equality: which node has which id does not      *)
(* matter beyond the order of the servers.  Hence it is enough to look at  *)
(* the behaviours in which s1 registers first and s2 last, so that the ids *)
(* of the servers are not their places in the list; every other one is     *)
(* such a behaviour with names and ids exchanged.  (A SYMMETRY set would   *)
(* not be sound for the liveness properties.)                              *)
(***************************************************************************)
EXTENDS Cluster

CONSTANTS s1, s2

MCServers == {s1, s2}

MCInit ==
  /\ Init
  /\ inbox[1].node = s1
  /\ inbox[NodeNum].node = s2

MCSpec == MCInit /\ [][Next]_vars /\ Fairness
=============================================================================
