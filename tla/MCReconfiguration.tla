------------------------- MODULE MCReconfiguration --------------------------
(***************************************************************************)
(* An instance of Reconfiguration for TLC: four servers, and Local is the  *)
(* first or the last of them.  The first takes over keys across the end of *)
(* the list; the last has a place that is none of the list when it is left *)
(* out, and its keys wrap round the key range.                             *)
(***************************************************************************)
EXTENDS Reconfiguration

MCConfigs ==
  {[server_id |-> <<2, 3, 4, 5>>, partition |-> <<0, 1, 3, 4>>, worker_id |-> <<11, 12>>],
   [server_id |-> <<3, 4, 5, 2>>, partition |-> <<1, 2, 4, 5>>, worker_id |-> <<11>>]}

=============================================================================
