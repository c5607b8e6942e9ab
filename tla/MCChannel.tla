----------------------------- MODULE MCChannel ------------------------------
(* Instance of Channel for TLC. *)
EXTENDS Channel

\* Three keys on two servers: a list in two chunks, and one that wraps, so that
\* the second server is sent two.
TwoServers == {<<1, 2, 2>>, <<2, 1, 2>>}

=============================================================================
