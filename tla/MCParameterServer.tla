------------------------- MODULE MCParameterServer --------------------------
(* Instances of module ParameterServer for TLC. *)
EXTENDS ParameterServer, TLC

MCBlocks == [epoch : 0 .. MaxIter - 1, chunk : 1 .. Len(Chunks)]

\* The keys start at the first entry of the partition: one chunk per server.
InOrder == [c \in 1 .. ServerNum |-> c - 1]

\* Keys below the first entry of the partition go to the last server, which so
\* has the first chunk as well as the last.
Wrapped == <<ServerNum - 1>> \o InOrder

\* Two equal entries of the partition: a server without keys between two others.
EmptySegment == <<0, 2>>

Symmetry == Permutations(Agents)

=============================================================================
