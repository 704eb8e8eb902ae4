-------------------------- MODULE MCVirtualization --------------------------
(* Small instances of Virtualization for TLC. *)
EXTENDS Virtualization, TLC

CONSTANTS c1, c2, b1, b2, b3, b4

\* One processor group; and two, the second with one processor, whose number
\* is that of the first processor of all.
OneOrTwoGroups == {[c \in Cpu |-> c], [c \in Cpu |-> IF c = Cpus THEN 1 ELSE c]}

\* Clients and blocks are interchangeable.
Symmetry == Permutations(Clients) \union Permutations(Blocks)
=============================================================================
