------------------------- MODULE MCMemoryRepository -------------------------
(* A small instance of MemoryRepository for TLC. *)
EXTENDS MemoryRepository

CONSTANTS t1, t2, t3, p1, p2, a, b, c, m, tip, tool, old

\* Two threads of one process and one of another.
Host == [t \in Threads |-> IF t = t3 THEN p2 ELSE p1]

\* Three Memories of one tier, one of which a merge may create, and one of
\* another tier.
Tier == [i \in Ids |-> IF i = c THEN tool ELSE tip]
DeclaredOrder == [t \in Tiers |-> IF t = tip THEN 1 ELSE 2]
SortedOrder == [t \in Tiers |-> IF t = tip THEN 1 ELSE 2]

MergeAB == [kind |-> "merge", sources |-> {a, b}, target |-> m, round |-> 1]
DeleteC == [kind |-> "delete", ids |-> {c}, round |-> 1, reason |-> old]
DeleteMLater == [kind |-> "delete", ids |-> {m}, round |-> 2, reason |-> old]
DeleteA == [kind |-> "delete", ids |-> {a}, round |-> 1, reason |-> old]

\* A batch over both tiers, one whose commands build on each other, one that a
\* Memory of a later generation refuses, and one that conflicts with the others.
TestBatches ==
  {<<MergeAB, DeleteC>>, <<DeleteC, MergeAB, DeleteMLater>>, <<DeleteA>>}

\* A namespace with the Memories of one generation.
Seeded == [i \in Ids |-> IF i = m THEN None ELSE New(1, {})]
SeedStates == {Seeded}
=============================================================================
