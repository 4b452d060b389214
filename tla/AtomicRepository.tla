-------------------------- MODULE AtomicRepository --------------------------
(***************************************************************************)
(* What a Memory repository promises to those who hold its lock: every     *)
(* operation happens at once, whatever threads and processes share the     *)
(* namespace.  Only an operation of a process that dies in it may be left  *)
(* half done, and then by whole tiers.                                     *)
(***************************************************************************)
EXTENDS MemoryCommands

CONSTANTS Batches, Rounds

VARIABLES
  items,      \* the Memories
  snapshots   \* states published as snapshots

vars == <<items, snapshots>>

Create ==
  /\ \E i \in Ids, n \in Rounds : items[i] = None /\ items' = [items EXCEPT ![i] = New(n, {})]
  /\ UNCHANGED snapshots

Outcomes == {ApplyBatch(items, b) : b \in Batches} \cup {Embed(items)}

\* A batch of commands, or the embeddings of a retrieval.
Perform ==
  /\ items' \in Outcomes \ {None}
  /\ UNCHANGED snapshots

\* The process dies after some tiers of it.
Tear ==
  /\ \E s \in Outcomes \ {None}, tiers \in SUBSET Tiers : items' = Mixed(tiers, s, items)
  /\ UNCHANGED snapshots

Publish ==
  /\ snapshots' = snapshots \cup {items}
  /\ UNCHANGED items

Next == Create \/ Perform \/ Tear \/ Publish

Init == items \in States /\ snapshots = {}
Spec == Init /\ [][Next]_vars
=============================================================================
