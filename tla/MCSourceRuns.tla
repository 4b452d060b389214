---------------------------- MODULE MCSourceRuns ----------------------------
(* Small instances of SourceRuns for TLC. *)
EXTENDS SourceRuns, TLC

CONSTANTS r1, r2, m1, m2, m3, v1

\* The first run has two episodes and so two rounds of maintenance, the second
\* has one.
FirstIsLarger == [r \in Runs |-> IF r = r1 THEN 2 ELSE 1]

\* Bound: only the first run may be pinned, fail a round or die before it commits.
SecondUntroubled == ~pinned[r2] /\ pc[r2] # "crashed" /\ ~failures[r2]

\* Bound: an episode drafts one Memory, perhaps twice; a run has one kind of fault
\* at a time, the second run none, and in the first run only the first episode.
Doubles(r) == \E e \in Episodes(r) : Doubled(r, e) # {}
Repeats(r) == \E rec \in records[r] : rec.repeats
OneFault ==
  /\ \A r \in Runs : \A e \in Episodes(r) : Cardinality(Writes(r, e)) <= 1
  /\ Flawless(r2) /\ gaps[r1] \subseteq {1} /\ Doubled(r1, 2) = {}
  /\ Doubles(r1) => gaps[r1] = {} /\ ~Repeats(r1)
  /\ gaps[r1] # {} => ~Repeats(r1)

Bound == SecondUntroubled /\ OneFault

\* Variants differ in their retrieval text only.
OneText == [v \in Variants |-> "text"]

Symmetry == Permutations(Ids)
=============================================================================
