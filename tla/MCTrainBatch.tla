---------------------------- MODULE MCTrainBatch ----------------------------
(* Small instances of TrainBatch for TLC. *)
EXTENDS TrainBatch, TLC

CONSTANTS r1, r2, r3, m1, m2, m3, v1, v2, v3

\* Every batch has one task; or the second has two, so that it reaches rounds
\* the first does not.
OneTaskEach == [r \in Runs |-> 1]
SecondIsLarger == [r \in Runs |-> IF r = r2 THEN 2 ELSE 1]

\* Variants differ in what a stored Memory is compared by.
OwnTexts == [v \in Variants |-> v]

\* v1 and v2 differ in their retrieval text only.
SharedText == [v \in Variants |-> IF v = v3 THEN "second" ELSE "first"]

\* Of runs too: in batch_safety they have equally many tasks.
Symmetry == Permutations(Ids) \cup Permutations(Variants) \cup Permutations(Runs)
=============================================================================
