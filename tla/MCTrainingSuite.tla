--------------------------- MODULE MCTrainingSuite ---------------------------
(* A small instance of TrainingSuite for TLC. *)
EXTENDS TrainingSuite

CONSTANTS act, maint, sel, write, q1, q2

Alphabet == [k \in Kinds |-> CASE k = act -> 1 [] k = maint -> 2 [] k = sel -> 3 [] k = write -> 4]

\* One capability has no examples (as in debug datasets), one needs one step,
\* and two have equally many examples and several steps.
Counts == [k \in Kinds |-> CASE k = maint -> 0 [] k = act -> 1 [] OTHER -> 3]
=============================================================================
