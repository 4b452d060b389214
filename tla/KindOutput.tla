----------------------------- MODULE KindOutput -----------------------------
(***************************************************************************)
(* What the output directory of one OPD capability shows to the training   *)
(* suite: whether logs or a manifest exist, the step of the latest         *)
(* published checkpoint (Unpublished if none), whether older ones are kept *)
(* beside it, whether an unpublished directory with a checkpoint manifest  *)
(* was left behind, and whether the completion manifest is there.          *)
(* OPDTrainer implements it; TrainingSuite is built on it.                 *)
(***************************************************************************)
EXTENDS Integers

CONSTANT Steps    \* optimizer steps of the whole schedule

VARIABLES
  out,    \* the directory
  busy    \* a trainer that passed its preflight is at work in it

vars == <<out, busy>>

Unpublished == -1
Outputs == [logs : BOOLEAN, latest : Unpublished..Steps, older : BOOLEAN,
            leftover : BOOLEAN, complete : BOOLEAN]
Empty == [logs |-> FALSE, latest |-> Unpublished, older |-> FALSE,
          leftover |-> FALSE, complete |-> FALSE]

\* A start is accepted on a directory without logs and checkpoints, or from a
\* checkpoint of at least one step.
Accepts(o) == IF o.latest = Unpublished THEN ~o.logs ELSE o.latest >= 1

FollowingStep(o) ==
  IF Steps = 0 THEN 0 ELSE IF o.latest = Unpublished THEN 1 ELSE o.latest + 1

\* What a trainer at work makes of the directory in a step of its own.
Advanced(o) ==
  {[o EXCEPT !.logs = TRUE], [o EXCEPT !.older = FALSE]}
    \cup (IF o.latest = Steps THEN {[o EXCEPT !.complete = TRUE, !.logs = TRUE]}
          ELSE {[o EXCEPT !.latest = FollowingStep(o), !.older = o.latest # Unpublished]})

\* What its end, regular or not, leaves: perhaps a checkpoint it was writing.
Left(o) == {o, [o EXCEPT !.logs = TRUE]}
             \cup (IF o.latest < Steps THEN {[o EXCEPT !.leftover = TRUE]} ELSE {})

Init == out = Empty /\ busy = FALSE

Begin ==
  /\ ~busy /\ ~out.complete /\ Accepts(out)
  /\ busy' = TRUE
  /\ UNCHANGED out

Advance ==
  /\ busy
  /\ out' \in Advanced(out)
  /\ UNCHANGED busy

End ==
  /\ busy
  /\ busy' = FALSE
  /\ out' \in Left(out)

Next == Begin \/ Advance \/ End

Spec == Init /\ [][Next]_vars
=============================================================================
