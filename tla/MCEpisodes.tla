----------------------------- MODULE MCEpisodes -----------------------------
(* A small instance of Episodes for TLC. *)
EXTENDS Episodes, TLC

CONSTANTS t1, t2, t3, tip, tip2, wrench, skill

\* A tool Memory that ranks first and may or may not fit the tools of the task.
MCMemories == {tip, tip2, wrench, skill}
MCTier == [m \in MCMemories |->
             CASE m \in {tip, tip2} -> "tip"
               [] m = wrench -> "tool"
               [] m = skill -> "skill"]
MCTierLimit == [tier \in Tiers |-> 1]
MCWriteQuota == [tier \in Tiers |-> IF tier = "tip" THEN 2 ELSE 1]
MCRequest == <<t1, t2, t3>>

Setting(memory, propose, usable, ranking, faulty) ==
  [memory |-> memory, propose |-> propose, faults |-> faulty, usable |-> usable,
   offers |-> [t \in Tasks |-> IF t = t1 THEN ranking ELSE <<tip>>]]

\* With the tool fit, with a tool that does not fit, without proposals, without Memory.
MCInstances ==
  {Setting(TRUE, TRUE, {wrench}, <<wrench, tip>>, 2),
   Setting(TRUE, TRUE, {}, <<wrench, tip>>, 0),
   Setting(TRUE, FALSE, {wrench}, <<wrench, tip>>, 0),
   Setting(FALSE, FALSE, {}, <<>>, 0)}

Response(output, usage) == [output |-> output, usage |-> usage]

Selection(proper, ids) == [proper |-> proper, ids |-> ids]
Action(proper, stop) == [proper |-> proper, stop |-> stop]
Draft(proper, tainted, drafts) == [proper |-> proper, tainted |-> tainted, drafts |-> drafts]

\* The model may do anything on t1; on the others it does as it is told.  On t1 it may
\* choose what the filter took out, and a bad response may come without usage.
MCSelections ==
  (t1 :> {Response(Selection(TRUE, {tip}), 1), Response(Selection(TRUE, {wrench}), 1),
          Response(Selection(FALSE, {}), None)})
  @@ (t2 :> {Response(Selection(TRUE, {tip}), 1)})
  @@ (t3 :> {Response(Selection(TRUE, {tip}), 1)})

MCActions ==
  (t1 :> {Response(Action(TRUE, TRUE), 1), Response(Action(TRUE, FALSE), 1),
          Response(Action(FALSE, FALSE), 1)})
  @@ (t2 :> {Response(Action(TRUE, TRUE), 1)})
  @@ (t3 :> {Response(Action(TRUE, TRUE), 1)})

\* Within the quota, beyond it, against the policy of a failure, one Memory twice.
MCWritings ==
  (t1 :> {Response(Draft(TRUE, FALSE, <<tip, tip2>>), 1),
          Response(Draft(TRUE, FALSE, <<tip, skill, tip, tip2>>), 1),
          Response(Draft(FALSE, FALSE, <<>>), 1), Response(Draft(FALSE, TRUE, <<>>), 1)})
  @@ (t2 :> {Response(Draft(TRUE, FALSE, <<tip>>), 1)})
  @@ (t3 :> {Response(Draft(TRUE, FALSE, <<tip>>), 1)})

Ends(reasons, rewards) == [reason : reasons, reward : rewards]

MCEvaluations ==
  (t1 :> Ends({"stop"}, {0, 1, None}) \cup Ends({"timeout"}, {0}))
  @@ (t2 :> Ends({"stop"}, {1, None}))
  @@ (t3 :> Ends({"stop"}, {1}))
=============================================================================
