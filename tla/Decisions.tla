----------------------------- MODULE Decisions -----------------------------
(***************************************************************************)
(* What the fast loop makes of the outputs of a model                      *)
(* (src/tau3_evolver/fast_loop/decision.py, contracts.py, selection.py,    *)
(* writing.py, outcomes.py): pure operators.                               *)
(*                                                                         *)
(* An output is proper if it is JSON of the decision's schema.  A response *)
(* is an output with its token usage, one number for the two the server    *)
(* reports, None if it reports nothing.                                    *)
(***************************************************************************)
EXTENDS Integers, Sequences, FiniteSets

CONSTANTS
  Memories,
  Tier,        \* tier of each Memory
  TotalLimit,  \* selection_max_total
  TierLimit,   \* selection_tier_limits()
  WriteQuota,  \* write_quota_for(tier)
  None

Tiers == {"tip", "skill", "tool", "trajectory"}

ASSUME TierAssumption == Tier \in [Memories -> Tiers]
ASSUME LimitAssumption ==
  /\ TotalLimit \in Nat \ {0}
  /\ TierLimit \in [Tiers -> Nat]
  /\ WriteQuota \in [Tiers -> Nat]
ASSUME NoneIsNoUsage == None \notin Nat

Usages == Nat \cup {None}

-----------------------------------------------------------------------------
(* Outputs *)

\* Ids are distinct in a proper selection.
Selections == [proper : BOOLEAN, ids : SUBSET Memories]

\* Text, a tool call, or the wish to stop.
Actions == [proper : BOOLEAN, stop : BOOLEAN]

\* Drafts are named for the Memory their content yields, so that two drafts may
\* be one Memory.  What is wrong with a tainted output is said with the words
\* credential or attribution score.
Writings == [proper : BOOLEAN, tainted : BOOLEAN, drafts : Seq(Memories)]

InTier(S, tier) == {m \in S : Tier[m] = tier}

\* parse_decision with the candidates and validate_selection_limits.
ValidSelection(output, offered) ==
  /\ output.proper
  /\ output.ids \subseteq offered
  /\ Cardinality(output.ids) <= TotalLimit
  /\ \A tier \in Tiers : Cardinality(InTier(output.ids, tier)) <= TierLimit[tier]

\* parse_decision with Tau2ActionCodec.decode.
ValidAction(output) == output.proper

\* classify_episode_memory; what is reached here has a terminal evaluation.
OutcomeClass(reward, truncated) ==
  IF truncated THEN "incomplete"
  ELSE IF reward = 1 THEN "success" ELSE "task_failure"

AllowedTiers(class) ==
  CASE class = "success" -> {"tip", "skill", "tool"}
    [] class = "task_failure" -> {"tip"}
    [] class = "incomplete" -> {}

\* parse_decision with validate_write_decision.
ValidWriting(output, class) ==
  /\ output.proper /\ ~output.tainted
  /\ \A i \in DOMAIN output.drafts : Tier[output.drafts[i]] \in AllowedTiers(class)

\* apply_write_quotas keeps the first drafts of each tier.
Kept(drafts) ==
  {i \in DOMAIN drafts :
     Cardinality({j \in 1..(i - 1) : Tier[drafts[j]] = Tier[drafts[i]]})
       < WriteQuota[Tier[drafts[i]]]}

Learned(drafts) == [i \in Kept(drafts) |-> drafts[i]]

-----------------------------------------------------------------------------
(* What is recorded of a decision *)

\* _combined_token_usage and accumulate_token_usage: unknown once, unknown for good.
Sum(u, v) == IF u = None \/ v = None THEN None ELSE u + v

\* A decision of the first response, and one that took a repair.
Plain(usage) == [repaired |-> FALSE, fallback |-> FALSE, usage |-> usage]

\* (mutant: the response that was repaired is not paid for)
RepairedUncounted(first, second) ==
  [repaired |-> TRUE, fallback |-> FALSE, usage |-> second]

Repaired(first, second) ==
  [repaired |-> TRUE, fallback |-> FALSE, usage |-> Sum(first, second)]
FellBack(first, second) ==
  [repaired |-> TRUE, fallback |-> TRUE, usage |-> Sum(first, second)]

Audits == [repaired : BOOLEAN, fallback : BOOLEAN, usage : Usages]
=============================================================================
