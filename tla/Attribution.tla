---------------------------- MODULE Attribution ----------------------------
(***************************************************************************)
(* Evidence of finished runs, and what a Memory is worth by it             *)
(* (src/tau3_evolver/slow_loop/evidence.py and attribution.py): pure       *)
(* operators.                                                              *)
(*                                                                         *)
(* A ledger is what build_evidence returns: the episodes and maintenance   *)
(* rounds of the source runs.  Both are functions of a position <<k, i>>,  *)
(* the i-th of the k-th run, in the order of the tuples.  Memories are     *)
(* numbers, in the order of their ids.  Rewards are 0 and 1.  A score is a fraction;   *)
(* Scale is a common multiple of the denominators, so that all values are  *)
(* integers, in units of 1 / (100 * Scale * the unit of Prior).            *)
(***************************************************************************)
EXTENDS Integers, Sequences, FiniteSets, FiniteSetsExt

CONSTANTS
  Memories,   \* ids
  Groups,     \* task groups
  Tasks,
  Prior,      \* tier prior of each Memory (config.slow_loop.tier_priors)
  Scale,
  Threshold,  \* score_threshold, in the same unit as a value
  ByRule,     \* Memories with generation_mode "rule"
  None

ASSUME MemoriesAssumption == Memories \subseteq Nat /\ IsFiniteSet(Memories)
ASSUME PriorAssumption == Prior \in [Memories -> Nat]
ASSUME ScaleAssumption == Scale \in Nat \ {0}
ASSUME ThresholdAssumption == Threshold \in Nat \ {0}
ASSUME ByRuleAssumption == ByRule \subseteq Memories
ASSUME ValueAssumption == None \notin Int

-----------------------------------------------------------------------------
(* Evidence *)

\* Of a candidate list only membership and the ranking matter: rank[m] is the
\* position of m, 0 if it is no candidate.  echo is what of the Memories can be
\* read in the policy, the tools or the first observation of the task.
EpisodeEvidence ==
  [task : Tasks, group : Groups, reward : {0, 1},
   rank : [Memories -> Nat], selected : SUBSET Memories,
   created : SUBSET Memories, replayed : SUBSET Memories, echo : SUBSET Memories]

MaintenanceEvidence == [number : Nat, repository : SUBSET Memories]

Candidates(e) == {m \in Memories : e.rank[m] > 0}
Proposed(e) == e.created \cup e.replayed

Positions(ledger) == DOMAIN ledger.episodes
Rounds(ledger) == DOMAIN ledger.maintenance

Precedes(p, q) == p[1] < q[1] \/ (p[1] = q[1] /\ p[2] < q[2])

\* _collect_memory_facts: the Memories some row of the ledger mentions.
Known(ledger) ==
  UNION {Candidates(ledger.episodes[i]) \cup Proposed(ledger.episodes[i])
           : i \in Positions(ledger)}
  \cup UNION {ledger.maintenance[j].repository : j \in Rounds(ledger)}

CreatorsOf(ledger, m) == {i \in Positions(ledger) : m \in ledger.episodes[i].created}

\* The facts are refused if an episode selects what was not offered or if a
\* Memory has two creators.
Consistent(ledger) ==
  /\ \A i \in Positions(ledger) :
       ledger.episodes[i].selected \subseteq Candidates(ledger.episodes[i])
  /\ \A m \in Known(ledger) : Cardinality(CreatorsOf(ledger, m)) <= 1

\* Position of the creator episode, None if the ledger does not have it.
Creator(ledger, m) ==
  IF CreatorsOf(ledger, m) = {} THEN None
  ELSE CHOOSE i \in CreatorsOf(ledger, m) : TRUE

-----------------------------------------------------------------------------
(* Scores (Eq. 11 and 12 of the paper the code names) *)

\* Episodes that count: those after the creator that were offered the Memory.
Observed(ledger, m) ==
  {i \in Positions(ledger) :
     /\ \A c \in CreatorsOf(ledger, m) : Precedes(c, i)
     /\ m \in Candidates(ledger.episodes[i])}

Chosen(ledger, m) == {i \in Observed(ledger, m) : m \in ledger.episodes[i].selected}
Passed(ledger, m) == Observed(ledger, m) \ Chosen(ledger, m)

\* (mutant: all outcomes are compared, whatever the task group)
WithinAll(ledger, S, g) == S

Within(ledger, S, g) == {i \in S : ledger.episodes[i].group = g}

\* Groups that saw both choices.
Contrasts(ledger, m) ==
  {g \in Groups : /\ Within(ledger, Chosen(ledger, m), g) # {}
                  /\ Within(ledger, Passed(ledger, m), g) # {}}

Wins(ledger, S) == Cardinality({i \in S : ledger.episodes[i].reward = 1})

\* rho * delta of a group: the share of choices times the difference of means.
Contribution(ledger, m, g) ==
  LET chosen == Within(ledger, Chosen(ledger, m), g)
      passed == Within(ledger, Passed(ledger, m), g)
      n1 == Cardinality(chosen)
      n0 == Cardinality(passed)
  IN  (Scale * (Wins(ledger, chosen) * n0 - Wins(ledger, passed) * n1))
        \div (n0 * (n0 + n1))

\* 1 - 1/sqrt(1 + n), in hundredths rounded up.
Confidence(n) ==
  100 - (CHOOSE k \in 0..100 :
           k * k * (1 + n) <= 10000 /\ (k + 1) * (k + 1) * (1 + n) > 10000)

AttributionOf(ledger, m) ==
  MapThenSumSet(LAMBDA g : Contribution(ledger, m, g), Contrasts(ledger, m))

\* _score_memory.  Without a contrast there is no value.
Score(ledger, m) ==
  [creator |-> Creator(ledger, m),
   sources |-> Observed(ledger, m),
   selected |-> Cardinality(Chosen(ledger, m)),
   value |-> IF Contrasts(ledger, m) = {} THEN None
             ELSE Prior[m] * Confidence(Cardinality(Chosen(ledger, m)))
                    * AttributionOf(ledger, m)]

Scores(ledger) == [m \in Known(ledger) |-> Score(ledger, m)]

\* value >= threshold, and abs(value) >= threshold.
Valuable(score) == score.value # None /\ score.value >= Threshold
Telling(score) ==
  score.value # None /\ (score.value >= Threshold \/ score.value <= -Threshold)
=============================================================================
