------------------------------ MODULE Examples ------------------------------
(***************************************************************************)
(* The training examples of a dataset                                      *)
(* (src/tau3_evolver/slow_loop/examples.py): pure operators from a ledger  *)
(* and its scores to examples of four kinds.                               *)
(*                                                                         *)
(* An example says which unit it is a sample of, what the student sees of  *)
(* the Memories (public), and what only the teacher sees (hindsight).      *)
(* Texts, schemas and the sampling contract are the same for all examples  *)
(* of a kind and are left out.                                             *)
(***************************************************************************)
EXTENDS Attribution

CONSTANTS
  TeacherCap,   \* memory.teacher_memory_cap
  Kappa,        \* similarity of two embeddings, None if they are not comparable
  Redundancy,   \* slow_loop.redundancy_threshold
  PairLimit     \* slow_loop.max_redundancy_pairs

ASSUME TeacherCapAssumption == TeacherCap \in Nat \ {0}
ASSUME KappaAssumption == Kappa \in [Memories \X Memories -> Int \cup {None}]
ASSUME RedundancyAssumption == Redundancy \in Int /\ PairLimit \in Nat

Kinds == {"sel", "act", "write", "maint"}

-----------------------------------------------------------------------------
(* Orders and cuts *)

\* The first n elements of S in the order Before.
First(S, n, Before(_, _)) ==
  {x \in S : Cardinality({y \in S : Before(y, x)}) < n}

\* Place of x among S in the order Before, from 0.
Place(S, x, Before(_, _)) == Cardinality({y \in S : Before(y, x)})

-----------------------------------------------------------------------------
(* sel, act, write: one sample per task at most *)

Judged(score) == [value |-> score.value, selected |-> score.selected]

SelectionExamples(ledger, scores) ==
  {[kind |-> "sel", unit |-> i,
    public |-> Candidates(ledger.episodes[i]),
    hindsight |-> [m \in Candidates(ledger.episodes[i]) |-> Judged(scores[m])]]
     : i \in {j \in Positions(ledger) :
                \E m \in Candidates(ledger.episodes[j]) : Telling(scores[m])}}

\* The teacher of a successful episode sees the best of what it had selected.
Hints(episode, scores) ==
  First({m \in episode.selected : Valuable(scores[m])}, TeacherCap,
        LAMBDA m, n : \/ scores[m].value > scores[n].value
                      \/ /\ scores[m].value = scores[n].value
                         /\ episode.rank[m] < episode.rank[n])

Successful(ledger) == {i \in Positions(ledger) : ledger.episodes[i].reward = 1}

\* build_evidence refuses empty trajectories, so success is all that is left of
\* the condition.
ActionExamples(ledger, scores) ==
  {[kind |-> "act", unit |-> i,
    public |-> ledger.episodes[i].echo,
    hindsight |-> [m \in Hints(ledger.episodes[i], scores) |-> Judged(scores[m])]]
     : i \in Successful(ledger)}

\* Memories written by rule are no target of the writer.
Written(episode) == episode.created \ ByRule

Credited(score) == [value |-> score.value, selected |-> score.selected,
                    creator |-> score.creator, sources |-> score.sources]

WritingExamples(ledger, scores) ==
  {[kind |-> "write", unit |-> i,
    public |-> ledger.episodes[i].selected,
    hindsight |-> [m \in Written(ledger.episodes[i]) |-> Credited(scores[m])]]
     : i \in {j \in Positions(ledger) :
                \E m \in Written(ledger.episodes[j]) : Telling(scores[m])}}

-----------------------------------------------------------------------------
(* maint: one sample per round *)

\* Most similar first, then by id.
PairBefore(p, q) ==
  \/ Kappa[p] > Kappa[q]
  \/ Kappa[p] = Kappa[q] /\ p[1] < q[1]
  \/ Kappa[p] = Kappa[q] /\ p[1] = q[1] /\ p[2] < q[2]

Pairs(S) ==
  First({p \in S \X S : p[1] < p[2] /\ Kappa[p] # None /\ Kappa[p] >= Redundancy},
        PairLimit, PairBefore)

\* Orders of the buckets; Memories without a value come last, ties go by id.
\* The counter usage_count is never written, so the third bucket is by id.
MoreWorth(scores, m, n) ==
  LET v == scores[m].value
      w == scores[n].value
  IN  \/ v # None /\ w = None
      \/ v # None /\ w # None /\ v > w
      \/ v = w /\ m < n

LessWorth(scores, m, n) ==
  LET v == scores[m].value
      w == scores[n].value
  IN  \/ v # None /\ w = None
      \/ v # None /\ w # None /\ v < w
      \/ v = w /\ m < n

\* Turns at which the round robin over the four buckets comes to m; the pairs
\* fill the fourth bucket, left before right.
Turns(S, scores, m) ==
  LET pairs == Pairs(S)
      worth == Place(S, m, LAMBDA x, y : MoreWorth(scores, x, y))
      less  == Place(S, m, LAMBDA x, y : LessWorth(scores, x, y))
      id    == Place(S, m, LAMBDA x, y : x < y)
      ends  == {2 * Place(pairs, p, PairBefore) + IF p[1] = m THEN 0 ELSE 1
                  : p \in {q \in pairs : m \in {q[1], q[2]}}}
  IN  {4 * worth, 4 * less + 1, 4 * id + 2} \cup {4 * k + 3 : k \in ends}

\* Every Memory of S at its first turn.
Queue(S, scores) ==
  {LET turns == Turns(S, scores, m)
   IN  <<CHOOSE t \in turns : \A u \in turns : t <= u, m>> : m \in S}

\* _maintenance_diagnostics: the teacher is shown as many Memories as the cap allows.
Diagnosed(S, scores) ==
  {q[2] : q \in First(Queue(S, scores), TeacherCap, LAMBDA p, q : p[1] < q[1])}

\* Successes that had selected m among the episodes of the runs up to the k-th.
SelectedWins(ledger, k, m) ==
  Wins(ledger, {i \in Positions(ledger) : i[1] <= k /\ m \in ledger.episodes[i].selected})

MaintenanceExamples(ledger, scores) ==
  {LET round == ledger.maintenance[j]
       shown == Diagnosed(round.repository, scores)
   IN  [kind |-> "maint", unit |-> j,
        public |-> round.repository,
        pairs |-> Pairs(round.repository),
        hindsight |-> [m \in shown |->
                         [value |-> scores[m].value, selected |-> scores[m].selected,
                          wins |-> SelectedWins(ledger, j[1], m)]]]
     : j \in Rounds(ledger)}

-----------------------------------------------------------------------------
(* All kinds *)

ExamplesOf(ledger, scores, kind) ==
  CASE kind = "sel" -> SelectionExamples(ledger, scores)
    [] kind = "act" -> ActionExamples(ledger, scores)
    [] kind = "write" -> WritingExamples(ledger, scores)
    [] kind = "maint" -> MaintenanceExamples(ledger, scores)

AllExamples(ledger, scores) == [kind \in Kinds |-> ExamplesOf(ledger, scores, kind)]

\* (mutant: what the task shows of a hint is overlooked)
WithinBoundsButEchoed(x) ==
  CASE x.kind = "sel" -> DOMAIN x.hindsight = x.public
    [] x.kind = "act" -> TRUE
    [] x.kind = "write" -> TRUE
    [] x.kind = "maint" -> DOMAIN x.hindsight \subseteq x.public

\* audit_example_boundaries: what the student must not see, and what must join.
WithinBounds(x) ==
  CASE x.kind = "sel" -> DOMAIN x.hindsight = x.public
    [] x.kind = "act" -> x.public \cap DOMAIN x.hindsight = {}
    [] x.kind = "write" ->
         \A m \in DOMAIN x.hindsight : x.hindsight[m].creator \notin x.hindsight[m].sources
    [] x.kind = "maint" ->
         /\ DOMAIN x.hindsight \subseteq x.public
         /\ x.pairs \subseteq x.public \X x.public

\* _make_example refuses an example out of bounds, and with it the dataset.
Presentable(ledger, scores) ==
  \A kind \in Kinds : \A x \in ExamplesOf(ledger, scores, kind) : WithinBounds(x)
=============================================================================
