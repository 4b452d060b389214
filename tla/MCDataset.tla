----------------------------- MODULE MCDataset -----------------------------
(* Small instances of DatasetBuild for TLC. *)
EXTENDS DatasetBuild, TLC

CONSTANTS b1, b2, r1, r2, t1, t2, t3, t4, g1, g2

\* Memory 1 is older than both runs; r1 creates 2 with the model and 3 by rule.
MCMemories == 1..3
MCByRule == {3}
MCPrior == [m \in Memories |-> 1]

\* Embeddings: 1 and 2 are close, 2 and 3 closer, 1 and 3 not comparable.
MCKappa == [p \in Memories \X Memories |->
              IF {p[1], p[2]} = {1, 3} THEN None ELSE p[1] + p[2]]

Ranked(seq) == [m \in Memories |-> IF \E i \in DOMAIN seq : seq[i] = m
                                   THEN CHOOSE i \in DOMAIN seq : seq[i] = m ELSE 0]

Episode(task, group, reward, rank, selected, created, echo) ==
  [task |-> task, group |-> group, reward |-> reward, rank |-> rank,
   selected |-> selected, created |-> created, replayed |-> {}, echo |-> echo]

\* The first run: two tasks with Memory 1 at hand, two Memories written.
FirstRuns(outcomes) ==
  {[generation |-> 0, before |-> 0, after |-> 2, input |-> {1}, output |-> {1, 2, 3},
    episodes |-> <<Episode(t1, g1, o[1], Ranked(<<1>>), {1}, {2}, {}),
                   Episode(t2, g1, o[2], Ranked(<<1>>), {}, {3}, {})>>,
    rounds |-> <<[number |-> 1, repository |-> {1, 2, 3}]>>] : o \in outcomes}

\* The second: two tasks with all Memories at hand, one replay.
SecondRuns(generations, groups, outcomes, choices, echoes) ==
  {[generation |-> n, before |-> 2, after |-> 4, input |-> {1, 2, 3}, output |-> {1, 2, 3},
    episodes |-> <<Episode(t3, g1, o[1], Ranked(<<2, 1, 3>>), c[1], {}, e),
                   [Episode(t4, g, o[2], Ranked(<<3, 2>>), c[2] \ {1}, {}, {})
                      EXCEPT !.replayed = {2}]>>,
    rounds |-> <<[number |-> 2, repository |-> {1, 2}]>>]
     : n \in generations, g \in groups, o \in outcomes, c \in choices, e \in echoes}

Both(first, second) == [r \in RunIds |-> IF r = r1 THEN first ELSE second]

Outcomes == {0, 1} \X {0, 1}

\* One of the builders is given the runs, the others nothing.
Alone(runs) ==
  {[b \in Builders |-> IF b = one THEN runs ELSE <<>>] : one \in Builders}

\* All that can be learnt from two later tasks, without faults.
Wide ==
  [source : {Both(f, s) : f \in FirstRuns({<<1, 0>>}),
               s \in SecondRuns({0}, {g1, g2}, Outcomes,
                                (SUBSET {1, 2, 3}) \X {{}, {2}}, {{}, {2}})},
   request : Alone(<<r1, r2>>), faults : {0}]

\* One history in which the later run compares Memory 2 under both choices.
Narrow(generations) ==
  {Both(f, s) : f \in FirstRuns({<<1, 0>>}),
                s \in SecondRuns(generations, {g1}, {<<1, 0>>}, {<<{1, 2}, {}>>}, {{}})}

Requests == {<<r1, r2>>, <<r2, r1>>, <<r2>>}

\* Two builders asked for one or other set of runs, one fault.
Faulty ==
  [source : Narrow({0, 1}), request : [Builders -> Requests], faults : {1}]

\* Runs as the program commits them: each batch has the next generation.
Consecutive ==
  [source : Narrow({1}), request : Alone(<<r1, r2>>), faults : {0}]

MCInstances == Wide \cup Faulty

Symmetry == Permutations(Builders)
=============================================================================
