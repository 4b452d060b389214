------------------------------- MODULE Audit -------------------------------
(***************************************************************************)
(* From source runs to a dataset, and back: what the builder derives       *)
(* (src/tau3_evolver/slow_loop/source_runs.py, evidence.py and the pure    *)
(* part of dataset.py) and what the audit demands of a directory           *)
(* (audit.py).  The audit trusts no row: it loads the source runs again    *)
(* and recomputes evidence, scores and examples.                           *)
(*                                                                         *)
(* A dataset is a record: manifest and rows.  A file stands for its        *)
(* content, so that a SHA-256 in the manifest is the content it was taken  *)
(* of.  A snapshot is the set of Memories it holds.                        *)
(***************************************************************************)
EXTENDS Examples

CONSTANT RunIds

\* A published directory of a completed train run, with its two snapshots.
SourceRun ==
  [generation : Nat, before : Nat, after : Nat,
   input : SUBSET Memories, output : SUBSET Memories,
   episodes : Seq(EpisodeEvidence), rounds : Seq(MaintenanceEvidence)]

-----------------------------------------------------------------------------
(* load_source_runs *)

\* A run lists each task once.
TasksDistinct(run) ==
  \A i, j \in DOMAIN run.episodes : i # j => run.episodes[i].task # run.episodes[j].task

TasksOf(source, r) == {source[r].episodes[i].task : i \in DOMAIN source[r].episodes}

\* Policy and runtime are the same for all runs here; the generation is not.
OneLineage(source, request) ==
  \A k, l \in DOMAIN request : source[request[k]].generation = source[request[l]].generation

\* A request lists runs, each once, that are there, share no task and have one
\* lineage.  In which order they ran is not asked.
Loadable(source, request) ==
  /\ request # <<>>
  /\ \A k \in DOMAIN request :
       source[request[k]] # None /\ TasksDistinct(source[request[k]])
  /\ \A k, l \in DOMAIN request : k # l =>
       /\ request[k] # request[l]
       /\ TasksOf(source, request[k]) \cap TasksOf(source, request[l]) = {}
  /\ OneLineage(source, request)

-----------------------------------------------------------------------------
(* build_evidence *)

\* What an episode claims agrees with the two snapshots of its run.
Vouched(run, episode) ==
  /\ Candidates(episode) \subseteq run.input
  /\ episode.selected \subseteq Candidates(episode)
  /\ episode.replayed \subseteq run.input
  /\ episode.created \cap run.input = {}
  /\ Proposed(episode) \subseteq run.output

EpisodePlaces(source, request) ==
  UNION {{<<k, i>> : i \in DOMAIN source[request[k]].episodes} : k \in DOMAIN request}

RoundPlaces(source, request) ==
  UNION {{<<k, i>> : i \in DOMAIN source[request[k]].rounds} : k \in DOMAIN request}

LedgerOf(source, request) ==
  [episodes |-> [p \in EpisodePlaces(source, request) |->
                   source[request[p[1]]].episodes[p[2]]],
   maintenance |-> [p \in RoundPlaces(source, request) |->
                      source[request[p[1]]].rounds[p[2]]]]

\* Whether there is evidence at all: a single bad row refuses the set.
Buildable(source, request) ==
  /\ Loadable(source, request)
  /\ \A k \in DOMAIN request : \A i \in DOMAIN source[request[k]].episodes :
       Vouched(source[request[k]], source[request[k]].episodes[i])

-----------------------------------------------------------------------------
(* _materialize, _write_artifacts and _build_manifest *)

\* Scores first, then examples from the same ledger.
RowsOf(ledger) ==
  LET scores == Scores(ledger)
  IN  [evidence |-> ledger, scores |-> scores, examples |-> AllExamples(ledger, scores)]

\* compute_memory_scores or _make_example may refuse what was loaded.
Derivable(source, request) ==
  /\ Buildable(source, request)
  /\ Consistent(LedgerOf(source, request))
  /\ Presentable(LedgerOf(source, request), Scores(LedgerOf(source, request)))

Counts(rows) ==
  [episodes |-> Cardinality(DOMAIN rows.evidence.episodes),
   maintenance |-> Cardinality(DOMAIN rows.evidence.maintenance),
   scores |-> Cardinality(DOMAIN rows.scores),
   examples |-> [kind \in Kinds |-> Cardinality(rows.examples[kind])]]

SourceRows(source, request) ==
  [k \in DOMAIN request |->
     [run |-> request[k], tasks |-> TasksOf(source, request[k]),
      before |-> source[request[k]].before, after |-> source[request[k]].after,
      input |-> source[request[k]].input, output |-> source[request[k]].output]]

\* Input of the first run, then the output of each.
SnapshotChain(rows) ==
  [k \in 0..Len(rows) |-> IF k = 0 THEN rows[1].input ELSE rows[k].output]

\* (mutant: the chain starts with the output of the first run)
DerivedWithoutInput(source, request, place) ==
  LET rows == RowsOf(LedgerOf(source, request))
      sources == SourceRows(source, request)
  IN  [rows |-> rows,
       manifest |-> [place |-> place, request |-> request, sources |-> sources,
                     chain |-> [k \in 1..Len(sources) |-> sources[k].output],
                     artifacts |-> rows, counts |-> Counts(rows)]]

\* The dataset of a request.  It says where it will be published (place).
Derived(source, request, place) ==
  LET rows == RowsOf(LedgerOf(source, request))
      sources == SourceRows(source, request)
  IN  [rows |-> rows,
       manifest |-> [place |-> place, request |-> request, sources |-> sources,
                     chain |-> SnapshotChain(sources),
                     artifacts |-> rows, counts |-> Counts(rows)]]

-----------------------------------------------------------------------------
(* audit_dataset: one operator per group of checks *)

\* The rows are those the manifest has the hashes and line counts of.
Intact(d) == d.rows = d.manifest.artifacts

\* The runs follow each other without a gap.
Continuous(sources) ==
  \A k \in 1..(Len(sources) - 1) : sources[k].after = sources[k + 1].before

LineageAccepted(d) ==
  /\ Continuous(d.manifest.sources)
  /\ d.manifest.chain = SnapshotChain(d.manifest.sources)

\* One row per task, and the tasks are those of the source runs.
EvidenceAccepted(d) ==
  LET episodes == d.rows.evidence.episodes
  IN  /\ \A p, q \in DOMAIN episodes : p # q => episodes[p].task # episodes[q].task
      /\ {episodes[p].task : p \in DOMAIN episodes}
           = UNION {d.manifest.sources[k].tasks : k \in DOMAIN d.manifest.sources}

\* (mutant: any directory is taken for a place under the project root)
SourcesUnlocated(d, source, located) ==
  /\ Buildable(source, d.manifest.request)
  /\ d.manifest.sources = SourceRows(source, d.manifest.request)
  /\ d.rows.evidence = LedgerOf(source, d.manifest.request)

\* The source runs are found, from the project root if it is given (located) or
\* else if the directory lies where its manifest says, and tell the same again.
SourcesAccepted(d, source, located) ==
  /\ located
  /\ Buildable(source, d.manifest.request)
  /\ d.manifest.sources = SourceRows(source, d.manifest.request)
  /\ d.rows.evidence = LedgerOf(source, d.manifest.request)

ScoresAccepted(d) ==
  LET evidence == d.rows.evidence
      scores == d.rows.scores
  IN  /\ \A m \in DOMAIN scores :
           /\ scores[m].sources \subseteq Positions(evidence)
           /\ scores[m].creator # None =>
                \A p \in scores[m].sources : Precedes(scores[m].creator, p)
      /\ Consistent(evidence)
      /\ scores = Scores(evidence)

\* (mutant: stored examples are taken as they are)
ExamplesTrusted(d) ==
  \A kind \in Kinds : \A x \in d.rows.examples[kind] : WithinBounds(x)

\* What two samples must not have in common.
LogicalKey(evidence, x) ==
  IF x.kind = "maint" THEN <<x.kind, evidence.maintenance[x.unit].number>>
  ELSE <<x.kind, evidence.episodes[x.unit].task>>

UnitsKnown(evidence, examples) ==
  \A kind \in Kinds : \A x \in examples[kind] :
    x.unit \in IF kind = "maint" THEN Rounds(evidence) ELSE Positions(evidence)

ExamplesAccepted(d) ==
  LET evidence == d.rows.evidence
      examples == d.rows.examples
  IN  /\ UnitsKnown(evidence, examples)
      /\ \A kind \in Kinds : \A x \in examples[kind] :
           /\ x.kind = kind /\ WithinBounds(x)
           /\ \A y \in examples[kind] :
                x # y => LogicalKey(evidence, x) # LogicalKey(evidence, y)
      /\ {x.unit : x \in examples["act"]} = Successful(evidence)
      /\ examples = AllExamples(evidence, d.rows.scores)

CountsAccepted(d) == d.manifest.counts = Counts(d.rows)

Passes(d, source, located) ==
  /\ Intact(d)
  /\ LineageAccepted(d)
  /\ EvidenceAccepted(d)
  /\ SourcesAccepted(d, source, located)
  /\ ScoresAccepted(d)
  /\ ExamplesAccepted(d)
  /\ CountsAccepted(d)
=============================================================================
