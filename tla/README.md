# Formal models of tau3-evolver

This directory holds TLA+ models of `src/tau3_evolver`, the program that lets an
agent work on tau2 tasks, writes what it learned into a *Memory namespace*, uses
those Memories in later runs (the **fast loop**), and trains LoRA adapters from
the recorded runs by on-policy distillation (the **slow loop**). The models are
checked with TLC on small instances; theorems about them are proved with TLAPS
for every value of the constants. Paths below are relative to
`src/src/tau3_evolver/` unless they begin with `src/`.

`PROJECT.json` is the machine-readable index: components, runs, the mutant of
each property, the source lines of each definition, hazards, findings, theorems.

## 1. Inventory of the system

### Fast loop

| Component | State it keeps | Operations | Interacts with |
|---|---|---|---|
| **train run** (`execution/runner.py`, `batch.py`) | process memory; artifacts in a run directory of its own | resolve Memory, run the episodes, commit experience, maintenance at the batch boundary, commit the batch, publish | everything below; several runs may use one namespace at the same time |
| **memory execution state** (`execution/memory_state.py`, `memory_resolution.py`) | `batch_state.json`: committed batches, completed tasks | read the generation, compare and set it | train runs, slow-loop sources |
| **maintenance scheduler** (`fast_loop/maintenance.py`) | `maintenance_state.json`: completed rounds; a process lock | due rounds, run a round (page diagnostics, ask the policy, apply commands), record it | repository, train runs |
| **memory repository** (`memory/repository.py`, `json_store.py`, `operations.py`) | one JSON file per tier; published snapshots; a copy per process | add, list, snapshot, apply a batch of merge/delete commands, update embeddings | lock, maintenance, retrieval |
| **process lock** (`persistence/locking.py`) | an RLock, a depth, a file lock | reentrant enter and exit | repository, batch state, scheduler, embedding cache |
| **embedding cache** (`persistence/embedding_cache.py`) | JSON lines of vectors | get, put_many | retrieval |
| **retrieval and selection** (`memory/retrieval.py`, `fast_loop/selection.py`) | none | tier quotas, MMR ranking, limits of a selection | the agent of an episode |
| **decisions** (`fast_loop/decision.py`, `contracts.py`, `models/policy.py`) | none | generate, parse, one repair, fallback | act, select, write and maintain steps |
| **episodes** (`benchmarks/tau2/executor.py`, `agent.py`, `episodes.py`) | a thread pool, a registry lock, an agent per episode | run the tasks of a domain, agent turns, stamp proposals | tau2 (external simulator), decisions, retrieval |
| **artifacts** (`artifacts/`) | JSON lines per run | project events to rows, write `run.json` last | slow loop |

### Slow loop

| Component | State it keeps | Operations | Interacts with |
|---|---|---|---|
| **sources and evidence** (`slow_loop/source_runs.py`, `evidence.py`, `attribution.py`) | none | validate runs and their snapshots, attribute outcomes to Memories | run artifacts |
| **dataset and audit** (`slow_loop/dataset.py`, `audit.py`, `examples.py`, `leakage.py`) | a dataset directory, an audit file | build, publish, gate | trainer preflight |
| **OPD trainer** (`slow_loop/training.py`, `train_command.py`) | two logs, checkpoints, a manifest, random and optimizer state | train windows of examples, checkpoint, prune, resume | training suite |
| **training suite** (`slow_loop/training_suite.py`) | suite manifest, bundle manifest | train four capabilities one after another, restart, publish | OPD trainer as a child process |

Everything else (prompts, tau2 adapters, model loading, tensor arithmetic,
metrics, configuration, redaction, serving) either computes a value from its
input or calls into third-party code. `PROJECT.json` lists each with the reason.

### What is hard here

* **Interleaving of processes.** Nothing keeps two train runs off one namespace.
  Each takes locks around single reads and writes only, so ids are validated in
  one critical section and added in others, the due rounds are listed in one and
  worked off in others, and the generation is compared only after experience has
  been added.
* **Crashes between files.** A batch touches tier files, `maintenance_state.json`,
  `batch_state.json` and the run directory, in this order and without a common
  transaction; a batch of commands replaces one tier file after another; a
  training window touches two logs, a checkpoint directory and a manifest.
* **Resumption.** The slow loop promises to continue after an interruption with
  exactly the state of an uninterrupted run, including random numbers.
* **Two counters in one field.** `updated_round` is a batch generation when a
  Memory is written and a maintenance round when it is retired.
* **Attempts.** A task whose attempt raised is run again; agents in several threads
  share a retrieval lock while any of their calls may fail, and what the agent did
  reaches the result only through the messages of the last attempt.
* **Two programs for one answer.** What a builder derives from the source runs, the
  audit derives a second time before publication and again before training,
  when sources or rows may have changed.
* **Reentrancy.** The same lock is entered by depth within a thread, by RLock
  between threads and by a file lock between processes.

### What makes each component correct

* *train run*: batches commit serially; a committed batch is completely in the
  namespace and in its snapshot; a batch builds on its predecessors; each Memory
  has one writer; every run ends.
* *scheduler*: rounds complete once, in order, without gaps; only the lock holder
  is in a round; nothing retired comes back.
* *repository*: operations are atomic to each other, an
  interrupted batch of commands can be repeated, every call returns.
* *lock*: mutual exclusion; its books agree through nesting, failure and death.
* *sources and evidence*: what a completed run says of the namespace agrees with the
  snapshots it names, or disagrees for a known reason; a Memory has one creator.
* *trainer*: checkpoints and finished logs are those of an uninterrupted run;
  no row follows a torn one; the adapter is trained if interruptions end.
* *suite*: manifests never claim more than is there; one capability after
  another; one request per bundle; a published bundle is stable.
* *decisions and episodes*: every task of a batch is answered for; an episode is the
  whole of one attempt; what it cost adds up over repairs; what it teaches is within
  outcome and quota; every batch ends.
* *dataset*: builder and audit agree; only an audited dataset at its published place
  is trained on, and it is what the sources yield; a Memory is credited with later use
  only; hindsight is shown to the teacher alone; one dataset per build id.

## 2. Modules and how they correspond to the code

| Module | Models |
|---|---|
| `TrainBatch` | train runs on one namespace: `run_batch` from `resolve_memory` to the commit, with the round scheduler |
| `ExperienceLedger` | abstract specification of `TrainBatch`: an append-only ledger of batches and a frontier of rounds |
| `MCTrainBatch` | instances for TLC |
| `TrainBatchProofs` | theorems about `TrainBatch` |
| `SourceRuns` | what the runs of `TrainBatch` publish, and what the slow loop accepts of it |
| `MCSourceRuns` | instances for TLC |
| `SourceRunsProofs` | theorems about `SourceRuns`, on top of those about `TrainBatch` |
| `OPDTrainer` | one trainer directory under starts, failures and kills |
| `KindOutput` | what the suite may rely on of that directory; abstract specification of `OPDTrainer` and building block of `TrainingSuite` |
| `TrainingSuite`, `MCTrainingSuite` | the suite over four capabilities, composed of one `KindOutput` each |
| `TrainerProofs`, `SuiteProofs` | theorems about `OPDTrainer`, also that it implements `KindOutput`; theorems about `TrainingSuite` |
| `ProcessLock` | `ReentrantFileLock` |
| `MemoryCommands` | Memories and the commands on them: a pure module of operators |
| `MemoryRepository`, `MCMemoryRepository` | the repository used by threads of several processes; extends both |
| `AtomicRepository` | abstract specification of `MemoryRepository`: operations that happen at once |
| `RepositoryProofs` | theorems about `ProcessLock`, `MemoryCommands`, `MemoryRepository` |
| `Decisions` | what the fast loop makes of model outputs: limits, policy of outcomes, quotas, usage. Pure operators |
| `Episodes` | the tasks of one batch: pool, attempts, agents, retrieval lock, finalization, write decision; extends `Decisions` |
| `MCEpisodes`, `EpisodesProofs` | instance for TLC; theorems about `Episodes` |
| `Attribution` | evidence of source runs and the score of a Memory by it. Pure operators |
| `Examples` | the examples of the four capabilities; extends `Attribution`. Pure operators |
| `Audit` | loading source runs, deriving a dataset, and the audit of one; extends `Examples`. Pure operators |
| `DatasetBuild` | builders of one build id, their directories, faults, and the trainer's preflight; extends `Audit` |
| `DatasetStore` | abstract specification of `DatasetBuild`: at most one dataset per build id |
| `MCDataset`, `DatasetProofs` | instances for TLC; theorems about `DatasetBuild` |
| `Recursion` | induction and sums over finite sets, for the modules with theorems |

**`TrainBatch`.** A run is a value of `pc[r]` and local variables named like those
of `run_batch`. `memory`, `batchState` and `doneRounds` are durable. Each critical
section of the code (one lock acquisition) is one action: `ReadGeneration` and
`TakeInputSnapshot` are `resolve_memory`; `Execute` is the executor, which returns
proposals for every task or a failure; `ValidateId`, `AddMemory` are the two loops of
`commit_pending_experience`; `ListDueRounds`, `BeginRound`, `ReviewMemories`,
`ApplyDecision`, `RecordRound`, `FailRound` are the scheduler, which keeps its
lock during the review; `TakeOutputSnapshot`, `CommitState`, `PublishArtifacts`
end the batch. `Crash` may happen anywhere. An episode proposes a set of drafts within
its quota, among which one Memory may occur twice, with one text or two (`copy` tells equal
drafts apart). A variant of a Memory is all that two proposals are compared by; `TextOf` is the
part of it a stored Memory is compared by, without the retrieval text (`Conflicting`). What the
policy decides is a nondeterministic set of Memories to retire and of merged ones to
create, at most one for two retired: the guards of `apply_batch` decide whether it is applied. That
a merge takes what another merge of the same commands made is left out; so is a pinned snapshot
of another namespace. A snapshot is its content (it is addressed by content in the code).

**`SourceRuns`** adds to `TrainBatch` what a run remembers for its artifacts: the
snapshot a maintenance round will be documented with (`TakeMaintenanceSnapshot`, which
the code takes *before* it waits for the scheduler lock), what the round was then
shown, the record, and whether a round failed. `gaps` are the episodes whose candidates skip a rank
because a tool Memory was filtered out (`ExecuteDocumented`), and a record tells whether a command of the
round was a repetition, which `apply_batch` takes for a replay (`DocumentRound`). Each step of `SourceRuns` is a step of
`TrainBatch` with this bookkeeping, so its theorems carry over. `disturbed` is a
history variable: another run changed the tier files between the two snapshots
of this one. A finished run directory never changes, so loading and validating source runs are
operators on the state: `EpisodeAccepted` is what `_build_episode_record` checks of Memories,
namely ranks, proposals that are drafted twice, dispositions and both snapshots; `RecordAccepted`
is what `_build_maintenance_record` checks of a record, its commands and its snapshot; `OneLineage` is what
`_validate_run_set` demands of a set. `Flawless` names the checks that look at rows alone.
Choices and scores are the subject of `Audit` and `Attribution`; hashes, trajectories, payloads,
redaction and the layout of rows are left out.

**`OPDTrainer`.** The logs, the checkpoint directories and the manifest are durable;
weights, optimizer moments and the random state are *counted* (updates taken,
numbers drawn), which is enough to tell a run that resumed correctly from one
that did not. One action per durable effect of `train` and `_save_checkpoint`, also one for
each checkpoint that is pruned;
`Kill` and `KillInRow` may happen between any two of them and in the middle of a
line, `Fail` is an exception that the code cleans up after. `KindOutput` shows
the suite only whether logs, an unpublished leftover or a completion manifest
exist, and the latest step.

**`TrainingSuite`.** The loop of `main`, its two manifests, the preflight of the
child and the child as `KindOutput`. Requests stand for command lines that
differ in a field `_load_or_initialize_suite` compares.

**`MemoryRepository`.** A thread makes calls: open, add, list, snapshot, retrieve
(which fills in missing embeddings) and apply a batch of commands. Every entry
of the lock, `_reload`, the creation of each tier file, the decision and the
replacement of each tier file is a step; a process can die between any two.
`base` is a history variable: the content a thread found when it began, from
which the refinement mapping computes what an outside observer is entitled to
see. `update_status` is left out because nothing in the program calls it, and a
reader's own logic is in `List`.

**`Episodes`.** `execute` of the tau2 executor. A task is a value of `agent[t]`: the pc and
the `Tau3AgentState` of its current attempt. `WorldReplies`, `WorldEnds`, `WorldFails` are
Tau2, which is external: replies, rewards and failures are arbitrary.
`Begin` starts an attempt with a fresh state, in a pool of `Concurrency` threads;
`Lock`, `Retrieve`, `RetrieveFails` are the critical section of `_start`; `Select`, `Act` and
`Write` hear the first response of `generate_decision`, `Reselect`, `React`, `Rewrite` a valid
repair, `RefuseSelection`, `RefuseAction`, `FallBack`, `RefuseTainted` an invalid one. `Abandon` is
`run_domain` when an attempt raised: another attempt, an infrastructure error, or a
result left out. `Collect` to `Return` are the executor after the pool. A response is an
output, reduced to what the checks of `Decisions` look at, with its token usage, which
may be unknown. `heard` is a history variable, and so is the `attempt` that each
decision carries. The rule-made trajectory every train episode also proposes is
left out.

**`Attribution`, `Examples`, `Audit`.** A source run is a record of its snapshots, episodes and
rounds. `LedgerOf` is `build_evidence`; `Score` is `_score_memory` in integers: `Scale` is a common
multiple of the denominators that occur, and the confidence is taken in hundredths.
`SelectionExamples`, `ActionExamples`, `WritingExamples` and
`MaintenanceExamples` are the four builders with their caps, queues and pairs; `Derived` is
the directory with its manifest. `Passes` is `audit_dataset` with one operator for each of
its passes. The audit is translated from `audit.py`, not from the builder: that they
agree is a property.

**`DatasetBuild`.** `Begin` to `Finish` are the steps of `build_opd_dataset` of several builders of
one build id; `Preflight` is a trainer that is handed any directory that looks like a
dataset, a leftover included. `Fault`s are I/O errors that leave or remove the temporary
directory, crashes, deleted source runs, and `Alter`: rows of the published dataset are
changed with or without the hashes in step. Source runs are given; that runs of one
namespace document a round once is `RoundsAssumption`, and is proved of `TrainBatch`
(`NoRoundTwice`).

## 3. Runs

| Run | Instance | What it shows |
|---|---|---|
| `batch_safety` | two runs of one task, three ids with two texts, period 1, write quota 2, drafts that may be one Memory; symmetry in ids, texts and runs | serial generations, committed experience kept, one creator, rounds a prefix, nothing regresses, completed rounds never repeated |
| `batch_liveness` | runs of one and of two tasks, one id with three texts, two of which differ in the retrieval text only, fairness per run | every run ends; the system implements `ExperienceLedger`; committed experience kept, also where a stored Memory has another retrieval text |
| `batch_lag` | batches smaller than the period | **violation**: `RoundsCanRetire` |
| `source_safety` | a run of two episodes and a run of one, three ids with one text, write quota 2, period 1, gaps, doubled drafts, repeated commands; symmetry in ids | completed runs without these three faults are refused only for known reasons, one creator per Memory among the sources |
| `source_shared` | the same runs, one id, period 3 | **violation**: `SharedProposalsAreReplays` |
| `trainer` | 7 examples, windows of 2, 2 checkpoints kept, fairness | checkpoints and finished logs equal those of an uninterrupted run, no row after a torn one, eventual training, refinement of `KindOutput` |
| `trainer_restart` | the same | **violation**: `RestartContinues` |
| `suite` | four capabilities with 0, 1, 3 and 3 examples, two requests | honest manifests, order, one request per bundle, stability, eventual publication |
| `repository` | two threads of one process and one of another, four calls, two tiers, four ids, three batches of commands | lock discipline, retry, refused namespaces are empty, refinement of `AtomicRepository`, every call returns |
| `episodes` | three tasks, two threads, two turns, two attempts, up to two faults, with and without Memory and writing, fairness | every task answered, an episode is one attempt, usage adds up, learning within policy, every batch ends |
| `dataset` | two runs of two tasks, three Memories, two builders; either all outcomes and choices of the later run, or two builders with one fault; symmetry in builders | honest builds pass, what is trained on is derived from the sources, leftovers are refused, credit follows use, hindsight stays hidden, refinement of `DatasetStore` |
| `dataset_chain` | two runs as the program commits them, no faults | **violation**: `LaterUseIsTaught` |

### Bounds and why they are enough

* Two runs: every property of `TrainBatch` relates at most two runs (two
  validate the same id, two hold overlapping due lists, one loses the generation
  to the other), and a third could only repeat what the second did. Period 1
  makes each task trigger a round; runs of unequal size reach rounds the other
  does not know of. Three ids are what a merge of two Memories into one that
  another run is about to write needs. The safety run is reduced by symmetry,
  which is sound there because it checks no liveness; `batch_liveness` uses none.
* In `source_safety` the first run has two episodes, which is what two proposals of
  one Memory in a batch need, and two due rounds, so that the second is documented
  after the first has changed the namespace; three ids allow a merge. One text
  is enough: runs whose texts differ end in `ValidateId`, which `batch_safety` checks
  with two, and `RefusalsAreExplained` is proved for any number.
  Two state constraints bound the run; the theorems have no such bound. Only the first run may
  be pinned to an older snapshot, fail a round or die before it commits (`SecondUntroubled`). An episode
  drafts one Memory, perhaps twice, and only the first run has one kind of fault that shows in the
  rows (`OneFault`).
* Seven examples in windows of two have a short last window and four
  checkpoints, of which two are pruned, so a run can be killed before, between
  and after prunings. The state space is finite without a bound on restarts.
* Four capabilities are the four of the code; 0, 1 and 3 examples give schedules
  without a step, with one, and with several, and a tie in the order.
* Four calls let two threads of one process and one of another overlap while a
  fourth meets what a crash left. The three batches merge into an id another
  thread may add, retire what a batch itself created, and conflict with each
  other; two tiers are what a crash between two files takes. Bound: `MaxCalls`.
* `Episodes`: two tasks are what a shared lock and an order of results need, a third has to
  wait for a thread. On the first task the model may answer anything (a valid, an invalid, a
  forbidden output, with or without usage), on the others it does as it is told. `MaxSteps` is 2, so that the
  budget is met and missed; `Retries` is 1, so that an attempt is repeated and given up
  for good; `Concurrency` is 2; two faults let a retry fail as well. A tool Memory
  ranks before another one and fits the task or not. Drafts exceed the quota of
  tips, which is 2, or the policy of a failure.
* `DatasetBuild`: two runs of two tasks hold what attribution compares: a creator, and two later
  episodes of one group of which one took the Memory. `Wide` instances go through all
  outcomes, groups, choices and echoes of the later run; `Faulty` ones through requests in
  both orders, of one run or two, with one fault anywhere. The instances include pairs
  of runs with *equal* memory generation, which is what `load_source_runs` demands;
  committed runs always differ in it (`SerialGenerations`), which `dataset_chain` and section 5
  are about. The theorems hold of any instances.

### Fairness

* `TrainBatch`: weak fairness of each run's own steps. A live process goes on;
  whoever holds the scheduler lock releases it on every path, and a dead process
  loses it to the operating system. Crashes are never assumed to happen or not.
* `OPDTrainer`: weak fairness of the trainer's work, including that whoever wants
  the adapter starts it again. The property allows interruptions to go on
  forever, and allows the two documented dead ends of section 5.
* `TrainingSuite`: the same, and strong fairness of starting it with the command
  the directory belongs to: wrong commands may be tried any number of times
  between two right ones.
* `MemoryRepository`: as long as some thread can go on, one does. Nothing is assumed
  of which one the lock is given to. Calls are bounded, so this is enough for
  every call to return.
* `Episodes`: weak fairness of the executor and of each task. The threads of the pool
  run, a request to the model has a timeout, and Tau2 bounds the steps of a
  conversation. Whether a call fails is left open.
* `SourceRuns` and `DatasetBuild` state none: only safety is asked of them.

## 4. Proofs

`Recursion` has what several components need and the library does not offer: the induction
theorems of the library take an operator as a parameter, which the provers cannot
instantiate. Here a property is a *set* (`Induction`: `0 \in P` and `n \in P => n + 1 \in P` give
`Nat \subseteq P`; `FiniteInduction` over the subsets of a finite set), which they can. From these,
functions defined by taking one element after another out of a finite set exist
(`RecursionExists`), and a sum of integers (`SumsExist`, what `MapThenSumSet` computes) does not
depend on which element is taken first (`SumTakesOut`), agrees on equal summands (`SumsAgree`),
and grows by what is added (`SumAdds`).

`TrainBatchProofs` (constants as in `TrainBatch`, no bound on runs, ids or sizes):

* `TypeCorrect`: `Spec => []TypeOK`.
* `RoundsAreAPrefix`, `NoRoundTwice`. `RoundsArePrefix` is not inductive: that the
  round a run records is the one after the frontier follows only from what the
  run found when it took the lock. `ScheduleIInv` adds the
  typing, that exactly the lock holder is in a round (`LockExclusive`), that what a
  run has left to add is what it proposed (`TodoProposed`), and `Frontier`: the completed rounds
  are `1..n`, every due list is an interval up to the latest round of its run, and the
  holder's begins with `n + 1`.
* `GenerationsAreSerial`: with `GenerationInv`, which counts the committed runs with
  the finite-set theorems of the library. `Runs` may be infinite: that only
  finitely many have committed is part of the invariant.
* `NothingEverRegresses`: one step per action; `StepKeepsMemory` and `MemoryKept` say
  what a step may do to the tier files and are used again below.
* `CommittedExperienceIsKept`: `ExperienceInv` says at each stage of a run what of its
  proposals is already known to agree with the namespace (validated ids agree,
  added ids are there, everything is there from the rounds on), and is kept by
  other runs' steps because texts of known ids never change.

* `OneCreatorEach`: `CreatorInv` says at each stage what a run found missing (`fresh`), has
  added (`created`) and has left to add; a step adds to `created` only an id that is not stored.
* `BatchesBuildOnPredecessors`: `PredecessorInv` relates the generation a run has read to
  the commits there were at that moment; `StepOnSnapshot` says what a step may do to
  what a run has read.
* `RunsImplementLedger`: the refinement of `ExperienceLedger`. A commit is an append only if
  what the run publishes holds everything published before, and the run took its snapshot
  while others could still commit. `LedgerInv` says why that is safe: a snapshot holds what was
  published by each generation below the one the run has *read*, since the
  generation is read before and ids never go away; whoever commits in between takes the
  generation, and the run loses it instead. Every generation up to the latest has a
  run, so the ledger is a sequence (`AppendedFunction`). TLC checked `LedgerInv` on the instance of the
  safety run before it was proved.
* `RunsComeToAnEnd` (for finite `Ids`): each step leads to a later stage of `run_batch` or, in the
  loops, leaves fewer episodes, Memories or due rounds, and other runs leave that alone. What
  remains of `EveryRunEnds` is that a run that can go on does.

`SourceRunsProofs` extends `TrainBatchProofs`. `DocumentedRunsAreRuns` (every step of
`SourceRuns` is one of `TrainBatch` or a stutter) transfers all of the above.

* `ArtifactsTyped`: needs that a round under way has a snapshot (`SourceTyped`).
* `CreditIsGivenOnce`: the first episode of a run that proposes a Memory creates it; it
  exists because the episodes are ordered (`LeastOfNats`), and runs are kept apart by
  `CreatorInv`.
* `NoSourceSetOfTwo`: from `SerialGenerations`.
* `RefusalsAreExplained`, of runs that are `Flawless`: `EvidenceInv` holds of each run that is neither disturbed nor
  pinned: until it adds, the namespace *is* its input snapshot, so `fresh` is exactly
  what that lacks; the snapshot of a round is what the round reviews. Other runs keep it because a
  write of theirs would disturb (`OthersStayFaithful`); the run's own steps are split
  into those before maintenance and the rest. `AgreeInv` adds that validated episodes
  agree on the text of an id, so the text that was stored is the one each of them proposed.

`RepositoryProofs`:

* `LockExcludes`: mutual exclusion of the lock, whatever its users do; `LockInv` is the
  typing of the lock and the agreement of its books (`LockConsistent`).
* `LockIsDisciplined`: every step of the repository is a step of the lock or leaves it
  alone (`StepIsLockStep`); `Stages` ties the program counter to the lock, and `Nested`
  carries the one fact that is not visible there: while `apply_batch` lists, the
  depth is at least two, so leaving the list does not release the lock.
* `RefusedIsEmpty`: `NamespaceInv` says that only a complete namespace is written to;
  creating needs the lock (two creators would disagree on which files are
  missing), and the tier chosen next exists because the order of tiers is
  well-founded (`FirstIsMember`).
* `RetriesComplete`, from `RepositoryInv`: besides the two above, `StatesInv` (what threads and processes
  hold are states of Memories) and `ProgressInv` (what a thread computes with is what the
  files hold, and halfway through its writes the files are the old state in the tiers that are
  left and the new one in the others). The rest is about the pure operators:
  `OneCommandRetries` for a command, whichever tiers of its effect reached the disk, and an
  induction along the batch, command by command, that keeps a mixture of old and
  new tiers a mixture.
* `RepositoryIsAtomic`: the refinement of `AtomicRepository`. From `ProgressInv` an unfinished
  operation is invisible to whoever gets the lock next, its last write is the step at
  which it happens, and a death leaves a mixture of what it found and what it
  wanted. At most one thread writes, so `Visible` names it.
* `CallsComeToAnEnd` (for finite `Tiers`): each step of a call leads to a later phase, creates or replaces
  one of the files that are left, or leaves a level of the lock. That no other thread gives it
  more to do is mutual exclusion again: files and depth change by the hand of the thread
  inside only (`OthersNotMoved`).

`EpisodesProofs`. The properties are not inductive: what an episode is made of was
collected by a task long before. `IInv` has four parts: `Typed`; `Sound(t)` for each task,
which ties the pc of the agent to its attempt, its evidence, its budget, the lock and the
simulation; `Answered`, which holds what each outcome says against the task at its
place in the request; and `Staged`, which ties the executor to its tasks and the
writer to a task it may ask about.

* `TypeCorrect`, `EveryTaskAnswered`, `EpisodesAreOneAttempt`, `LearningWithinPolicy` (with the lemma
  `QuotaBounds`: what is kept of a tier is never more than its quota, by the cardinality
  theorems).
* `UsageIsAddedUp`: an episode is added up at the end, over a set of audits, while `heard` was
  counted response by response. `HeardInv` relates the two at each stage of an attempt: what a
  task has heard is the tally of the audits its agent carries (`Tally`), plus the
  response that waits for its repair (`Hears`), and, for the task the executor asks about, the
  write decision. A response adds to the tally what it adds to the count (`TallyOfOneMore`,
  from `SumAdds`), and one unknown usage makes both unknown.
* `BatchesComeToAnEnd`: in the order of attempts, turns and stages of a turn for a task, and of phases,
  answers and requests to the writer for the executor, each step leaves one of them
  less and no other more. What remains of `EveryBatchEnds` is that threads run.

`DatasetProofs`, with `IInv == TypeOK /\ Shaped /\ Asked /\ Honest /\ Formed`: the sources and
requests are those of an instance (`Asked`), what a builder holds or has written is what
the original sources yield (`Honest`), and the published directory keeps its shape and
request whatever is altered (`Formed`).

* `HonestBuildsAlwaysPass` goes through the passes of the audit one by one and shows that
  each accepts what the builder derived. `AuditedIsAlwaysDerived`, `LeftoversAreAlwaysRefused` and
  `HindsightAlwaysHidden` are about the preflight: they hold because the audit compares with
  what the sources yield, not because nobody altered anything.
* `NoWritingFromOneRun`: a Memory a run creates is in no snapshot its own episodes were offered
  Memories from, so a dataset of a single run has no `write` examples.
* `CreditAlwaysFollowsUse`: if no two tasks of one group differ in outcome, of which one took a Memory
  and the other passed it, each group contributes zero (`NothingToCompare`), a sum of
  zeros is zero (`SumOfZeros`), and the score tells nothing; so there is such a pair behind
  every credit, and both of its tasks are later than the writing.
* `BuildingImplementsStore`: the refinement, step by step.

`TrainerProofs`. That a checkpoint is the one of an uninterrupted run says nothing of the logs
and the process it is made from, so it is not inductive. `IInv == FilesInv /\ ProcessInv`:

* `FilesInv`: both logs are prefixes of the log of an uninterrupted run (`ExactLog`); a
  published checkpoint has ended a window (`Progress`) and holds the policy of that run
  (`PolicyAt`); a finished directory has all the rows.
* `ProcessInv`: at each stage, how far the logs are ahead of the latest checkpoint, and that
  the policy in memory is the one an uninterrupted run has at this example. Loading a
  checkpoint establishes it, because the logs have been cut back before; only a process that
  has restored both appends, which is why no row comes after a torn one.
* `TrainerCheckpoints`, `TrainerLogs`, `TrainerRowsWhole` follow. The arithmetic of windows is in `Quotient`
  and `WindowDone`; that there is a latest checkpoint at all is `HighestOf`, from the
  well-founded order of naturals, because neither `Total` nor `Keep` is bounded.
* `TrainerImplementsKindOutput`: `Shows` says that a step is one of `KindOutput` under the mapping of
  `OPDTrainer`; one lemma for each group of actions. The initial and the next-state part
  of `KindOutput` are implemented; it has no fairness.

`SuiteProofs`, with the `KindOutput` of each capability as the trainer's part of a step:

* `FilesInv`: directories, manifests and commands as far as they are on disk, whoever wrote
  them. `ProcessInv`: every capability that the loop has left behind is complete on disk and
  in the manifest, which names the running command.
* `SuiteManifestsHonest`, `SuiteOneAfterAnother`, `SuiteOneRequest`, `SuiteBundleStable`. A manifest stays honest
  because a complete directory is never begun again (`FilesGrow`, `CompletedStay`); the order
  of the capabilities holds because the loop takes the smallest one left, which exists
  for any number of them (`CurrentLeads`).

The proofs assume the named assumptions of the modules only (`BatchSizeAssumption`,
`PeriodAssumption`, `NoneAssumption`, `ProcessOfAssumption`, `OrderAssumption`, `BatchesAssumption`,
`RequestAssumption`, `RoundsAssumption`, ...), which TLC evaluates in the runs. Two theorems have a
hypothesis of their own, that `Ids` or `Tiers` is finite, which holds of any execution.

Left to TLC are the liveness properties: `EveryRunEnds`, `EventuallyTrained`,
`EventuallyPublished`, `EveryCallReturns`, `EveryBatchEnds`. They rest on weak fairness, that is on
`ENABLED`, which the prover does not handle. `RunsComeToAnEnd`, `CallsComeToAnEnd` and
`BatchesComeToAnEnd` are the part of three of them that needs none: that nothing goes on forever. That
nothing gets stuck before its end is TLC's part (deadlock and liveness). Every
safety property, every action property and every refinement that a passing run checks is proved.

## 5. Disagreements between code and documentation

Each of these is a run that TLC ends with a counterexample.

1. **Rounds behind generations** (`batch_lag`). A new Memory is stamped with its
   generation; `apply_batch` refuses to move the stamp back to a smaller round
   (`memory/operations.py:293`). With batches smaller than the period, a round cannot
   retire what later generations wrote, although `src/README.md:273` has it do so.
2. **Restart in the first window** (`trainer_restart`). An interruption before the first
   checkpoint leaves logs that `_require_fresh_output` refuses from then on. For a
   capability without examples the window is as short as the write of its only
   checkpoint, and step 0 cannot be resumed from either (`Resumable`).
3. **Replays within a batch** (`source_shared`). A Memory that two episodes of one batch
   propose is created by the first and replayed in the second (`execution/batch.py:329`, and
   `src/tests/unit/execution/test_batch_commit.py:52`). `slow_loop/evidence.py:464` takes a replayed
   Memory to be one of the input snapshot and refuses the completed run.
4. **Write data** (`dataset_chain`). The documents make the write data from what later tasks
   did with a Memory, and one dataset from several consecutive runs
   (`src/docs/four-lora-opd-training.md:33`, `src/README.md:153`,
   `src/docs/evaluation_protocol.md:94`). Two facts together leave nothing of it:
   `_validate_run_set` (`slow_loop/source_runs.py:461`) wants one memory generation for all runs of a
   set, and `commit_memory_state` gives every batch its own, so that a set of two
   is always refused (`NoSourceSetOfTwo`); and a dataset of one run has no write
   examples (`NoWritingFromOneRun`). The suite then refuses a capability without
   examples unless it is started with `--debug`.

Met while modelling, and not checked as runs:

* A trainer killed between writing a checkpoint's manifest and renaming its directory
  leaves `.step-XXXXXXXX.tmp-...`, which `_latest_checkpoint`
  (`slow_loop/training_suite.py:243-250`) cannot parse. `TrainingSuite` has it as a dead end that
  `EventuallyPublished` names.
* `fast_loop/maintenance.py:430` records a round before `execution/batch.py:231` counts the tasks
  that made it due. If that batch then loses its generation or dies, a smaller batch meets
  "maintenance state contains future completed rounds" (`fast_loop/maintenance.py:669`) and
  aborts with its experience already in the namespace.
* `filter_tool_memory_candidates` (`benchmarks/tau2/agent.py:260`) keeps the ranks of the
  retrieval, so a tool Memory that is filtered out before another candidate leaves a gap,
  and the slow loop, which counts candidates from one, refuses the row (`slow_loop/evidence.py:563`). A
  model that drafts one Memory twice in a decision has the same effect (`slow_loop/evidence.py:441`), and so has
  one that retires a Memory twice in a round (`slow_loop/evidence.py:698`), which `apply_batch` takes for a replay
  (`memory/operations.py:132`). Either way the run completes and is useless as a source. `SourceRuns`
  has all three; `Flawless` excludes them from `RefusalsExplained`.
* `src/docs/superpowers/specs/2026-07-25-memory-tier-boundary-enhancement-design.md:575` says that
  an invalid write fails closed; the code falls back to an empty decision and keeps the
  episode (`FallBack`), except for the two kinds `RefuseTainted` stands for.

Two runs that overlap may also both complete and yet be refused as sources: what
one of them replays was added by the other after its input snapshot. Nothing says
they should not be, so this is part of `RefusalsExplained` and no disagreement.

Not a disagreement, but worth knowing: experience is added, and maintenance
applied, before the generation is compared, so a run that loses the race has
changed the namespace although its batch does not count. The next batch that
proposes the same texts takes them for replays.

## 6. Order of work and what could follow

The modules were written most important first: the shared namespace (`TrainBatch`), the
resumable slow loop (`OPDTrainer`, `TrainingSuite`), the repository below both, the way from
runs to evidence (`SourceRuns`), the dataset (`Attribution` to `DatasetBuild`), and the episodes
(`Decisions`, `Episodes`).

What could follow: the ranking of a retrieval with rational similarities; the commands of
maintenance page by page; a measure for the trainer and the suite like those of runs, calls and
batches.

## 7. Not modelled, and why

* Test mode, cross-domain sources, credential checks: they do not write to a
  namespace.
* Contents of prompts, payloads, messages and artifacts: the properties do not
  depend on their wording; a text is a model value.
* Ranking of a retrieval (quotas by largest remainder, MMR): floating-point arithmetic on
  vectors, without state. An offer is any ranking of Memories. The embedding cache stores
  what can be computed again.
* Tier contracts, prompts, the action codec beyond valid or not, task groups, the search
  for leaked strings, tokenization: functions of their input; what comes out of them is
  an arbitrary value in the models, except for the echo of a Memory that the examples
  are audited for.
* The content a trainer loads *after* its preflight: the code reads the files again
  without comparing hashes, so nothing holds of a file replaced in between.
* Tensor arithmetic, model loading, tau2 and the model server: third-party code;
  the models only use that it returns or fails.
* A child that outlives its suite, and two suites in one directory: listed as
  hazards in `PROJECT.json`.
* The operating system's buffers: `write_bytes_atomic` syncs before it renames and
  the logs are synced row by row, so an effect of a step is durable when the
  next step begins, and a file replaced as a whole is the old or the new one.

## 8. Running

    tlc -workers 2 -config MCTrainBatch_safety.cfg MCTrainBatch
    tlapm Recursion.tla
    tlapm TrainBatchProofs.tla
    tlapm RepositoryProofs.tla
    tlapm SourceRunsProofs.tla
    tlapm EpisodesProofs.tla
    tlapm DatasetProofs.tla
    tlapm TrainerProofs.tla
    tlapm SuiteProofs.tla
