----------------------------- MODULE SourceRuns -----------------------------
(***************************************************************************)
(* What training runs publish, and what the slow loop accepts of it        *)
(* (src/tau3_evolver/artifacts/episodes.py and maintenance.py,             *)
(* slow_loop/source_runs.py, slow_loop/evidence.py).                       *)
(*                                                                         *)
(* TrainBatch is extended by what a run remembers for its artifacts: the   *)
(* snapshot each maintenance round is documented with, taken before the    *)
(* scheduler lock, what the round was shown, and its commands.  A directory *)
(* of a finished run never changes, so loading source runs and building    *)
(* evidence from them are operators on the finished runs, not steps.       *)
(*                                                                         *)
(* Hashes, trajectories, payloads, redaction and the layout of rows are    *)
(* abstracted.  What is left of the validation are its checks on Memories: *)
(* those that look at the rows and commands of a run alone (Flawless), and *)
(* those that relate them to what the namespace held when it was running.  *)
(***************************************************************************)
EXTENDS TrainBatch

VARIABLES
  gaps,      \* episodes of the run whose candidates skip a rank
  view,      \* snapshot the coming round will be documented with
  shown,     \* content of the repository when the round was reviewed
  records,   \* maintenance records of the run
  failures,  \* whether a round of the run failed
  disturbed  \* history: another run wrote while this one was running

artifacts == <<gaps, view, shown, records, failures, disturbed>>

\* repeats: a command retires what an earlier one of the round has retired.
MaintenanceRecords ==
  [round : Nat, view : Contents, shown : Contents, decision : Decisions, repeats : BOOLEAN]

\* Between a run's own two snapshots of the namespace.
Running == {"execute", "discard", "load", "validate", "add", "rounds",
            "review", "apply", "record"}

SourceInit ==
  /\ Init
  /\ gaps = [r \in Runs |-> {}]
  /\ view = [r \in Runs |-> None]
  /\ shown = [r \in Runs |-> [i \in Ids |-> None]]
  /\ records = [r \in Runs |-> {}]
  /\ failures = [r \in Runs |-> FALSE]
  /\ disturbed = [r \in Runs |-> FALSE]

-----------------------------------------------------------------------------
(* Candidates *)

\* The agents rank the active Memories of the input snapshot and then drop those
\* their tools do not fit (filter_tool_memory_candidates), which leaves a gap in
\* the ranks if one of a lower rank stays.
MayGap(r) == \E i, j \in Active(input[r]) : i # j

ExecuteDocumented(r) ==
  /\ Execute(r)
  /\ \E dropped \in SUBSET Episodes(r) :
       /\ dropped # {} => MayGap(r) /\ pc'[r] = "load"
       /\ gaps' = [gaps EXCEPT ![r] = dropped]
  /\ UNCHANGED <<view, shown, records, failures>>

-----------------------------------------------------------------------------
(* A round of maintenance and its record *)

\* run_batch takes the snapshot, then run_due_maintenance waits for the lock.
TakeMaintenanceSnapshot(r) ==
  /\ pc[r] = "rounds" /\ due[r] # {} /\ view[r] = None
  /\ view' = [view EXCEPT ![r] = Reloaded(r)]
  /\ UNCHANGED <<vars, gaps, shown, records, failures>>

\* A round that was skipped leaves no record; one that is refused for rounds
\* of the future is a failure of the run.
BeginDocumentedRound(r) ==
  /\ view[r] # None
  /\ BeginRound(r)
  /\ view' = IF pc'[r] = "review" THEN view ELSE [view EXCEPT ![r] = None]
  /\ failures' = [failures EXCEPT ![r] = @ \/ FutureRounds(NextRound(r)) # {}]
  /\ UNCHANGED <<gaps, shown, records>>

\* The diagnostics list active Memories as they are now.
ReviewShown(r) ==
  /\ ReviewMemories(r)
  /\ shown' = [shown EXCEPT ![r] =
                 [i \in Ids |-> IF i \in Active(memory) THEN memory[i] ELSE None]]
  /\ UNCHANGED <<gaps, view, records, failures>>

FailDocumentedRound(r) ==
  /\ FailRound(r)
  /\ view' = [view EXCEPT ![r] = None]
  /\ failures' = [failures EXCEPT ![r] = TRUE]
  /\ UNCHANGED <<gaps, shown, records>>

\* (mutant: one snapshot documents all rounds of the batch)
ViewKept(r) == view

\* The next round takes a snapshot of its own.
ViewAfter(r) == [view EXCEPT ![r] = None]

\* build_completed_maintenance: the record of the lifecycle.
Record(r, b) == [round |-> NextRound(r), view |-> view[r], shown |-> shown[r],
                 decision |-> decision[r], repeats |-> b]

\* apply_batch takes a repeated command for a replay, so that the repetition
\* changes nothing but the record.
DocumentRound(r) ==
  /\ RecordRound(r)
  /\ \E b \in BOOLEAN :
       /\ b => decision[r].retire # {}
       /\ records' = [records EXCEPT ![r] = @ \cup {Record(r, b)}]
  /\ view' = ViewAfter(r)
  /\ UNCHANGED <<gaps, shown, failures>>

CrashSource(r) ==
  /\ Crash(r)
  /\ gaps' = [gaps EXCEPT ![r] = {}]
  /\ view' = [view EXCEPT ![r] = None]
  /\ UNCHANGED <<shown, records, failures>>

-----------------------------------------------------------------------------
SourceStep(r) ==
  \/ ExecuteDocumented(r) \/ TakeMaintenanceSnapshot(r)
  \/ BeginDocumentedRound(r) \/ ReviewShown(r)
  \/ FailDocumentedRound(r) \/ DocumentRound(r)
  \/ CrashSource(r)
  \/ /\ \/ ReadGeneration(r) \/ TakeInputSnapshot(r) \/ Discard(r)
        \/ LoadBatchState(r) \/ ValidateId(r) \/ StartAdding(r) \/ AddMemory(r)
        \/ ListDueRounds(r) \/ ApplyDecision(r) \/ TakeOutputSnapshot(r)
        \/ CommitState(r) \/ PublishArtifacts(r)
     /\ UNCHANGED <<gaps, view, shown, records, failures>>

Disturb(r) ==
  disturbed' = [q \in Runs |->
                  disturbed[q] \/ (q # r /\ pc[q] \in Running /\ memory' # memory)]

SourceNext ==
  \/ Quiescent /\ UNCHANGED artifacts
  \/ \E r \in Runs : SourceStep(r) /\ Disturb(r)

SourceSpec == SourceInit /\ [][SourceNext]_<<vars, artifacts>>

-----------------------------------------------------------------------------
(* Rows of a finished run (episodes.jsonl) *)

\* A run is "completed" in run.json if no task and no round failed.
Completed(r) == pc[r] = "done" /\ ~failures[r]

Writes(r, e) == {d.id : d \in plan[r][e]}

\* (mutant: every episode that proposed a new Memory created it)
ReplayedIfStored(r, e) == Writes(r, e) \ fresh[r]

\* Dispositions of the writes of an episode: replayed if the Memory existed
\* when the batch was validated, or if an earlier episode proposed it too.
Replayed(r, e) ==
  {i \in Writes(r, e) : i \notin fresh[r] \/ \E f \in 1..(e - 1) : i \in Writes(r, f)}
Created(r, e) == Writes(r, e) \ Replayed(r, e)

-----------------------------------------------------------------------------
(* build_evidence *)

\* The ids an episode drafted more than once.
Doubled(r, e) == {c.id : c \in {d \in plan[r][e] : \E f \in plan[r][e] : f # d /\ f.id = d.id}}

\* _build_episode_record refuses an episode unless its candidates are ranked
\* without gaps (they come from the input snapshot, so they are in it as they
\* were), its proposals are of different Memories, the input snapshot holds
\* what it replayed and nothing of what it created, and the output snapshot
\* holds all of it as proposed.
EpisodeAccepted(r, e) ==
  /\ e \notin gaps[r]
  /\ Doubled(r, e) = {}
  /\ Replayed(r, e) \subseteq Known(input[r])
  /\ Created(r, e) \cap Known(input[r]) = {}
  /\ \A d \in plan[r][e] :
       d.id \in Known(output[r]) /\ TextOf[output[r][d.id].variant] = TextOf[d.variant]

\* _build_maintenance_record looks every shown Memory up in the snapshot of
\* the record and replays the commands on it.
RecordAccepted(rec) ==
  /\ \A i \in Known(rec.shown) :
       /\ i \in Known(rec.view)
       /\ rec.view[i].variant = rec.shown[i].variant
       /\ rec.view[i].status = rec.shown[i].status
  /\ ~rec.repeats
  /\ rec.decision.retire \subseteq Active(rec.view)
  /\ rec.decision.create \cap Known(rec.view) = {}

\* The completed run alone is accepted as a source.
Source(r) ==
  /\ Completed(r)
  /\ \A e \in Episodes(r) : EpisodeAccepted(r, e)
  /\ \A rec \in records[r] : RecordAccepted(rec)

\* _validate_run_set: the runs of a set share one lineage, of which the memory
\* generation is a part (the policy and runtime are the same for all runs here).
OneLineage(S) == \A r, s \in S : gen[r] = gen[s]

-----------------------------------------------------------------------------
SourceTypeOK ==
  /\ DOMAIN gaps = Runs /\ \A r \in Runs : gaps[r] \subseteq Episodes(r)
  /\ view \in [Runs -> Contents \cup {None}]
  /\ shown \in [Runs -> Contents]
  /\ records \in [Runs -> SUBSET MaintenanceRecords]
  /\ failures \in [Runs -> BOOLEAN]
  /\ disturbed \in [Runs -> BOOLEAN]

\* Two episodes of the run proposed the same Memory.
Shares(r) == \E e, f \in Episodes(r) : e # f /\ Writes(r, e) \cap Writes(r, f) # {}

\* The rows and records of the run have none of the faults the slow loop sees
\* without a snapshot and the run did not mind: a gap in the ranks of an episode's
\* candidates (evidence.py:563), a Memory drafted twice by one episode
\* (evidence.py:440) or retired twice by one round (evidence.py:698, 714).
Flawless(r) ==
  /\ gaps[r] = {}
  /\ \A e \in Episodes(r) : Doubled(r, e) = {}
  /\ \A rec \in records[r] : ~rec.repeats

\* What a run says of the namespace the slow loop finds in the snapshots: a
\* completed run without such faults passes every check of its replays, new
\* Memories, texts and maintenance against the snapshots it names, unless another
\* run wrote to the namespace meanwhile, the operator pinned an older snapshot, or
\* two of its episodes proposed the same Memory.
RefusalsExplained ==
  \A r \in Runs :
    Completed(r) /\ Flawless(r) /\ ~disturbed[r] /\ ~pinned[r] /\ ~Shares(r) => Source(r)

\* Credit for a Memory is given once: among all sources there are, one episode
\* is its creator, and the run of that episode really added it to a namespace
\* that did not hold it.
CreditIsDue ==
  \A r \in Runs : Source(r) =>
    /\ UNION {Created(r, e) : e \in Episodes(r)} = created[r]
    /\ \A e, f \in Episodes(r) : e # f => Created(r, e) \cap Created(r, f) = {}
    /\ \A s \in Runs \ {r} : Source(s) =>
         \A e \in Episodes(r), f \in Episodes(s) : Created(r, e) \cap Created(s, f) = {}

\* Every source is a source set of its own: no two finished runs of a namespace
\* share a lineage, because each committed batch has its own generation.  The
\* split hash and the revisions agree, so it is the generation that separates
\* them (_validate_run_set, commit_memory_state).
SourcesStandAlone ==
  \A r, s \in Runs : Source(r) /\ Source(s) /\ r # s => ~OneLineage({r, s})

\* tests/unit/execution/test_batch_commit.py:52-60 has a Memory that two episodes
\* of a batch propose coalesced and marked as replayed in the second, so that a
\* batch like it is committed normally.  It completes, but evidence.py:464 takes
\* a replayed Memory to be one of the input snapshot and refuses the run.
SharedProposalsAreReplays ==
  \A r \in Runs : Completed(r) /\ Flawless(r) /\ ~disturbed[r] /\ ~pinned[r] => Source(r)
=============================================================================
