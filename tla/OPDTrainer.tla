----------------------------- MODULE OPDTrainer -----------------------------
(***************************************************************************)
(* Training the adapter of one OPD capability in one output directory      *)
(* (src/tau3_evolver/slow_loop/training.py, and the preflight of           *)
(* train_command.py that every start goes through).                        *)
(*                                                                         *)
(* The trainer works in windows of examples: for each example it samples a *)
(* response and appends a row to two logs, then it takes one optimizer     *)
(* step, publishes a checkpoint and rewrites training_manifest.json.  The  *)
(* process can die between any two of these steps, in the middle of a row, *)
(* and is started again on whatever it left.                               *)
(*                                                                         *)
(* Weights, optimizer moments and the random number generator are counted: *)
(* two runs agree on them if they took as many updates and draws in the    *)
(* same order.  A run that is never interrupted is the reference.          *)
(***************************************************************************)
EXTENDS Integers, Sequences, FiniteSets

CONSTANTS
  Total,      \* examples of the schedule (all epochs)
  Window,     \* effective batch size
  Keep,       \* _MAX_PUBLISHED_CHECKPOINTS
  None        \* an absent file or checkpoint

ASSUME TotalAssumption == Total \in Nat
ASSUME WindowAssumption == Window \in Nat \ {0}
ASSUME KeepAssumption == Keep \in Nat \ {0}

\* What is in a log, in a checkpoint and in training_manifest.json.
Rows == [index : Nat, weights : Nat, draws : Nat]
Policies == [weights : Nat, moments : Nat, draws : Nat]
Checkpoints == [step : Nat, completed : Nat, policy : Policies]
Manifests == [checkpoint : Nat, completed : Nat, status : {"complete", "in_progress"}]

ASSUME NoneAssumption ==
  None \notin Seq(Rows) /\ None \notin Checkpoints /\ None \notin Manifests

VARIABLES
  generations, metrics,  \* the logs: absent, or their complete rows
  torn,                  \* logs that end in an incomplete row
  checkpoints,           \* published checkpoints
  abandoned,             \* temporary checkpoint directories no process owns any
                         \* more, without ("bare") or with their manifest
  manifest,              \* training_manifest.json
  pc,                    \* "idle": no process
  resume,                \* --resume-from
  completed, steps,      \* progress of the process
  cursor,                \* example of the window the process is at
  policy                 \* weights, moments and random draws in the process

logs == <<generations, metrics, torn>>
files == <<logs, checkpoints, abandoned, manifest>>
local == <<resume, completed, steps, cursor, policy>>
vars == <<files, pc, local>>

Lower(a, b) == IF a <= b THEN a ELSE b
WindowEnd == Lower(completed + Window, Total)

Start0 == [weights |-> 0, moments |-> 0, draws |-> 0]
RowOf(k, p) == [index |-> k, weights |-> p.weights, draws |-> p.draws]

Latest == CHOOSE c \in checkpoints : \A d \in checkpoints : d.step <= c.step
PublishedCheckpoint == IF checkpoints = {} THEN None ELSE Latest

Init ==
  /\ generations = None /\ metrics = None /\ torn = {}
  /\ checkpoints = {} /\ abandoned = {} /\ manifest = None
  /\ pc = "idle" /\ resume = None
  /\ completed = 0 /\ steps = 0 /\ cursor = 0 /\ policy = Start0

-----------------------------------------------------------------------------
(* Starting                                                                 *)

Finished == manifest # None /\ manifest.status = "complete"

\* The suite, or the operator, starts the trainer on a directory that is not
\* finished, from its latest published checkpoint if there is one.
Launch ==
  /\ pc = "idle" /\ ~Finished
  /\ pc' = "preflight"
  /\ resume' = PublishedCheckpoint
  /\ UNCHANGED <<files, completed, steps, cursor, policy>>

\* _require_fresh_output
FreshOutput ==
  generations = None /\ metrics = None /\ manifest = None /\ checkpoints = {}

\* _resolve_resume_adapter: counts of at least one
Resumable(c) == c.completed >= 1 /\ c.step >= 1

Preflight ==
  /\ pc = "preflight"
  /\ IF IF resume = None THEN FreshOutput ELSE Resumable(resume)
     THEN pc' = IF resume = None THEN "seed" ELSE "restore generations"
     ELSE pc' = "refused"
  /\ UNCHANGED <<files, local>>

\* A refused start leaves the directory as it was.
Refuse ==
  /\ pc = "refused"
  /\ pc' = "idle" /\ resume' = None
  /\ UNCHANGED <<files, completed, steps, cursor, policy>>

\* A kind without examples (debug datasets) is initialized and saved at once.
SeedFresh ==
  /\ pc = "seed"
  /\ pc' = IF Total = 0 THEN "write" ELSE "sample"
  /\ policy' = Start0
  /\ completed' = 0 /\ steps' = 0 /\ cursor' = 1
  /\ UNCHANGED <<files, resume>>

\* _restore_committed_rows cuts a log to the rows the checkpoint covers, which
\* must be there and be the rows of the schedule.
CommittedRows(log, n) ==
  log # None /\ Len(log) >= n /\ \A k \in 1..n : log[k].index = k
\* (mutant: rows are checked, the rest of the log stays)
RestoredWhole(log, n) == log
Restored(log, n) == SubSeq(log, 1, n)

\* (mutant: a log without surplus rows is not rewritten)
VerifyGenerations ==
  /\ pc = "restore generations"
  /\ CommittedRows(generations, resume.completed)
  /\ pc' = "restore metrics"
  /\ generations' = Restored(generations, resume.completed)
  /\ torn' = IF Len(generations) > resume.completed THEN torn \ {"generations"} ELSE torn
  /\ UNCHANGED <<metrics, checkpoints, abandoned, manifest, local>>

RestoreGenerations ==
  /\ pc = "restore generations"
  /\ CommittedRows(generations, resume.completed)
  /\ pc' = "restore metrics"
  /\ generations' = Restored(generations, resume.completed)
  /\ torn' = torn \ {"generations"}
  /\ UNCHANGED <<metrics, checkpoints, abandoned, manifest, local>>

RestoreMetrics ==
  /\ pc = "restore metrics"
  /\ CommittedRows(metrics, resume.completed)
  /\ pc' = "load"
  /\ metrics' = Restored(metrics, resume.completed)
  /\ torn' = torn \ {"metrics"}
  /\ UNCHANGED <<generations, checkpoints, abandoned, manifest, local>>

\* (mutant: the random number generator is not restored)
LoadedWithoutRandomState(c) == [c.policy EXCEPT !.draws = 0]

\* The adapter, optimizer.pt and rng_state.pt of the checkpoint.
Loaded(c) == c.policy

ManifestOf(c) ==
  [checkpoint |-> c.step, completed |-> c.completed,
   status |-> IF c.completed = Total THEN "complete" ELSE "in_progress"]

\* (mutant: the completion manifest is left to the suite)
LoadWithoutManifest ==
  /\ pc = "load"
  /\ policy' = Loaded(resume)
  /\ completed' = resume.completed /\ steps' = resume.step
  /\ cursor' = resume.completed + 1
  /\ pc' = IF resume.completed = Total THEN "exit" ELSE "sample"
  /\ UNCHANGED <<files, resume>>

\* A checkpoint of the whole schedule only lacks its completion manifest.
LoadCheckpoint ==
  /\ pc = "load"
  /\ policy' = Loaded(resume)
  /\ completed' = resume.completed /\ steps' = resume.step
  /\ cursor' = resume.completed + 1
  /\ IF resume.completed = Total
     THEN pc' = "exit" /\ manifest' = ManifestOf(resume)
     ELSE pc' = "sample" /\ UNCHANGED manifest
  /\ UNCHANGED <<logs, checkpoints, abandoned, resume>>

-----------------------------------------------------------------------------
(* A window                                                                 *)

Appended(log, row) == IF log = None THEN <<row>> ELSE Append(log, row)

\* The response is sampled, the loss back-propagated, the first row written.
SampleExample ==
  /\ pc = "sample"
  /\ pc' = "measure"
  /\ generations' = Appended(generations, RowOf(cursor, policy))
  /\ policy' = [policy EXCEPT !.draws = @ + 1]
  /\ UNCHANGED <<metrics, torn, checkpoints, abandoned, manifest, resume,
                 completed, steps, cursor>>

MeasureExample ==
  /\ pc = "measure"
  /\ metrics' = Appended(metrics, RowOf(cursor, [policy EXCEPT !.draws = @ - 1]))
  /\ cursor' = cursor + 1
  /\ pc' = IF cursor = WindowEnd THEN "update" ELSE "sample"
  /\ UNCHANGED <<generations, torn, checkpoints, abandoned, manifest, resume,
                 completed, steps, policy>>

UpdatePolicy ==
  /\ pc = "update"
  /\ pc' = "write"
  /\ policy' = [policy EXCEPT !.weights = @ + 1, !.moments = @ + 1]
  /\ completed' = WindowEnd
  /\ steps' = steps + 1
  /\ UNCHANGED <<files, resume, cursor>>

-----------------------------------------------------------------------------
(* _save_checkpoint                                                         *)

Snapshot == [step |-> steps, completed |-> completed, policy |-> policy]

\* The checkpoint grows in a temporary directory of its own; its manifest is
\* the last file.  A step is never published twice.
WriteFiles ==
  /\ pc = "write"
  /\ \A c \in checkpoints : c.step # steps
  /\ pc' = "describe"
  /\ UNCHANGED <<files, local>>

WriteCheckpointManifest ==
  /\ pc = "describe"
  /\ pc' = "publish"
  /\ UNCHANGED <<files, local>>

PublishCheckpoint ==
  /\ pc = "publish"
  /\ pc' = "prune"
  /\ checkpoints' = checkpoints \cup {Snapshot}
  /\ UNCHANGED <<logs, abandoned, manifest, local>>

Newer(c) == {d \in checkpoints : d.step > c.step}
\* (mutant: the oldest are kept)
RetainedOldest == {c \in checkpoints : Cardinality(checkpoints \ Newer(c)) <= Keep}
Retained == {c \in checkpoints : Cardinality(Newer(c)) < Keep}

Surplus == checkpoints \ Retained

\* The surplus directories are removed one after the other, the newest first.  One
\* that is half removed counts until its manifest is gone; nobody loads it any more.
PruneCheckpoints ==
  /\ pc = "prune"
  /\ IF Surplus = {}
     THEN pc' = "report" /\ UNCHANGED checkpoints
     ELSE /\ \E c \in Surplus : Newer(c) \cap Surplus = {} /\ checkpoints' = checkpoints \ {c}
          /\ UNCHANGED pc
  /\ UNCHANGED <<logs, abandoned, manifest, local>>

WriteManifest ==
  /\ pc = "report"
  /\ manifest' = ManifestOf(Snapshot)
  /\ pc' = IF completed = Total THEN "exit" ELSE "sample"
  /\ UNCHANGED <<logs, checkpoints, abandoned, local>>

Stop ==
  /\ pc' = "idle" /\ resume' = None
  /\ completed' = 0 /\ steps' = 0 /\ cursor' = 0 /\ policy' = Start0

Exit ==
  /\ pc = "exit"
  /\ Stop
  /\ UNCHANGED files

-----------------------------------------------------------------------------
(* Interruption                                                             *)

Running == pc \notin {"idle", "refused", "exit"}

\* An exception ends the process; _save_checkpoint removes its directory.
Fail ==
  /\ Running /\ Stop
  /\ UNCHANGED files

\* The process is killed, and what it was writing stays.
Abandoned ==
  CASE pc = "describe" -> {"bare"}
    [] pc = "publish"  -> {"written"}
    [] OTHER           -> {}

Kill ==
  /\ Running /\ Stop
  /\ abandoned' = abandoned \cup Abandoned
  /\ UNCHANGED <<logs, checkpoints, manifest>>

\* It is killed in the middle of a row: the file exists and ends in half a line.
KillInRow ==
  /\ Stop
  /\ \/ /\ pc = "sample"
        /\ generations' = IF generations = None THEN <<>> ELSE generations
        /\ torn' = torn \cup {"generations"}
        /\ UNCHANGED metrics
     \/ /\ pc = "measure"
        /\ metrics' = IF metrics = None THEN <<>> ELSE metrics
        /\ torn' = torn \cup {"metrics"}
        /\ UNCHANGED generations
  /\ UNCHANGED <<checkpoints, abandoned, manifest>>

-----------------------------------------------------------------------------
Work ==
  \/ Launch \/ Preflight \/ Refuse \/ SeedFresh
  \/ RestoreGenerations \/ RestoreMetrics \/ LoadCheckpoint
  \/ SampleExample \/ MeasureExample \/ UpdatePolicy
  \/ WriteFiles \/ WriteCheckpointManifest \/ PublishCheckpoint
  \/ PruneCheckpoints \/ WriteManifest \/ Exit

Interrupt == Fail \/ Kill \/ KillInRow

\* The adapter is trained: nobody starts the trainer again.
Settled == pc = "idle" /\ Finished /\ UNCHANGED vars

Next == Work \/ Interrupt \/ Settled

Spec == Init /\ [][Next]_vars

\* The trainer computes, and whoever wants the adapter starts it again.
FairSpec == Spec /\ WF_vars(Work)

-----------------------------------------------------------------------------
(* Properties                                                               *)

StepsOf(n) == (n + Window - 1) \div Window
Reference(k) == [index |-> k, weights |-> (k - 1) \div Window, draws |-> k - 1]

\* Every published checkpoint is the one an uninterrupted run publishes at its
\* step, whatever happened before: as many updates, as many random draws.
CheckpointsAsUninterrupted ==
  \A c \in checkpoints :
    /\ c.step = StepsOf(c.completed)
    /\ c.completed = Total \/ c.completed = c.step * Window
    /\ c.policy = [weights |-> c.step, moments |-> c.step, draws |-> c.completed]

\* The logs of a finished directory are those of an uninterrupted run: the row of
\* every example once, in order, and nothing else (_restore_committed_rows).
FinishedLogsExact ==
  Finished /\ Total > 0 =>
    /\ torn = {}
    /\ generations = [k \in 1..Total |-> Reference(k)]
    /\ metrics = generations

\* No row is ever appended behind half a row of a dead process.
NoRowAfterTear == pc \in {"sample", "measure"} => torn = {}

\* States from which every further start is refused.
Wedged ==
  /\ pc = "idle" /\ ~Finished
  /\ IF checkpoints = {} THEN ~FreshOutput ELSE ~Resumable(Latest)

\* Unless interruptions go on forever, the adapter gets trained, or the
\* directory is in one of the states the code refuses to continue from.
EventuallyTrained == []<><<Interrupt>>_vars \/ <>(Finished \/ Wedged)

\* What the suite sees of the directory behaves as KindOutput says: only a start
\* that passed the preflight changes it, step by step, and the completion
\* manifest comes last.
Kind == INSTANCE KindOutput WITH
  Steps <- StepsOf(Total),
  out <- [logs |-> generations # None \/ metrics # None \/ manifest # None,
          latest |-> IF checkpoints = {} THEN -1 ELSE Latest.step,
          older |-> Cardinality(checkpoints) > 1,
          leftover |-> "written" \in abandoned,
          complete |-> Finished],
  busy <- pc \notin {"idle", "preflight", "refused"}
ImplementsKindOutput == Kind!Spec

\* README.md:201 promises that after an interruption the same command continues
\* from the latest checkpoint.  It is refused if there is none but a log exists
\* (an interruption in the first window), and if the only checkpoint is the
\* empty one of a kind without examples.
RestartContinues == pc # "refused"
=============================================================================
