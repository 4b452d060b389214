---------------------------- MODULE DatasetBuild ----------------------------
(***************************************************************************)
(* Building, auditing and taking up a dataset                              *)
(* (src/tau3_evolver/slow_loop/dataset.py, audit.py, train_command.py).    *)
(*                                                                         *)
(* Builders of one build id work at the same time, each in a temporary     *)
(* directory of its own.  A trainer audits a directory and starts from it. *)
(* Meanwhile builders fail or die, source runs are deleted and published   *)
(* rows are altered: faults bounds how often.                              *)
(***************************************************************************)
EXTENDS Audit

CONSTANTS
  Builders,
  Instances  \* what the builders may be asked: sources, requests, faults

\* Name of the published directory among the places a dataset can be in.
FinalPlace == "final"

ASSUME InstancesAssumption ==
  Instances \subseteq [source : [RunIds -> SourceRun],
                       request : [Builders -> Seq(RunIds)], faults : Nat]
ASSUME NoneAssumption == None \notin Builders /\ FinalPlace \notin Builders

\* A maintenance round is completed once in a namespace (NoRepeatOfCompletedRound
\* of TrainBatch): no two runs document the same one.
ASSUME RoundsAssumption ==
  \A instance \in Instances :
    \A p, q \in UNION {{<<r, i>> : i \in DOMAIN instance.source[r].rounds} : r \in RunIds} :
      p # q => instance.source[p[1]].rounds[p[2]].number
                 # instance.source[q[1]].rounds[q[2]].number

VARIABLES
  source,   \* directories of the source runs, None once deleted
  request,  \* runs each builder was given
  pc,       \* where each builder is
  built,    \* what it has derived and not yet written
  temp,     \* its temporary directory
  final,    \* the published directory, None before
  trainer,  \* the trainer: where it is, what it audited and where that lay
  faults,   \* faults that may still happen
  origin,   \* history: the source runs as they were
  owner     \* history: builder of the published directory

vars == <<source, request, pc, built, temp, final, trainer, faults, origin, owner>>

\* Content of a directory: with no manifest there is nothing to audit.
NoDirectory == [state |-> "none", data |-> None]
PartialDirectory == [state |-> "partial", data |-> None]
FullDirectory(dataset) == [state |-> "full", data |-> dataset]

Published == owner # None

\* Trainer before its preflight, or refused by it.
NoTrainer(state) == [pc |-> state, kind |-> None, place |-> None, seen |-> None]

Init ==
  /\ \E i \in Instances :
       source = i.source /\ request = i.request /\ faults = i.faults
  /\ origin = source
  /\ pc = [b \in Builders |-> "begin"]
  /\ built = [b \in Builders |-> None]
  /\ temp = [b \in Builders |-> NoDirectory]
  /\ final = None /\ owner = None
  /\ trainer = NoTrainer("idle")

Goto(b, from, to) == pc[b] = from /\ pc' = [pc EXCEPT ![b] = to]

-----------------------------------------------------------------------------
(* build_opd_dataset *)

\* The build id is looked up before the long derivation.
Begin(b) ==
  /\ Goto(b, "begin", IF Published THEN "refused" ELSE "materialize")
  /\ UNCHANGED <<source, request, built, temp, final, trainer, faults, origin, owner>>

Materialize(b) ==
  /\ Goto(b, "materialize", "mkdir")
  /\ Derivable(source, request[b])
  /\ built' = [built EXCEPT ![b] = Derived(source, request[b], FinalPlace)]
  /\ UNCHANGED <<source, request, temp, final, trainer, faults, origin, owner>>

\* No directory has been made yet.
RefuseSources(b) ==
  /\ Goto(b, "materialize", "refused")
  /\ ~Derivable(source, request[b])
  /\ UNCHANGED <<source, request, built, temp, final, trainer, faults, origin, owner>>

MakeTemporary(b) ==
  /\ Goto(b, "mkdir", "write")
  /\ temp' = [temp EXCEPT ![b] = PartialDirectory]
  /\ UNCHANGED <<source, request, built, final, trainer, faults, origin, owner>>

\* The artifacts, then the manifest: only with it is there anything to audit.
WriteDataset(b) ==
  /\ Goto(b, "write", "audit")
  /\ temp' = [temp EXCEPT ![b] = FullDirectory(built[b])]
  /\ built' = [built EXCEPT ![b] = None]
  /\ UNCHANGED <<source, request, final, trainer, faults, origin, owner>>

\* The builder gives the project root, as the directory is not yet in place.
AuditTemporary(b) ==
  /\ Goto(b, "audit", "publish")
  /\ Passes(temp[b].data, source, TRUE)
  /\ UNCHANGED <<source, request, built, temp, final, trainer, faults, origin, owner>>

RejectTemporary(b) ==
  /\ Goto(b, "audit", "rejected")
  /\ ~Passes(temp[b].data, source, TRUE)
  /\ temp' = [temp EXCEPT ![b] = NoDirectory]
  /\ UNCHANGED <<source, request, built, final, trainer, faults, origin, owner>>

\* (mutant: an existing directory is replaced)
PublishOver(b) ==
  /\ Goto(b, "publish", "sync")
  /\ final' = temp[b].data /\ owner' = b
  /\ temp' = [temp EXCEPT ![b] = NoDirectory]
  /\ UNCHANGED <<source, request, built, trainer, faults, origin>>

\* rename to a name that is free.
Publish(b) ==
  /\ ~Published
  /\ Goto(b, "publish", "sync")
  /\ final' = temp[b].data /\ owner' = b
  /\ temp' = [temp EXCEPT ![b] = NoDirectory]
  /\ UNCHANGED <<source, request, built, trainer, faults, origin>>

\* rename to a name another builder took meanwhile.
LosePublication(b) ==
  /\ Published
  /\ Goto(b, "publish", "failed")
  /\ temp' = [temp EXCEPT ![b] = NoDirectory]
  /\ UNCHANGED <<source, request, built, final, trainer, faults, origin, owner>>

Finish(b) ==
  /\ Goto(b, "sync", "done")
  /\ UNCHANGED <<source, request, built, temp, final, trainer, faults, origin, owner>>

-----------------------------------------------------------------------------
(* Faults *)

Fault == faults > 0 /\ faults' = faults - 1

\* An I/O error anywhere after the derivation; what rmtree cannot remove stays.
\* After the rename there is nothing to remove, and the dataset is published.
Fail(b) ==
  /\ Fault
  /\ \E at \in {"mkdir", "write", "audit", "publish", "sync"} : Goto(b, at, "failed")
  /\ \/ temp' = [temp EXCEPT ![b] = NoDirectory]
     \/ UNCHANGED temp
  /\ UNCHANGED <<source, request, built, final, trainer, origin, owner>>

Crash(b) ==
  /\ Fault
  /\ \E at \in {"begin", "materialize", "mkdir", "write", "audit", "publish", "sync"} :
       Goto(b, at, "crashed")
  /\ UNCHANGED <<source, request, built, temp, final, trainer, origin, owner>>

\* The operator deletes a source run.
Delete(r) ==
  /\ Fault
  /\ source[r] # None
  /\ source' = [source EXCEPT ![r] = None]
  /\ UNCHANGED <<request, pc, built, temp, final, trainer, origin, owner>>

\* Rows that differ in one place: an example is lost, an outcome or a value is
\* another.
Altered(rows) ==
  {[rows EXCEPT !.examples[x.kind] = @ \ {x}] : x \in UNION {rows.examples[k] : k \in Kinds}}
  \cup {[rows EXCEPT !.evidence.episodes[p].reward = 1 - @]
          : p \in DOMAIN rows.evidence.episodes}
  \cup {[rows EXCEPT !.scores[m].value = IF @ = None THEN Threshold ELSE None]
          : m \in DOMAIN rows.scores}

\* Published rows are altered, alone or with the hashes and counts in step.
Alter ==
  /\ Fault
  /\ Published
  /\ \E rows \in Altered(final.rows) :
       \/ final' = [final EXCEPT !.rows = rows]
       \/ final' = [final EXCEPT !.rows = rows, !.manifest.artifacts = rows,
                                 !.manifest.counts = Counts(rows)]
  /\ UNCHANGED <<source, request, pc, built, temp, trainer, origin, owner>>

-----------------------------------------------------------------------------
(* Taking up a dataset (_run_preflight) *)

\* Directories that look like a dataset.
Directories ==
  {b \in Builders : temp[b].state # "none"} \cup {p \in {FinalPlace} : Published}

At(place) == IF place = FinalPlace THEN FullDirectory(final) ELSE temp[place]

\* Without a project root the audit infers it from where the manifest says the
\* directory lies.
Acceptable(place, kind) ==
  /\ At(place).state = "full"
  /\ Passes(At(place).data, source, At(place).data.manifest.place = place)
  /\ At(place).data.rows.examples[kind] # {}

\* The trainer of a kind is given a directory.
Preflight(place, kind) ==
  /\ trainer.pc = "idle"
  /\ trainer' = IF Acceptable(place, kind)
                THEN [pc |-> "training", kind |-> kind, place |-> place, seen |-> At(place).data]
                ELSE NoTrainer("refused")
  /\ UNCHANGED <<source, request, pc, built, temp, final, faults, origin, owner>>

-----------------------------------------------------------------------------
Step(b) ==
  \/ Begin(b) \/ Materialize(b) \/ RefuseSources(b) \/ MakeTemporary(b)
  \/ WriteDataset(b) \/ AuditTemporary(b) \/ RejectTemporary(b)
  \/ Publish(b) \/ LosePublication(b) \/ Finish(b)

Next ==
  \/ \E b \in Builders : Step(b) \/ Fail(b) \/ Crash(b)
  \/ \E r \in RunIds : Delete(r)
  \/ Alter
  \/ \E place \in Directories, kind \in Kinds : Preflight(place, kind)

Spec == Init /\ [][Next]_vars

-----------------------------------------------------------------------------
Ended == {"refused", "rejected", "failed", "crashed", "done"}

TypeOK ==
  /\ \A r \in RunIds : source[r] \in {origin[r], None}
  /\ pc \in [Builders -> Ended \cup {"begin", "materialize", "mkdir", "write",
                                     "audit", "publish", "sync"}]
  /\ \A b \in Builders :
       /\ temp[b].state \in {"none", "partial", "full"}
       /\ pc[b] \in {"audit", "publish"} => temp[b].state = "full"
  /\ owner \in Builders \cup {None}
  /\ trainer.pc \in {"idle", "refused", "training"} /\ faults \in Nat

\* What the builder derives is what its own audit accepts: a directory is
\* rejected before publication only if the runs were named out of order or a
\* source run has been deleted meanwhile (build_opd_dataset, audit_dataset).
HonestBuildsPass ==
  \A b \in Builders : pc[b] = "rejected" =>
    \/ ~Continuous(SourceRows(origin, request[b]))
    \/ \E k \in DOMAIN request[b] : source[request[b][k]] = None

\* A trainer that gets past the preflight has before it exactly the evidence,
\* scores and examples that the source runs yield, although published rows may
\* have been altered with their hashes in step (audit_dataset).
AuditedIsDerived ==
  trainer.pc = "training" =>
    LET rows == trainer.seen.rows
    IN  /\ rows.evidence = LedgerOf(origin, trainer.seen.manifest.request)
        /\ rows.scores = Scores(rows.evidence)
        /\ rows.examples = AllExamples(rows.evidence, rows.scores)

\* A directory that a builder left behind when it failed or died, complete
\* as it may be, is not trained from: some other build may hold its id
\* (_infer_project_root).
LeftoversAreRefused ==
  trainer.pc = "training" => trainer.place = FinalPlace

\* The teacher credits a written Memory with later use only, and there is a
\* comparison behind it: two later tasks of one group that were both offered
\* the Memory, one took it and the other did not, with different outcomes.
CreditFollowsUse ==
  trainer.pc = "training" =>
    \A x \in trainer.seen.rows.examples["write"] : \E m \in DOMAIN x.hindsight :
      LET episodes == trainer.seen.rows.evidence.episodes
      IN  \E p, q \in DOMAIN episodes :
            /\ Precedes(x.unit, p) /\ Precedes(x.unit, q)
            /\ m \in episodes[p].selected
            /\ m \in Candidates(episodes[q]) \ episodes[q].selected
            /\ episodes[p].group = episodes[q].group
            /\ episodes[p].reward # episodes[q].reward

\* No hint of the teacher can be read in what the student is shown of the task,
\* and what the teacher says of a Memory is the published score of it.
HindsightStaysHidden ==
  trainer.pc = "training" =>
    \A kind \in Kinds : \A x \in trainer.seen.rows.examples[kind] :
      /\ kind = "act" => x.public \cap DOMAIN x.hindsight = {}
      /\ \A m \in DOMAIN x.hindsight :
           x.hindsight[m].value = trainer.seen.rows.scores[m].value

\* Building implements the store of at most one dataset.
Outcome == [b \in Builders |->
              IF pc[b] = "done" THEN "done"
              ELSE IF pc[b] \in Ended THEN "failed" ELSE "running"]

Store == INSTANCE DatasetStore WITH outcome <- Outcome

ImplementsStore == Store!Spec

\* docs/four-lora-opd-training.md:33 takes a task into the write data if it
\* created a Memory with attribution from later tasks, and README.md:153 has
\* consecutive train runs made into one dataset.  For consecutive runs that are
\* all there, such a task should be among the examples of the published dataset.
LaterUseIsTaught ==
  \A b \in Builders :
    /\ pc[b] \in Ended \ {"crashed"} /\ source = origin /\ owner \in {None, b}
    /\ Continuous(SourceRows(origin, request[b]))
    => LET ledger == LedgerOf(origin, request[b])
       IN  \A p \in Positions(ledger) : \A m \in Written(ledger.episodes[p]) :
             Telling(Score(ledger, m)) =>
               Published /\ \E x \in final.rows.examples["write"] : x.unit = p
=============================================================================
