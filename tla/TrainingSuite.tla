--------------------------- MODULE TrainingSuite ---------------------------
(***************************************************************************)
(* The suite that trains one adapter per OPD capability, one after another,*)
(* and publishes them as a bundle (src/tau3_evolver/slow_loop/             *)
(* training_suite.py).                                                     *)
(*                                                                         *)
(* The suite runs train_command as a child process in a directory of the   *)
(* capability; KindOutput says what the child makes of that directory and  *)
(* OPDTrainer implements it.  Suite and child can fail or be killed at any *)
(* step; whoever wants the bundle starts the suite again, with the same    *)
(* command or, by mistake, with another one.  A suite that is killed takes *)
(* its child along (they share a process group); a child that outlives its *)
(* suite is not modelled, nor are two suites in one directory, which       *)
(* nothing in the code keeps apart.                                        *)
(***************************************************************************)
EXTENDS Integers, FiniteSets

CONSTANTS
  Kinds,       \* OPD_KINDS
  NameOrder,   \* NameOrder[k]: place of k in the alphabet
  Examples,    \* Examples[k]: training examples of k, all epochs
  Window,      \* effective batch size
  Requests,    \* commands that differ in dataset, revisions or epochs
  None         \* an absent file or process

ASSUME NameOrderAssumption ==
  /\ NameOrder \in [Kinds -> Nat]
  /\ \A j, k \in Kinds : j # k => NameOrder[j] # NameOrder[k]
ASSUME ExamplesAssumption == Examples \in [Kinds -> Nat]
ASSUME WindowAssumption == Window \in Nat \ {0}
ASSUME NoneAssumption == None \notin Kinds \cup Requests

\* suite_manifest.json and the bundle's training_manifest.json.
Statuses == {"pending", "in_progress", "interrupted", "complete"}
Manifests ==
  [request : Requests, status : {"in_progress", "complete"},
   kinds : [Kinds -> [status : Statuses, step : Int]]]
Bundles == [request : Requests, steps : [Kinds -> Int]]

ASSUME NoFileAssumption == None \notin Manifests \cup Bundles

VARIABLES
  outs,      \* the directories of the capabilities, see KindOutput
  origin,    \* the request whose dataset each of them was trained on
  suite,     \* suite_manifest.json
  bundle,    \* training_manifest.json of the suite
  pc,        \* "idle": no suite process; "ended": it returns or raises
  request,   \* its command line
  todo,      \* capabilities its loop has not finished
  worker     \* capability whose trainer is at work

files == <<outs, origin, suite, bundle>>
vars == <<files, pc, request, todo, worker>>

StepsFor(k) == (Examples[k] + Window - 1) \div Window
K(k) == INSTANCE KindOutput WITH Steps <- StepsFor(k), out <- outs[k], busy <- worker = k
Unpublished == -1

\* Small datasets first, equal ones by name.
Before(j, k) ==
  \/ Examples[j] < Examples[k]
  \/ Examples[j] = Examples[k] /\ NameOrder[j] < NameOrder[k]
Current == CHOOSE k \in todo : \A j \in todo \ {k} : Before(k, j)

Pending == [status |-> "pending", step |-> Unpublished]
Initial(q) == [request |-> q, status |-> "in_progress", kinds |-> [k \in Kinds |-> Pending]]

Init ==
  /\ outs = [k \in Kinds |-> K(k)!Empty]
  /\ origin = [k \in Kinds |-> None]
  /\ suite = None /\ bundle = None
  /\ pc = "idle" /\ request = None /\ todo = {} /\ worker = None

\* The suite process returns or raises.
Leave == pc' = "ended" /\ request' = None /\ todo' = {}

Mark(status) == [suite EXCEPT !.kinds[Current].status = status]

-----------------------------------------------------------------------------
Start ==
  /\ pc = "idle"
  /\ \E q \in Requests : request' = q
  /\ pc' = "load"
  /\ UNCHANGED <<files, todo, worker>>

\* (mutant: the fields are not compared)
MatchesAlways == TRUE
\* (mutant: progress is compared too)
MatchesWithKinds == suite = Initial(request)
Matches == suite.request = request

\* (mutant: another request begins a suite of its own)
LoadAnew ==
  /\ pc = "load"
  /\ pc' = "next" /\ todo' = Kinds
  /\ suite' = IF suite = None \/ ~Matches THEN Initial(request) ELSE suite
  /\ UNCHANGED <<outs, origin, bundle, request, worker>>

\* _load_or_initialize_suite: a directory belongs to the request that made it.
LoadSuite ==
  /\ pc = "load"
  /\ IF suite = None \/ Matches
     THEN /\ pc' = "next" /\ todo' = Kinds
          /\ UNCHANGED request
     ELSE Leave
  /\ suite' = IF suite = None THEN Initial(request) ELSE suite
  /\ UNCHANGED <<outs, origin, bundle, worker>>

\* (mutant: the status of the manifest is not read)
CompletedByCheckpoint(k) == outs[k].latest # Unpublished
\* _completed_kind
Completed(k) == outs[k].complete

NextKind ==
  /\ pc = "next" /\ todo # {}
  /\ pc' = IF Completed(Current) THEN "prune" ELSE "pick"
  /\ UNCHANGED <<files, request, todo, worker>>

\* _latest_checkpoint takes every directory with a checkpoint manifest for a
\* published one and fails on a name that is not step-<number>.
PickCheckpoint ==
  /\ pc = "pick"
  /\ IF outs[Current].leftover
     THEN Leave /\ UNCHANGED suite
     ELSE pc' = "run" /\ suite' = Mark("in_progress") /\ UNCHANGED <<request, todo>>
  /\ UNCHANGED <<outs, origin, bundle, worker>>

-----------------------------------------------------------------------------
(* The child                                                                *)

\* The preflight of train_command; a checkpoint must be of the same dataset.
Acceptable(k) ==
  /\ K(k)!Accepts(outs[k])
  /\ outs[k].latest # Unpublished => origin[k] = request

BeginTrainer ==
  /\ pc = "run" /\ Acceptable(Current)
  /\ pc' = "wait" /\ worker' = Current
  /\ origin' = [origin EXCEPT ![Current] = request]
  /\ UNCHANGED <<outs, suite, bundle, request, todo>>

RefuseTrainer ==
  /\ pc = "run" /\ ~Acceptable(Current)
  /\ pc' = "failed"
  /\ UNCHANGED <<files, request, todo, worker>>

AdvanceTrainer ==
  /\ \E k \in Kinds : /\ worker = k
                      /\ \E o \in K(k)!Advanced(outs[k]) : outs' = [outs EXCEPT ![k] = o]
  /\ UNCHANGED <<origin, suite, bundle, pc, request, todo, worker>>

\* The child returns 0 only after its completion manifest is written.
FinishTrainer ==
  /\ pc = "wait" /\ outs[worker].complete
  /\ pc' = "check" /\ worker' = None
  /\ UNCHANGED <<files, request, todo>>

-----------------------------------------------------------------------------
\* (mutant: the loop goes on with the next capability)
SkipInterrupted ==
  /\ pc = "failed"
  /\ suite' = Mark("interrupted")
  /\ pc' = "next" /\ todo' = todo \ {Current}
  /\ UNCHANGED <<outs, origin, bundle, request, worker>>

RecordInterrupted ==
  /\ pc = "failed"
  /\ suite' = Mark("interrupted")
  /\ Leave
  /\ UNCHANGED <<outs, origin, bundle, worker>>

CheckCompletion ==
  /\ pc = "check"
  /\ IF Completed(Current) THEN pc' = "prune" /\ UNCHANGED <<request, todo>> ELSE Leave
  /\ UNCHANGED <<files, worker>>

\* _prune_completed_kind_checkpoints: all but the one the manifest names.
PruneKind ==
  /\ pc = "prune"
  /\ outs' = [outs EXCEPT ![Current].older = FALSE]
  /\ pc' = "record"
  /\ UNCHANGED <<origin, suite, bundle, request, todo, worker>>

RecordKind ==
  /\ pc = "record"
  /\ suite' = [suite EXCEPT !.kinds[Current] =
                 [status |-> "complete", step |-> outs[Current].latest]]
  /\ todo' = todo \ {Current}
  /\ pc' = "next"
  /\ UNCHANGED <<outs, origin, bundle, request, worker>>

CompleteSuite ==
  /\ pc = "next" /\ todo = {}
  /\ suite' = [suite EXCEPT !.status = "complete"]
  /\ pc' = "publish"
  /\ UNCHANGED <<outs, origin, bundle, request, todo, worker>>

\* _publish_bundle_manifest: the recorded checkpoints must be published and
\* cover all examples.
Publishable ==
  \A k \in Kinds : /\ suite.kinds[k].status = "complete"
                   /\ suite.kinds[k].step = StepsFor(k)
                   /\ suite.kinds[k].step = outs[k].latest

PublishBundle ==
  /\ pc = "publish"
  /\ bundle' = IF Publishable
               THEN [request |-> suite.request, steps |-> [k \in Kinds |-> suite.kinds[k].step]]
               ELSE bundle
  /\ Leave
  /\ UNCHANGED <<outs, origin, suite, worker>>

Exit ==
  /\ pc = "ended"
  /\ pc' = "idle"
  /\ UNCHANGED <<files, request, todo, worker>>

-----------------------------------------------------------------------------
(* Interruption                                                             *)

TrainerLeaves ==
  /\ worker' = None
  /\ IF worker = None THEN UNCHANGED outs
     ELSE \E k \in Kinds : /\ worker = k
                           /\ \E o \in K(k)!Left(outs[k]) : outs' = [outs EXCEPT ![k] = o]

\* The child ends with an error, before or after its preflight.
FailTrainer ==
  /\ pc = "wait" \/ (pc = "run" /\ Acceptable(Current))
  /\ pc' = "failed"
  /\ TrainerLeaves
  /\ UNCHANGED <<origin, suite, bundle, request, todo>>

\* Suite and child are killed.
KillSuite ==
  /\ pc \notin {"idle", "ended"}
  /\ pc' = "idle" /\ request' = None /\ todo' = {}
  /\ TrainerLeaves
  /\ UNCHANGED <<origin, suite, bundle>>

Work ==
  \/ Start \/ LoadSuite \/ NextKind \/ PickCheckpoint
  \/ BeginTrainer \/ RefuseTrainer \/ AdvanceTrainer \/ FinishTrainer
  \/ RecordInterrupted \/ CheckCompletion \/ PruneKind \/ RecordKind
  \/ CompleteSuite \/ PublishBundle \/ Exit

Interrupt == FailTrainer \/ KillSuite

Next == Work \/ Interrupt

Spec == Init /\ [][Next]_vars

\* The command the directory belongs to.
Repeat == Start /\ (suite # None => request' = suite.request)

\* The processes compute, and whoever wants the bundle starts the suite again,
\* now and then with the command it was begun with.
FairSpec == Spec /\ WF_vars(Work) /\ SF_vars(Repeat)

-----------------------------------------------------------------------------
(* Properties                                                               *)

\* What the manifests say is so, however often the suite was interrupted: a
\* capability recorded as complete is trained over its whole schedule; the
\* bundle exists only beside a complete suite and names the final checkpoint of
\* every capability.
ManifestsHonest ==
  /\ suite # None =>
       \A k \in Kinds : suite.kinds[k].status = "complete" =>
         outs[k].complete /\ suite.kinds[k].step = StepsFor(k)
  /\ suite # None /\ suite.status = "complete" =>
       \A k \in Kinds : suite.kinds[k].status = "complete"
  /\ bundle # None =>
       /\ suite.status = "complete"
       /\ \A k \in Kinds : bundle.steps[k] = outs[k].latest /\ bundle.steps[k] = StepsFor(k)

\* No capability is begun before all the smaller ones are trained: interrupted
\* training never leaves two half-trained adapters.
OneAfterAnother ==
  \A j, k \in Kinds : Before(j, k) /\ outs[k] # K(k)!Empty => outs[j].complete

\* Adapters of one bundle come from one dataset, epochs and revisions, even if
\* the suite was started again with another command in between.
OneRequest ==
  /\ \A k \in Kinds : origin[k] # None => origin[k] = suite.request
  /\ bundle # None => bundle.request = suite.request

\* Starting the suite again after the bundle is published, interrupted or not,
\* with whatever command, changes nothing in it.
BundleStable == [][bundle # None => bundle' = bundle]_vars

\* Directories no start can continue from.
Stuck(k) ==
  /\ ~outs[k].complete /\ worker # k
  /\ outs[k].leftover \/ ~K(k)!Accepts(outs[k])

\* Unless interruptions go on forever, the bundle is published, or a directory
\* is in one of the states the code refuses to continue from.
EventuallyPublished ==
  []<><<Interrupt>>_vars \/ <>(bundle # None \/ \E k \in Kinds : Stuck(k))

=============================================================================
