---------------------------- MODULE SuiteProofs ----------------------------
(* Theorems about TrainingSuite: what its manifests say and the order it     *)
(* trains in, for any capabilities, schedules and commands and however often *)
(* suite and trainer are interrupted.                                        *)
EXTENDS TrainingSuite, Recursion

-----------------------------------------------------------------------------
(* The order of capabilities.                                                *)

\* The loop takes the smallest capability that is left, whatever their number.
LEMMA CurrentLeads ==
  ASSUME todo \subseteq Kinds, todo # {}
  PROVE  /\ Current \in todo
         /\ \A j \in Kinds : Before(j, Current) => j \notin todo
<1> DEFINE sizes == {Examples[k] : k \in todo}
<1>1. sizes \in SUBSET Nat /\ sizes # {}
  BY ExamplesAssumption
<1>2. PICK n \in sizes : \A m \in sizes : n <= m
  BY <1>1, LeastOfNats
<1> DEFINE names == {NameOrder[k] : k \in {j \in todo : Examples[j] = n}}
<1>3. names \in SUBSET Nat /\ names # {}
  BY <1>2, NameOrderAssumption
<1>4. PICK i \in names : \A m \in names : i <= m
  BY <1>3, LeastOfNats
<1>5. PICK k \in todo : Examples[k] = n /\ NameOrder[k] = i
  BY <1>4
<1>6. ASSUME NEW j \in todo \ {k} PROVE Before(k, j)
  <2>1. Examples[j] \in sizes /\ n <= Examples[j] /\ n \in Nat /\ Examples[j] \in Nat
    BY <1>1, <1>2
  <2>2. CASE Examples[j] = n
    <3>1. NameOrder[j] \in names
      BY <2>2
    <3>2. i <= NameOrder[j] /\ NameOrder[j] # NameOrder[k]
      BY <1>4, <3>1, NameOrderAssumption
    <3>3. i \in Nat /\ NameOrder[j] \in Nat
      BY <1>3, <3>1
    <3> QED BY <1>5, <2>2, <3>2, <3>3 DEF Before
  <2>3. CASE Examples[j] # n
    BY <1>5, <2>1, <2>3 DEF Before
  <2> QED BY <2>2, <2>3
<1>7. Current \in todo /\ \A j \in todo \ {Current} : Before(Current, j)
  BY <1>6 DEF Current
<1>8. ASSUME NEW j \in Kinds, Before(j, Current) PROVE j \notin todo
  <2>1. Examples[j] \in Nat /\ Examples[Current] \in Nat
        /\ NameOrder[j] \in Nat /\ NameOrder[Current] \in Nat
    BY <1>7, ExamplesAssumption, NameOrderAssumption
  <2>2. j # Current /\ ~Before(Current, j)
    BY <1>8, <2>1 DEF Before
  <2> QED BY <1>7, <2>2
<1> QED BY <1>7, <1>8

-----------------------------------------------------------------------------
(* The directory of a capability.                                            *)

Directory ==
  [logs : BOOLEAN, latest : Int, older : BOOLEAN, leftover : BOOLEAN, complete : BOOLEAN]

LEMMA StepsAreCounted == ASSUME NEW k \in Kinds PROVE StepsFor(k) \in Nat
BY ExamplesAssumption, WindowAssumption DEF StepsFor

\* What a trainer makes of a directory: a completed one stays completed.
LEMMA TrainerAdvances ==
  ASSUME NEW k \in Kinds, NEW p \in Directory, p.complete => p.latest = StepsFor(k),
         NEW o \in K(k)!Advanced(p)
  PROVE  /\ o \in Directory
         /\ o.complete => o.latest = StepsFor(k)
         /\ p.complete => o.complete
<1>1. CASE o = [p EXCEPT !.logs = TRUE]
  BY <1>1 DEF Directory
<1>2. CASE o = [p EXCEPT !.older = FALSE]
  BY <1>2 DEF Directory
<1>3. CASE p.latest = StepsFor(k) /\ o = [p EXCEPT !.complete = TRUE, !.logs = TRUE]
  BY <1>3 DEF Directory
<1>4. CASE p.latest # StepsFor(k)
           /\ o = [p EXCEPT !.latest = K(k)!FollowingStep(p), !.older = p.latest # K(k)!Unpublished]
  <2>1. K(k)!FollowingStep(p) \in Int
    BY DEF K!FollowingStep, K!Unpublished, Directory
  <2> QED BY <1>4, <2>1 DEF Directory
<1> QED BY <1>1, <1>2, <1>3, <1>4 DEF K!Advanced

LEMMA TrainerEnds ==
  ASSUME NEW k \in Kinds, NEW p \in Directory, NEW o \in K(k)!Left(p)
  PROVE  o \in Directory /\ o.complete = p.complete /\ o.latest = p.latest
BY DEF K!Left, Directory

-----------------------------------------------------------------------------
(* The inductive invariant.                                                  *)

\* Of the files, whatever process is at work or none.
FilesInv ==
  /\ outs \in [Kinds -> Directory]
  /\ origin \in [Kinds -> Requests \cup {None}]
  /\ suite \in Manifests \cup {None}
  /\ bundle \in Bundles \cup {None}
  /\ \A k \in Kinds : outs[k].complete => outs[k].latest = StepsFor(k)
  /\ suite # None =>
       /\ \A k \in Kinds : suite.kinds[k].status = "complete" =>
            outs[k].complete /\ suite.kinds[k].step = StepsFor(k)
       /\ suite.status = "complete" => \A k \in Kinds : suite.kinds[k].status = "complete"
  /\ \A k \in Kinds : origin[k] # None => suite # None /\ origin[k] = suite.request
  /\ bundle # None =>
       /\ suite # None /\ suite.status = "complete"
       /\ bundle.request = suite.request
       /\ \A k \in Kinds : bundle.steps[k] = StepsFor(k)
  /\ OneAfterAnother

\* The suite is at one of its capabilities, or between two.
InLoop == {"next", "pick", "run", "wait", "failed", "check", "prune", "record"}

\* Of the suite process: its manifest is the one of its command, what its loop
\* has behind it is complete, and it marks no capability of a complete suite.
ProcessInv ==
  /\ pc \in InLoop \cup {"idle", "load", "publish", "ended"}
  /\ todo \subseteq Kinds
  /\ worker = IF pc = "wait" THEN Current ELSE None
  /\ pc = "load" => request \in Requests
  /\ pc \in InLoop \cup {"publish"} =>
       /\ suite # None /\ suite.request = request
       /\ \A k \in Kinds \ todo : outs[k].complete /\ suite.kinds[k].status = "complete"
  /\ pc \in InLoop \ {"next"} => todo # {}
  /\ pc = "publish" => todo = {} /\ suite.status = "complete"
  /\ pc \in {"prune", "record"} => outs[Current].complete
  /\ pc = "pick" => ~outs[Current].complete
  /\ pc \in {"run", "wait", "failed", "check"} => suite.status # "complete"

IInv == FilesInv /\ ProcessInv

LEMMA SuiteStarts == Init => IInv
<1> SUFFICES ASSUME Init PROVE IInv
  OBVIOUS
<1>1. \A k \in Kinds : outs[k] \in Directory /\ ~outs[k].complete
  BY DEF Init, K!Empty, K!Unpublished, Directory
<1>2. OneAfterAnother
  BY DEF Init, OneAfterAnother, K!Empty
<1>3. FilesInv
  BY <1>1, <1>2 DEF Init, FilesInv
<1>4. ProcessInv
  BY DEF Init, ProcessInv, InLoop
<1> QED BY <1>3, <1>4 DEF IInv

-----------------------------------------------------------------------------
(* Steps that change directories only.                                       *)

\* What becomes of the directory of k in a step.
Grows(k) ==
  \E o \in Directory : /\ outs' = [outs EXCEPT ![k] = o]
                       /\ o.complete => o.latest = StepsFor(k)
                       /\ outs[k].complete => o.complete

LEMMA CurrentKind ==
  ASSUME IInv, pc \in InLoop \ {"next"}
  PROVE  Current \in todo /\ Current \in Kinds
BY CurrentLeads DEF IInv, ProcessInv

LEMMA FilesGrow ==
  ASSUME IInv, pc \in InLoop \ {"next"}, Grows(Current), UNCHANGED <<origin, suite, bundle>>
  PROVE  /\ FilesInv'
         /\ \A k \in Kinds : outs[k].complete => outs'[k].complete
<1> DEFINE c == Current
<1>1. c \in Kinds /\ \A j \in Kinds : Before(j, c) => outs[j].complete
  BY CurrentKind, CurrentLeads DEF IInv, ProcessInv
<1> HIDE DEF c
<1>2. PICK o \in Directory : /\ outs' = [outs EXCEPT ![c] = o]
                             /\ o.complete => o.latest = StepsFor(c)
                             /\ outs[c].complete => o.complete
  BY DEF Grows, c
<1>3. outs \in [Kinds -> Directory]
  BY DEF IInv, FilesInv
<1>4. outs' \in [Kinds -> Directory] /\ \A k \in Kinds : outs[k].complete => outs'[k].complete
  BY <1>1, <1>2, <1>3
<1>5. \A k \in Kinds : outs'[k].complete => outs'[k].latest = StepsFor(k)
  BY <1>1, <1>2, <1>3 DEF IInv, FilesInv
<1>6. OneAfterAnother'
  <2> SUFFICES ASSUME NEW j \in Kinds, NEW k \in Kinds, Before(j, k), outs'[k] # K(k)!Empty
               PROVE  outs'[j].complete
    BY DEF OneAfterAnother, K!Empty, K!Unpublished
  <2>1. CASE k = c
    BY <1>1, <1>4, <2>1
  <2>2. CASE k # c
    <3>1. outs[k] # K(k)!Empty
      BY <1>2, <1>3, <2>2
    <3> QED BY <1>4, <3>1 DEF IInv, FilesInv, OneAfterAnother
  <2> QED BY <2>1, <2>2
<1>7. FilesInv'
  BY <1>4, <1>5, <1>6 DEF IInv, FilesInv
<1> QED BY <1>4, <1>7

LEMMA SameCurrent == ASSUME todo' = todo PROVE Current' = Current
BY DEF Current

\* What keeps the process part while a directory grows.
LEMMA CompletedStay ==
  ASSUME IInv, pc \in InLoop \ {"next"}, Grows(Current),
         UNCHANGED <<origin, suite, bundle, request, todo>>,
         pc' \in InLoop \ {"next"},
         worker' = IF pc' = "wait" THEN Current ELSE None,
         pc' \in {"prune", "record"} => outs'[Current].complete,
         pc' = "pick" => ~outs'[Current].complete,
         pc' \in {"run", "wait", "failed", "check"} => suite.status # "complete"
  PROVE  IInv'
<1>1. FilesInv' /\ \A k \in Kinds : outs[k].complete => outs'[k].complete
  BY FilesGrow
<1>2. Current' = Current
  BY SameCurrent
<1>3. \A k \in Kinds \ todo' : outs'[k].complete /\ suite'.kinds[k].status = "complete"
  BY <1>1 DEF IInv, ProcessInv
<1>4. ProcessInv'
  BY <1>2, <1>3 DEF IInv, ProcessInv, InLoop
<1> QED BY <1>1, <1>4 DEF IInv

\* A step of the process that leaves the files alone.
LEMMA FilesSame ==
  ASSUME IInv, UNCHANGED files
  PROVE  FilesInv'
BY DEF IInv, FilesInv, files, OneAfterAnother, K!Empty, K!Unpublished

LEMMA StepsOutsideLoop ==
  ASSUME IInv, Start \/ Exit
  PROVE  IInv'
<1>1. FilesInv'
  BY FilesSame DEF Start, Exit
<1>2. ProcessInv'
  BY DEF IInv, ProcessInv, InLoop, Start, Exit, files
<1> QED BY <1>1, <1>2 DEF IInv

LEMMA LoadKeeps ==
  ASSUME IInv, LoadSuite
  PROVE  IInv'
<1>1. suite' \in Manifests \cup {None} /\ UNCHANGED <<outs, origin, bundle>> /\ pc = "load" /\ worker = None
      /\ worker' = None /\ request \in Requests
  BY DEF IInv, FilesInv, ProcessInv, LoadSuite, Initial, Manifests, Statuses, Pending, Unpublished
<1>2. CASE suite = None
  <2>1. suite' = Initial(request) /\ suite' # None /\ bundle = None
        /\ \A k \in Kinds : origin[k] = None
    BY <1>1, <1>2, NoFileAssumption DEF IInv, FilesInv, LoadSuite, Initial, Manifests, Statuses,
       Pending, Unpublished
  <2>2. suite'.request = request /\ suite'.status = "in_progress"
        /\ \A k \in Kinds : suite'.kinds[k].status = "pending"
    BY <2>1 DEF Initial, Pending
  <2>3. OneAfterAnother'
    BY <1>1 DEF IInv, FilesInv, OneAfterAnother, K!Empty, K!Unpublished
  <2>4. FilesInv'
    BY <1>1, <2>1, <2>2, <2>3 DEF IInv, FilesInv
  <2>5. ProcessInv'
    BY <1>1, <1>2, <2>1, <2>2 DEF LoadSuite, ProcessInv, InLoop
  <2> QED BY <2>4, <2>5 DEF IInv
<1>3. CASE suite # None
  <2>1. suite' = suite
    BY <1>3 DEF LoadSuite
  <2>2. FilesInv'
    BY <1>1, <2>1, FilesSame DEF files
  <2>3. ProcessInv'
    BY <1>1, <1>3, <2>1 DEF LoadSuite, Matches, Leave, ProcessInv, InLoop
  <2> QED BY <2>2, <2>3 DEF IInv
<1> QED BY <1>2, <1>3

\* A step that writes the status of the current capability into the manifest of
\* a suite that is not complete, while the capability itself is not recorded as
\* complete afterwards.
LEMMA MarkKeeps ==
  ASSUME IInv, pc \in InLoop \ {"next"}, suite.status # "complete",
         NEW status \in {"in_progress", "interrupted"},
         suite' = Mark(status), UNCHANGED <<outs, origin, bundle>>
  PROVE  /\ FilesInv'
         /\ suite' # None /\ suite'.request = suite.request /\ suite'.status = suite.status
         /\ \A k \in Kinds \ {Current} : suite'.kinds[k] = suite.kinds[k]
<1> DEFINE c == Current
<1>1. c \in Kinds /\ suite \in Manifests /\ suite' = [suite EXCEPT !.kinds[c].status = status]
  BY CurrentKind DEF IInv, FilesInv, ProcessInv, Mark
<1> HIDE DEF c
<1>2. suite' \in Manifests /\ suite'.request = suite.request /\ suite'.status = suite.status
  BY <1>1 DEF Manifests, Statuses
<1>3. suite'.kinds[c].status = status /\ \A k \in Kinds \ {c} : suite'.kinds[k] = suite.kinds[k]
  BY <1>1 DEF Manifests, Statuses
<1>4. suite # None /\ suite' # None
  BY <1>1, <1>2, NoFileAssumption
<1>5. OneAfterAnother'
  BY DEF IInv, FilesInv, OneAfterAnother, K!Empty, K!Unpublished
<1>6. \A k \in Kinds : suite'.kinds[k].status = "complete" =>
        outs'[k].complete /\ suite'.kinds[k].step = StepsFor(k)
  BY <1>3, <1>4 DEF IInv, FilesInv
<1>7. FilesInv'
  BY <1>2, <1>4, <1>5, <1>6 DEF IInv, FilesInv
<1> QED BY <1>2, <1>3, <1>4, <1>7 DEF c

-----------------------------------------------------------------------------
(* The steps of the suite's loop.                                            *)

LEMMA NextKindKeeps ==
  ASSUME IInv, NextKind
  PROVE  IInv'
<1>1. FilesInv'
  BY FilesSame DEF NextKind
<1>2. Current' = Current /\ UNCHANGED <<outs, origin, suite, bundle>>
  BY SameCurrent DEF NextKind, files
<1>3. ProcessInv'
  BY <1>2 DEF IInv, ProcessInv, InLoop, NextKind, Completed
<1> QED BY <1>1, <1>3 DEF IInv

LEMMA PickKeeps ==
  ASSUME IInv, PickCheckpoint
  PROVE  IInv'
<1>1. pc = "pick" /\ ~outs[Current].complete /\ Current \in todo /\ Current \in Kinds
      /\ suite # None /\ UNCHANGED <<outs, origin, bundle, worker>> /\ worker = None
  BY CurrentKind DEF IInv, ProcessInv, InLoop, PickCheckpoint
<1>2. suite.status # "complete"
  BY <1>1 DEF IInv, FilesInv
<1>3. CASE outs[Current].leftover
  <2>1. UNCHANGED files
    BY <1>1, <1>3 DEF PickCheckpoint, files
  <2>2. FilesInv'
    BY <2>1, FilesSame
  <2>3. ProcessInv'
    BY <1>1, <1>3 DEF ProcessInv, InLoop, PickCheckpoint, Leave
  <2> QED BY <2>2, <2>3 DEF IInv
<1>4. CASE ~outs[Current].leftover
  <2>1. suite' = Mark("in_progress") /\ pc' = "run" /\ UNCHANGED <<request, todo>>
    BY <1>4 DEF PickCheckpoint
  <2>2. FilesInv' /\ suite' # None /\ suite'.request = suite.request /\ suite'.status = suite.status
        /\ \A k \in Kinds \ {Current} : suite'.kinds[k] = suite.kinds[k]
    BY <1>1, <1>2, <2>1, MarkKeeps DEF InLoop
  <2>3. \A k \in Kinds \ todo' : outs'[k].complete /\ suite'.kinds[k].status = "complete"
    BY <1>1, <2>1, <2>2 DEF IInv, ProcessInv, InLoop
  <2>4. suite'.request = request'
    BY <1>1, <2>1, <2>2 DEF IInv, ProcessInv, InLoop
  <2>5. todo' \subseteq Kinds /\ todo' # {}
    BY <1>1, <2>1 DEF IInv, ProcessInv
  <2>6. ProcessInv'
    BY <1>1, <1>2, <2>1, <2>2, <2>3, <2>4, <2>5 DEF ProcessInv, InLoop
  <2> QED BY <2>2, <2>6 DEF IInv
<1> QED BY <1>3, <1>4

LEMMA BeginKeeps ==
  ASSUME IInv, BeginTrainer
  PROVE  IInv'
<1> DEFINE c == Current
<1>1. c \in Kinds /\ suite # None /\ suite.request = request /\ suite \in Manifests
      /\ origin' = [origin EXCEPT ![c] = request]
      /\ UNCHANGED <<outs, suite, bundle, request, todo>> /\ Current' = Current
  BY CurrentKind, SameCurrent DEF IInv, FilesInv, ProcessInv, InLoop, BeginTrainer
<1>2. pc = "run" /\ pc' = "wait" /\ worker' = c
  BY DEF BeginTrainer
<1> HIDE DEF c
<1>3. request \in Requests
  BY <1>1 DEF Manifests
<1>4. origin' \in [Kinds -> Requests \cup {None}]
      /\ \A k \in Kinds : origin'[k] # None => origin'[k] = suite.request
  BY <1>1, <1>3 DEF IInv, FilesInv
<1>5. OneAfterAnother'
  BY <1>1 DEF IInv, FilesInv, OneAfterAnother, K!Empty, K!Unpublished
<1>6. FilesInv'
  BY <1>1, <1>4, <1>5 DEF IInv, FilesInv
<1>7. ProcessInv'
  BY <1>1, <1>2 DEF IInv, ProcessInv, InLoop, c
<1> QED BY <1>6, <1>7 DEF IInv

LEMMA StepsOfTheWait ==
  ASSUME IInv, RefuseTrainer \/ FinishTrainer \/ CheckCompletion
  PROVE  IInv'
<1>1. UNCHANGED files
  BY DEF RefuseTrainer, FinishTrainer, CheckCompletion
<1>2. FilesInv'
  BY <1>1, FilesSame
<1>3. UNCHANGED <<outs, origin, suite, bundle>>
  BY <1>1 DEF files
<1>4. CASE UNCHANGED <<request, todo>>
  <2>1. Current' = Current
    BY <1>4, SameCurrent
  <2>2. ProcessInv'
    BY <1>3, <1>4, <2>1
       DEF IInv, ProcessInv, InLoop, RefuseTrainer, FinishTrainer, CheckCompletion, Completed, Leave
  <2> QED BY <1>2, <2>2 DEF IInv
<1>5. CASE Leave /\ UNCHANGED worker /\ pc = "check"
  <2>1. ProcessInv'
    BY <1>3, <1>5 DEF IInv, ProcessInv, InLoop, Leave
  <2> QED BY <1>2, <2>1 DEF IInv
<1> QED BY <1>4, <1>5 DEF RefuseTrainer, FinishTrainer, CheckCompletion

LEMMA InterruptedKeeps ==
  ASSUME IInv, RecordInterrupted
  PROVE  IInv'
<1>1. pc = "failed" /\ suite.status # "complete" /\ worker' = None /\ pc' = "ended" /\ todo' = {}
      /\ UNCHANGED <<outs, origin, bundle>> /\ suite' = Mark("interrupted")
  BY DEF IInv, ProcessInv, InLoop, RecordInterrupted, Leave
<1>2. FilesInv'
  BY <1>1, MarkKeeps DEF InLoop
<1>3. ProcessInv'
  BY <1>1 DEF ProcessInv, InLoop
<1> QED BY <1>2, <1>3 DEF IInv

\* A capability is recorded with the last step of its schedule.
LEMMA RecordKeeps ==
  ASSUME IInv, RecordKind
  PROVE  IInv'
<1> DEFINE c == Current
<1>1. c \in todo /\ c \in Kinds /\ outs[c].complete /\ outs[c].latest = StepsFor(c)
      /\ suite \in Manifests /\ suite # None /\ suite.request = request /\ outs[c].latest \in Int
  BY CurrentKind DEF IInv, FilesInv, ProcessInv, InLoop, RecordKind, Directory
<1>2. /\ suite' = [suite EXCEPT !.kinds[c] = [status |-> "complete", step |-> outs[c].latest]]
      /\ todo' = todo \ {c} /\ pc' = "next"
      /\ UNCHANGED <<outs, origin, bundle, request, worker>>
  BY DEF RecordKind
<1>3. worker' = None
  BY <1>2 DEF IInv, ProcessInv, RecordKind
<1> HIDE DEF c
<1>4. suite' \in Manifests /\ suite'.request = suite.request /\ suite'.status = suite.status
  BY <1>1, <1>2 DEF Manifests, Statuses
<1>5. /\ suite'.kinds[c].status = "complete" /\ suite'.kinds[c].step = StepsFor(c)
      /\ \A k \in Kinds \ {c} : suite'.kinds[k] = suite.kinds[k]
  BY <1>1, <1>2 DEF Manifests, Statuses
<1>6. suite' # None
  BY <1>4, NoFileAssumption
<1>7. OneAfterAnother'
  BY <1>2 DEF IInv, FilesInv, OneAfterAnother, K!Empty, K!Unpublished
<1>8. \A k \in Kinds : suite'.kinds[k].status = "complete" =>
        outs'[k].complete /\ suite'.kinds[k].step = StepsFor(k)
  BY <1>1, <1>2, <1>5 DEF IInv, FilesInv
<1>9. suite'.status = "complete" => \A k \in Kinds : suite'.kinds[k].status = "complete"
  BY <1>1, <1>4, <1>5 DEF IInv, FilesInv
<1>10. FilesInv'
  BY <1>1, <1>2, <1>4, <1>6, <1>7, <1>8, <1>9 DEF IInv, FilesInv
<1>11. \A k \in Kinds \ todo' : outs'[k].complete /\ suite'.kinds[k].status = "complete"
  <2> SUFFICES ASSUME NEW k \in Kinds \ todo'
               PROVE  outs'[k].complete /\ suite'.kinds[k].status = "complete"
    OBVIOUS
  <2>1. CASE k = c
    BY <1>1, <1>2, <1>5, <2>1
  <2>2. CASE k # c
    <3>1. k \in Kinds \ todo /\ pc = "record"
      BY <1>2, <2>2 DEF RecordKind
    <3>2. outs[k].complete /\ suite.kinds[k].status = "complete"
      BY <3>1 DEF IInv, ProcessInv, InLoop
    <3> QED BY <1>2, <1>5, <2>2, <3>2
  <2> QED BY <2>1, <2>2
<1>12. ProcessInv'
  BY <1>1, <1>2, <1>3, <1>4, <1>6, <1>11 DEF IInv, ProcessInv, InLoop
<1> QED BY <1>10, <1>12 DEF IInv

LEMMA CompleteKeeps ==
  ASSUME IInv, CompleteSuite
  PROVE  IInv'
<1>1. /\ suite \in Manifests /\ suite # None /\ suite.request = request /\ worker = None
      /\ suite' = [suite EXCEPT !.status = "complete"]
      /\ todo = {} /\ UNCHANGED <<outs, origin, bundle, request, todo, worker>> /\ pc' = "publish"
      /\ \A k \in Kinds : outs[k].complete /\ suite.kinds[k].status = "complete"
  BY DEF IInv, FilesInv, ProcessInv, InLoop, CompleteSuite
<1>2. suite' \in Manifests /\ suite'.request = suite.request /\ suite'.status = "complete"
      /\ suite'.kinds = suite.kinds
  BY <1>1 DEF Manifests
<1>3. suite' # None
  BY <1>2, NoFileAssumption
<1>4. OneAfterAnother'
  BY <1>1 DEF IInv, FilesInv, OneAfterAnother, K!Empty, K!Unpublished
<1>5. FilesInv'
  BY <1>1, <1>2, <1>3, <1>4 DEF IInv, FilesInv
<1>6. ProcessInv'
  BY <1>1, <1>2, <1>3 DEF ProcessInv, InLoop
<1> QED BY <1>5, <1>6 DEF IInv

LEMMA PublishKeeps ==
  ASSUME IInv, PublishBundle
  PROVE  IInv' /\ (bundle # None => bundle' = bundle)
<1>1. /\ suite \in Manifests /\ suite # None /\ suite.status = "complete" /\ worker' = None
      /\ pc' = "ended" /\ todo' = {} /\ UNCHANGED <<outs, origin, suite>>
  BY DEF IInv, FilesInv, ProcessInv, InLoop, PublishBundle, Leave
<1>2. ProcessInv'
  BY <1>1 DEF ProcessInv, InLoop
<1>3. OneAfterAnother'
  BY <1>1 DEF IInv, FilesInv, OneAfterAnother, K!Empty, K!Unpublished
<1>4. CASE ~Publishable
  <2>1. bundle' = bundle
    BY <1>4 DEF PublishBundle
  <2> QED BY <1>1, <1>2, <1>3, <2>1 DEF IInv, FilesInv
<1>5. CASE Publishable
  <2> DEFINE new == [request |-> suite.request, steps |-> [k \in Kinds |-> StepsFor(k)]]
  <2>1. bundle' = new
    BY <1>5 DEF PublishBundle, Publishable
  <2>2. bundle' \in Bundles /\ bundle'.request = suite.request
        /\ \A k \in Kinds : bundle'.steps[k] = StepsFor(k)
    BY <1>1, <2>1, StepsAreCounted DEF Bundles, Manifests
  <2>3. FilesInv'
    BY <1>1, <1>3, <2>2 DEF IInv, FilesInv
  <2>4. ASSUME bundle # None PROVE bundle' = bundle
    <3>1. bundle \in Bundles /\ bundle.request = suite.request
          /\ \A k \in Kinds : bundle.steps[k] = StepsFor(k)
      BY <2>4 DEF IInv, FilesInv
    <3>2. bundle.steps = [k \in Kinds |-> StepsFor(k)]
      BY <3>1 DEF Bundles
    <3>3. bundle = [request |-> bundle.request, steps |-> bundle.steps]
      BY <3>1 DEF Bundles
    <3> QED BY <2>1, <3>1, <3>2, <3>3
  <2> QED BY <1>2, <2>3, <2>4 DEF IInv
<1> QED BY <1>4, <1>5

-----------------------------------------------------------------------------
(* The steps of the trainer, and interruptions.                              *)

LEMMA AdvanceKeeps ==
  ASSUME IInv, AdvanceTrainer
  PROVE  IInv'
<1>1. PICK k \in Kinds : worker = k /\ \E o \in K(k)!Advanced(outs[k]) : outs' = [outs EXCEPT ![k] = o]
  BY DEF AdvanceTrainer
<1>2. pc = "wait" /\ k = Current /\ UNCHANGED <<origin, suite, bundle, pc, request, todo, worker>>
  BY <1>1, NoneAssumption DEF IInv, ProcessInv, AdvanceTrainer
<1>3. outs[k] \in Directory /\ (outs[k].complete => outs[k].latest = StepsFor(k))
  BY DEF IInv, FilesInv
<1>4. Grows(k)
  <2>1. PICK o \in K(k)!Advanced(outs[k]) : outs' = [outs EXCEPT ![k] = o]
    BY <1>1
  <2>2. /\ o \in Directory
        /\ o.complete => o.latest = StepsFor(k)
        /\ outs[k].complete => o.complete
    BY <1>3, TrainerAdvances
  <2> QED BY <2>1, <2>2 DEF Grows
<1>5. suite.status # "complete" /\ worker' = Current
  BY <1>1, <1>2 DEF IInv, ProcessInv
<1> QED BY <1>2, <1>4, <1>5, CompletedStay DEF InLoop

\* The trainer's end leaves its directory as complete as it was.
LEMMA TrainerGrows ==
  ASSUME IInv, TrainerLeaves
  PROVE  /\ worker = None => UNCHANGED outs
         /\ worker # None => pc = "wait" /\ Grows(Current)
<1>1. CASE worker = None
  BY <1>1 DEF TrainerLeaves
<1>2. CASE worker # None
  <2>1. PICK k \in Kinds : worker = k /\ \E o \in K(k)!Left(outs[k]) : outs' = [outs EXCEPT ![k] = o]
    BY <1>2 DEF TrainerLeaves
  <2>2. pc = "wait" /\ k = Current
    BY <1>2, <2>1 DEF IInv, ProcessInv
  <2>3. outs[k] \in Directory /\ (outs[k].complete => outs[k].latest = StepsFor(k))
    BY DEF IInv, FilesInv
  <2>4. Grows(k)
    <3>1. PICK o \in K(k)!Left(outs[k]) : outs' = [outs EXCEPT ![k] = o]
      BY <2>1
    <3>2. o \in Directory /\ o.complete = outs[k].complete /\ o.latest = outs[k].latest
      BY <2>3, TrainerEnds
    <3> QED BY <2>3, <3>1, <3>2 DEF Grows
  <2> QED BY <1>2, <2>2, <2>4
<1> QED BY <1>1, <1>2

LEMMA FailKeeps ==
  ASSUME IInv, FailTrainer
  PROVE  IInv'
<1>1. pc \in {"run", "wait"} /\ pc' = "failed" /\ TrainerLeaves /\ worker' = None
      /\ UNCHANGED <<origin, suite, bundle, request, todo>> /\ suite.status # "complete"
  BY DEF IInv, ProcessInv, FailTrainer, TrainerLeaves
<1>2. CASE worker # None
  BY <1>1, <1>2, TrainerGrows, CompletedStay DEF InLoop
<1>3. CASE worker = None
  <2>1. UNCHANGED files
    BY <1>1, <1>3, TrainerGrows DEF files
  <2>2. FilesInv'
    BY <2>1, FilesSame
  <2>3. ProcessInv'
    BY <1>1, <2>1 DEF IInv, ProcessInv, InLoop, files
  <2> QED BY <2>2, <2>3 DEF IInv
<1> QED BY <1>2, <1>3

LEMMA KillKeeps ==
  ASSUME IInv, KillSuite
  PROVE  IInv'
<1>1. pc' = "idle" /\ todo' = {} /\ worker' = None /\ TrainerLeaves
      /\ UNCHANGED <<origin, suite, bundle>>
  BY DEF KillSuite, TrainerLeaves
<1>2. ProcessInv'
  BY <1>1 DEF ProcessInv, InLoop
<1>3. CASE worker # None
  BY <1>1, <1>2, <1>3, TrainerGrows, FilesGrow DEF IInv, InLoop
<1>4. CASE worker = None
  BY <1>1, <1>2, <1>4, TrainerGrows, FilesSame DEF IInv, files
<1> QED BY <1>3, <1>4

LEMMA PruneKeeps ==
  ASSUME IInv, PruneKind
  PROVE  IInv'
<1> DEFINE c == Current
           o == [outs[c] EXCEPT !.older = FALSE]
<1>1. pc = "prune" /\ pc' = "record" /\ outs' = [outs EXCEPT ![c] = o]
      /\ UNCHANGED <<origin, suite, bundle, request, todo, worker>> /\ worker = None
      /\ outs[c].complete
  BY DEF PruneKind, IInv, ProcessInv
<1>2. c \in Kinds /\ outs \in [Kinds -> Directory]
  BY <1>1, CurrentKind DEF IInv, FilesInv, InLoop
<1>3. outs[c].complete => outs[c].latest = StepsFor(c)
  BY <1>2 DEF IInv, FilesInv
<1> HIDE DEF c
<1>4. o \in Directory /\ (o.complete => o.latest = StepsFor(c)) /\ (outs[c].complete => o.complete)
  BY <1>2, <1>3 DEF Directory
<1>5. outs'[c].complete
  BY <1>1, <1>2, <1>4
<1> HIDE DEF o
<1>6. Grows(c)
  BY <1>1, <1>4 DEF Grows
<1> QED BY <1>1, <1>5, <1>6, CompletedStay DEF c, InLoop

-----------------------------------------------------------------------------
(* The theorems.                                                             *)

\* A step keeps the invariant, and none changes a bundle that is published.
LEMMA SuiteSteps == IInv /\ [Next]_vars => IInv' /\ (bundle # None => bundle' = bundle)
<1> SUFFICES ASSUME IInv, [Next]_vars
             PROVE  IInv' /\ (bundle # None => bundle' = bundle)
  OBVIOUS
<1>1. CASE Start \/ Exit
  BY <1>1, StepsOutsideLoop DEF Start, Exit, files
<1>2. CASE LoadSuite
  BY <1>2, LoadKeeps DEF LoadSuite
<1>3. CASE NextKind
  BY <1>3, NextKindKeeps DEF NextKind, files
<1>4. CASE PickCheckpoint
  BY <1>4, PickKeeps DEF PickCheckpoint
<1>5. CASE BeginTrainer
  BY <1>5, BeginKeeps DEF BeginTrainer
<1>6. CASE RefuseTrainer \/ FinishTrainer \/ CheckCompletion
  BY <1>6, StepsOfTheWait DEF RefuseTrainer, FinishTrainer, CheckCompletion, files
<1>7. CASE AdvanceTrainer
  BY <1>7, AdvanceKeeps DEF AdvanceTrainer
<1>8. CASE RecordInterrupted
  BY <1>8, InterruptedKeeps DEF RecordInterrupted
<1>9. CASE PruneKind
  BY <1>9, PruneKeeps DEF PruneKind
<1>10. CASE RecordKind
  BY <1>10, RecordKeeps DEF RecordKind
<1>11. CASE CompleteSuite
  BY <1>11, CompleteKeeps DEF CompleteSuite
<1>12. CASE PublishBundle
  BY <1>12, PublishKeeps
<1>13. CASE FailTrainer
  BY <1>13, FailKeeps DEF FailTrainer
<1>14. CASE KillSuite
  BY <1>14, KillKeeps DEF KillSuite
<1>15. CASE UNCHANGED vars
  <2>1. FilesInv'
    BY <1>15, FilesSame DEF vars
  <2>2. Current' = Current
    BY <1>15, SameCurrent DEF vars
  <2>3. ProcessInv'
    BY <1>15, <2>2 DEF IInv, ProcessInv, InLoop, vars, files
  <2> QED BY <1>15, <2>1, <2>3 DEF IInv, vars, files
<1> QED
  BY <1>1, <1>2, <1>3, <1>4, <1>5, <1>6, <1>7, <1>8, <1>9, <1>10, <1>11, <1>12, <1>13, <1>14, <1>15
     DEF Next, Work, Interrupt

\* The invariant the theorems below rest on: manifests, directories and the place
\* of the suite in its loop agree at every interruption.
THEOREM SuiteInvariant == Spec => []IInv
BY SuiteStarts, SuiteSteps, PTL DEF Spec

\* What the suite's manifest and its bundle say of the capabilities is so.
THEOREM SuiteManifestsHonest == Spec => []ManifestsHonest
<1>1. IInv => ManifestsHonest
  BY DEF IInv, FilesInv, ManifestsHonest
<1> QED BY <1>1, SuiteInvariant, PTL

\* No capability is begun before every smaller one is trained.
THEOREM SuiteOneAfterAnother == Spec => []OneAfterAnother
<1>1. IInv => OneAfterAnother
  BY DEF IInv, FilesInv
<1> QED BY <1>1, SuiteInvariant, PTL

\* The adapters of a bundle come from one request, whatever was started between.
THEOREM SuiteOneRequest == Spec => []OneRequest
<1>1. IInv => OneRequest
  BY DEF IInv, FilesInv, OneRequest
<1> QED BY <1>1, SuiteInvariant, PTL

\* A published bundle is never changed again.
THEOREM SuiteBundleStable == Spec => BundleStable
<1>1. IInv /\ [Next]_vars => [bundle # None => bundle' = bundle]_vars
  BY SuiteSteps
<1> QED BY <1>1, SuiteInvariant, PTL DEF Spec, BundleStable

=============================================================================
