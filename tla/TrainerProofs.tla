--------------------------- MODULE TrainerProofs ---------------------------
(* Theorems about OPDTrainer: what is published and logged after any number  *)
(* of interruptions is what an uninterrupted run leaves, and a directory     *)
(* shows to the suite what KindOutput says, for any schedule and batch size. *)
EXTENDS OPDTrainer, SequenceTheorems, Recursion

-----------------------------------------------------------------------------
(* Windows.                                                                  *)

LEMMA Quotient ==
  ASSUME NEW w \in Nat \ {0}, NEW q \in Nat, NEW m \in q * w..(q * w + w - 1)
  PROVE  m \div w = q
<1> DEFINE d == m \div w
<1>1. d \in Int /\ m \in Int /\ d * w <= m /\ m < d * w + w
  OBVIOUS
<1> HIDE DEF d
<1>2. CASE d < q
  <2>1. (d + 1) * w <= q * w
    BY <1>1, <1>2
  <2> QED BY <1>1, <2>1
<1>3. CASE d > q
  <2>1. (q + 1) * w <= d * w
    BY <1>1, <1>3
  <2> QED BY <1>1, <2>1
<1> QED BY <1>1, <1>2, <1>3 DEF d

\* The schedule is at the end of a window: s steps over the first n examples.
Progress(n, s) ==
  /\ n \in 0..Total /\ s \in Nat /\ s <= n
  /\ s = StepsOf(n)
  /\ n = Total \/ n = s * Window

LEMMA NothingDone == Progress(0, 0)
<1>1. StepsOf(0) = 0
  BY WindowAssumption, Quotient DEF StepsOf
<1> QED BY <1>1, TotalAssumption, WindowAssumption DEF Progress

\* One more window is one more step, also if the schedule ends within it.
LEMMA WindowDone ==
  ASSUME NEW n, NEW s, Progress(n, s), n < Total
  PROVE  /\ Lower(n + Window, Total) \in n + 1..Total
         /\ Progress(Lower(n + Window, Total), s + 1)
<1> DEFINE e == Lower(n + Window, Total)
<1>1. n \in Nat /\ s \in Nat /\ n = s * Window /\ Window \in Nat \ {0} /\ Total \in Nat
  BY WindowAssumption, TotalAssumption DEF Progress
<1>2. e \in n + 1..Total /\ e <= n + Window /\ (e = Total \/ e = n + Window)
  BY <1>1 DEF Lower
<1>3. (s + 1) * Window = n + Window
  BY <1>1
<1> HIDE DEF e
<1>4. e + Window - 1 \in (s + 1) * Window..((s + 1) * Window + Window - 1)
  BY <1>1, <1>2, <1>3
<1>5. StepsOf(e) = s + 1
  BY <1>1, <1>4, Quotient DEF StepsOf
<1> QED BY <1>1, <1>2, <1>3, <1>5 DEF Progress, e

LEMMA StepsWithin ==
  ASSUME NEW n, NEW s, Progress(n, s)
  PROVE  /\ StepsOf(Total) \in Nat /\ s <= StepsOf(Total)
         /\ n < Total => s < StepsOf(Total)
<1>1. StepsOf(Total) \in Nat
  BY WindowAssumption, TotalAssumption DEF StepsOf
<1>2. CASE n = Total
  BY <1>1, <1>2 DEF Progress
<1>3. CASE n # Total
  <2> DEFINE t == StepsOf(Total)
  <2>1. n < Total /\ n = s * Window /\ s \in Nat /\ Window \in Nat \ {0} /\ Total \in Nat
    BY <1>3, WindowAssumption, TotalAssumption DEF Progress
  <2>2. Total + Window - 1 < t * Window + Window
    BY <2>1 DEF StepsOf
  <2> HIDE DEF t
  <2>3. ASSUME t <= s PROVE FALSE
    <3>1. t * Window <= s * Window
      BY <1>1, <2>1, <2>3 DEF t
    <3>2. t * Window \in Int
      BY <1>1, <2>1 DEF t
    <3> QED BY <2>1, <2>2, <3>1, <3>2
  <2> QED BY <1>1, <2>1, <2>3 DEF t
<1> QED BY <1>2, <1>3

\* An example of a window is drawn with the weights of the steps before it.
LEMMA ReferenceRow ==
  ASSUME NEW n, NEW s, Progress(n, s), n < Total, NEW k \in n + 1..Lower(n + Window, Total)
  PROVE  Reference(k) = [index |-> k, weights |-> s, draws |-> k - 1] /\ Reference(k) \in Rows
<1>1. n = s * Window /\ s \in Nat /\ Window \in Nat \ {0} /\ n \in Nat /\ k \in Nat \ {0}
      /\ k <= n + Window /\ Total \in Nat
  BY WindowAssumption, TotalAssumption DEF Progress, Lower
<1>2. k - 1 \in s * Window..(s * Window + Window - 1)
  BY <1>1
<1>3. (k - 1) \div Window = s
  BY <1>1, <1>2, Quotient
<1> QED BY <1>1, <1>3 DEF Reference, Rows

-----------------------------------------------------------------------------
(* Logs.                                                                     *)

LogLen(log) == IF log = None THEN 0 ELSE Len(log)

\* A log that holds the rows of an uninterrupted run, as far as it goes.
ExactLog(log) == log = None \/ (log \in Seq(Rows) /\ \A k \in 1..Len(log) : log[k] = Reference(k))

LEMMA AppendsExactly ==
  ASSUME NEW log, ExactLog(log), NEW row \in Rows, row = Reference(LogLen(log) + 1)
  PROVE  /\ ExactLog(Appended(log, row))
         /\ LogLen(Appended(log, row)) = LogLen(log) + 1
         /\ Appended(log, row) # None
<1>1. CASE log = None
  <2> DEFINE new == <<row>>
  <2>1. new \in Seq(Rows) /\ Len(new) = 1 /\ new[1] = row
    OBVIOUS
  <2>2. LogLen(log) = 0 /\ Appended(log, row) = new
    BY <1>1 DEF LogLen, Appended
  <2> HIDE DEF new
  <2>3. new # None /\ LogLen(new) = 1
    BY <2>1, NoneAssumption DEF LogLen
  <2>4. \A k \in 1..Len(new) : new[k] = Reference(k)
    BY <2>1, <2>2
  <2> QED BY <2>1, <2>2, <2>3, <2>4 DEF ExactLog
<1>2. CASE log # None
  <2> DEFINE new == Append(log, row)
  <2>1. log \in Seq(Rows) /\ \A k \in 1..Len(log) : log[k] = Reference(k)
    BY <1>2 DEF ExactLog
  <2>2. new \in Seq(Rows) /\ Len(new) = Len(log) + 1 /\ new[Len(log) + 1] = row
        /\ \A k \in 1..Len(log) : new[k] = log[k]
    BY <2>1, AppendProperties
  <2>3. \A k \in 1..Len(new) : new[k] = Reference(k)
    BY <1>2, <2>1, <2>2 DEF LogLen
  <2>4. new # None
    BY <2>2, NoneAssumption
  <2> QED BY <1>2, <2>2, <2>3, <2>4 DEF ExactLog, LogLen, Appended
<1> QED BY <1>1, <1>2

LEMMA RestoresExactly ==
  ASSUME NEW log, ExactLog(log), NEW n \in Nat, CommittedRows(log, n)
  PROVE  /\ ExactLog(Restored(log, n))
         /\ LogLen(Restored(log, n)) = n
         /\ Restored(log, n) # None
<1> DEFINE new == SubSeq(log, 1, n)
<1>1. log \in Seq(Rows) /\ n <= Len(log) /\ \A k \in 1..Len(log) : log[k] = Reference(k)
  BY DEF ExactLog, CommittedRows
<1>2. \A i \in 1..n : log[i] \in Rows
  BY <1>1
<1>3. new \in Seq(Rows) /\ Len(new) = n /\ \A i \in 1..n : new[i] = log[i]
  BY <1>2, SubSeqProperties
<1>4. new # None
  BY <1>3, NoneAssumption
<1> QED BY <1>1, <1>3, <1>4 DEF ExactLog, LogLen, Restored

LEMMA CreatedEmpty ==
  ASSUME NEW log, ExactLog(log), NEW new, new = IF log = None THEN <<>> ELSE log
  PROVE  ExactLog(new) /\ LogLen(new) = LogLen(log) /\ new # None
<1>1. <<>> \in Seq(Rows) /\ Len(<<>>) = 0 /\ <<>> # None
  BY EmptySeq, NoneAssumption
<1>2. CASE log = None
  BY <1>1, <1>2 DEF ExactLog, LogLen
<1>3. CASE log # None
  BY <1>3 DEF ExactLog, LogLen
<1> QED BY <1>2, <1>3

-----------------------------------------------------------------------------
(* The latest checkpoint.                                                    *)

LEMMA HighestOf ==
  ASSUME NEW S \in SUBSET Checkpoints, S # {}, \A c \in S : c.step <= Total
  PROVE  \E c \in S : \A d \in S : d.step <= c.step
<1> DEFINE rest == {Total - c.step : c \in S}
<1>1. rest \in SUBSET Nat /\ rest # {}
  BY TotalAssumption DEF Checkpoints
<1>2. PICK m \in rest : \A k \in rest : m <= k
  BY <1>1, LeastOfNats
<1>3. PICK c \in S : m = Total - c.step
  BY <1>2
<1>4. ASSUME NEW d \in S PROVE d.step <= c.step
  <2>1. d.step \in Nat /\ c.step \in Nat /\ Total - c.step <= Total - d.step
    BY <1>2, <1>3 DEF Checkpoints
  <2> QED BY <2>1, TotalAssumption
<1> QED BY <1>4

-----------------------------------------------------------------------------
(* The inductive invariant.                                                  *)

\* The policy of an uninterrupted run after s steps and d draws.
PolicyAt(s, d) == [weights |-> s, moments |-> s, draws |-> d]

\* Of the directory, whatever interrupted the processes before.
FilesInv ==
  /\ ExactLog(generations) /\ ExactLog(metrics)
  /\ torn \subseteq {"generations", "metrics"}
  /\ "generations" \in torn => generations # None
  /\ "metrics" \in torn => metrics # None
  /\ checkpoints \in SUBSET Checkpoints /\ IsFiniteSet(checkpoints)
  /\ \A c \in checkpoints :
       Progress(c.completed, c.step) /\ c.policy = PolicyAt(c.step, c.completed)
  /\ manifest \in Manifests \cup {None}
  /\ Finished => torn = {} /\ LogLen(generations) = Total /\ LogLen(metrics) = Total

\* Both logs have n rows and no half one.
LogsAt(n) == torn = {} /\ LogLen(generations) = n /\ LogLen(metrics) = n

PublishedStep == IF checkpoints = {} THEN 0 ELSE Latest.step

\* The step after the latest checkpoint is about to be published.
Unsaved ==
  IF checkpoints = {} THEN steps = (IF Total = 0 THEN 0 ELSE 1)
  ELSE Total > 0 /\ steps = Latest.step + 1

Restoring == {"restore generations", "restore metrics", "load"}
InWindow == {"sample", "measure", "update"}
Saving == {"write", "describe", "publish"}
Saved == {"prune", "report"}
Busy == {"seed"} \cup Restoring \cup InWindow \cup Saving \cup Saved

\* Of the process: a restored or a fresh one is where an uninterrupted run would
\* be at its example, with the logs of that run.
ProcessInv ==
  /\ pc \in Busy \cup {"idle", "preflight", "refused", "exit"}
  /\ pc \in Busy \cup {"preflight"} => ~Finished
  /\ pc = "preflight" => resume = PublishedCheckpoint
  /\ pc = "seed" => FreshOutput
  /\ pc \in Restoring => checkpoints # {} /\ resume = Latest /\ Resumable(Latest)
  /\ pc \in {"restore metrics", "load"} =>
       LogLen(generations) = resume.completed /\ "generations" \notin torn
  /\ pc = "load" => LogLen(metrics) = resume.completed /\ "metrics" \notin torn
  /\ pc \in InWindow \cup Saving \cup Saved => Progress(completed, steps)
  /\ pc \in InWindow =>
       /\ completed < Total /\ steps = PublishedStep
       /\ torn = {} /\ LogLen(metrics) = cursor - 1
       /\ cursor \in Nat /\ completed < cursor /\ cursor <= WindowEnd + 1
  /\ pc = "sample" =>
       /\ cursor <= WindowEnd /\ LogLen(generations) = cursor - 1
       /\ policy = PolicyAt(steps, cursor - 1)
  /\ pc = "measure" =>
       /\ cursor <= WindowEnd /\ LogLen(generations) = cursor
       /\ policy = PolicyAt(steps, cursor)
  /\ pc = "update" =>
       /\ cursor = WindowEnd + 1 /\ LogLen(generations) = WindowEnd
       /\ policy = PolicyAt(steps, WindowEnd)
  /\ pc \in Saving \cup Saved =>
       /\ cursor = completed + 1 /\ LogsAt(completed)
       /\ policy = PolicyAt(steps, completed)
  /\ pc \in Saving => Unsaved
  /\ pc \in Saved => checkpoints # {} /\ Latest.step = steps

IInv == FilesInv /\ ProcessInv

LEMMA LatestIsOne ==
  ASSUME FilesInv, checkpoints # {}
  PROVE  /\ Latest \in checkpoints /\ Latest \in Checkpoints
         /\ \A d \in checkpoints : d.step <= Latest.step
         /\ Progress(Latest.completed, Latest.step)
         /\ Latest.policy = PolicyAt(Latest.step, Latest.completed)
<1>1. \A c \in checkpoints : c.step <= Total
  BY TotalAssumption DEF FilesInv, Progress
<1>2. \E c \in checkpoints : \A d \in checkpoints : d.step <= c.step
  BY <1>1, HighestOf DEF FilesInv
<1>3. Latest \in checkpoints /\ \A d \in checkpoints : d.step <= Latest.step
  BY <1>2 DEF Latest
<1> QED BY <1>3 DEF FilesInv

LEMMA TrainerStarts == Init => IInv
<1> SUFFICES ASSUME Init PROVE IInv
  OBVIOUS
<1>1. ~Finished
  BY DEF Init, Finished
<1>2. FilesInv
  BY <1>1, FS_EmptySet DEF Init, FilesInv, ExactLog
<1>3. ProcessInv
  BY DEF Init, ProcessInv, Busy, Restoring, InWindow, Saving, Saved
<1> QED BY <1>2, <1>3 DEF IInv

-----------------------------------------------------------------------------
(* Steps that leave the directory alone.                                     *)

LEMMA FilesSame ==
  ASSUME IInv, UNCHANGED files
  PROVE  /\ FilesInv' /\ UNCHANGED <<generations, metrics, torn, checkpoints, manifest>>
         /\ Finished' = Finished /\ Latest' = Latest
         /\ FreshOutput' = FreshOutput /\ PublishedStep' = PublishedStep
         /\ PublishedCheckpoint' = PublishedCheckpoint
<1>1. UNCHANGED <<generations, metrics, torn, checkpoints, manifest>>
  BY DEF files, logs
<1>2. Finished' = Finished
  BY <1>1 DEF Finished
<1>3. Latest' = Latest
  BY <1>1 DEF Latest
<1>4. FilesInv'
  BY <1>1, <1>2 DEF IInv, FilesInv
<1> QED BY <1>1, <1>2, <1>3, <1>4 DEF FreshOutput, PublishedStep, PublishedCheckpoint

LEMMA LaunchKeeps == ASSUME IInv, Launch PROVE IInv'
<1>1. UNCHANGED files /\ pc' = "preflight" /\ ~Finished /\ resume' = PublishedCheckpoint
  BY DEF Launch
<1>2. ProcessInv'
  BY <1>1, FilesSame DEF ProcessInv, Busy, Restoring, InWindow, Saving, Saved
<1> QED BY <1>1, <1>2, FilesSame DEF IInv

LEMMA PreflightKeeps == ASSUME IInv, Preflight PROVE IInv'
<1>1. /\ UNCHANGED files /\ UNCHANGED resume /\ resume = PublishedCheckpoint /\ ~Finished
      /\ \/ pc' = "seed" /\ FreshOutput
         \/ pc' = "restore generations" /\ resume # None /\ Resumable(resume)
         \/ pc' = "refused"
  BY DEF Preflight, IInv, ProcessInv, local
<1>2. resume # None => checkpoints # {} /\ resume = Latest
  BY <1>1 DEF PublishedCheckpoint
<1>3. FilesInv' /\ Finished' = Finished /\ Latest' = Latest /\ checkpoints' = checkpoints
      /\ FreshOutput' = FreshOutput
  <2>1. UNCHANGED files
    BY DEF Preflight
  <2> QED BY <2>1, FilesSame
<1>4. ProcessInv'
  BY <1>1, <1>2, <1>3 DEF ProcessInv, Busy, Restoring, InWindow, Saving, Saved, Resumable
<1> QED BY <1>3, <1>4 DEF IInv

LEMMA SeedKeeps == ASSUME IInv, SeedFresh PROVE IInv'
<1>1. /\ UNCHANGED files /\ FreshOutput /\ ~Finished
      /\ pc' = (IF Total = 0 THEN "write" ELSE "sample")
      /\ completed' = 0 /\ steps' = 0 /\ cursor' = 1 /\ policy' = PolicyAt(0, 0)
  BY DEF SeedFresh, IInv, ProcessInv, Busy, Start0, PolicyAt
<1>2. torn = {} /\ LogLen(generations) = 0 /\ LogLen(metrics) = 0 /\ checkpoints = {}
  BY <1>1 DEF FreshOutput, IInv, FilesInv, LogLen
<1>3. Progress(completed', steps') /\ PublishedStep = 0
  BY <1>1, <1>2, NothingDone DEF PublishedStep
<1>4. UNCHANGED <<generations, metrics, torn, checkpoints, manifest>> /\ FilesInv'
      /\ ~Finished' /\ PublishedStep' = 0
  BY <1>1, <1>3, FilesSame
<1>5. CASE Total = 0
  <2>1. Unsaved' /\ LogsAt(0)' /\ pc' = "write"
    BY <1>1, <1>2, <1>4, <1>5 DEF Unsaved, LogsAt
  <2>2. ProcessInv'
    BY <1>1, <1>2, <1>3, <1>4, <2>1 DEF ProcessInv, Busy, Restoring, InWindow, Saving, Saved, LogsAt
  <2> QED BY <1>4, <2>2 DEF IInv
<1>6. CASE Total # 0
  <2>1. 0 < Total /\ WindowEnd' \in 1..Total /\ pc' = "sample"
    BY <1>1, <1>3, <1>6, TotalAssumption, WindowDone DEF WindowEnd
  <2>3. torn' = {} /\ LogLen(generations') = cursor' - 1 /\ LogLen(metrics') = cursor' - 1
        /\ policy' = PolicyAt(steps', cursor' - 1)
    BY <1>1, <1>2, <1>4
  <2>2. ProcessInv'
    <3>1. completed' < Total /\ steps' = PublishedStep' /\ cursor' <= WindowEnd'
      BY <1>1, <1>4, <2>1, TotalAssumption
    <3>3. cursor' \in Nat /\ completed' < cursor' /\ cursor' <= WindowEnd' + 1
      <4>1. PICK w \in 1..Total : WindowEnd' = w
        BY <2>1
      <4> QED BY <1>1, <4>1, TotalAssumption
    <3>2. Progress(completed', steps') /\ ~Finished'
      BY <1>3, <1>4
    <3> QED BY <2>1, <2>3, <3>1, <3>2, <3>3 DEF ProcessInv, Busy, Restoring, InWindow, Saving, Saved
  <2> QED BY <1>4, <2>2 DEF IInv
<1> QED BY <1>5, <1>6

\* A process that leaves: nothing is said of its progress any more.
LEMMA LeavingKeeps ==
  ASSUME IInv, pc' \in {"idle", "refused", "exit"}, FilesInv'
  PROVE  IInv'
BY DEF IInv, ProcessInv, Busy, Restoring, InWindow, Saving, Saved

LEMMA UpdateKeeps == ASSUME IInv, UpdatePolicy PROVE IInv'
<1> DEFINE e == WindowEnd
<1>1. /\ pc = "update" /\ UNCHANGED files /\ pc' = "write" /\ ~Finished
      /\ completed' = e /\ steps' = steps + 1 /\ cursor' = cursor
      /\ policy' = [policy EXCEPT !.weights = @ + 1, !.moments = @ + 1]
  BY DEF UpdatePolicy, IInv, ProcessInv, Busy, InWindow
<1>2. /\ Progress(completed, steps) /\ completed < Total /\ steps = PublishedStep /\ torn = {}
      /\ cursor = e + 1 /\ LogLen(generations) = e /\ LogLen(metrics) = cursor - 1
      /\ policy = PolicyAt(steps, e)
  BY <1>1 DEF IInv, ProcessInv, InWindow
<1>3. Progress(e, steps + 1) /\ e \in Nat /\ steps \in Nat /\ Total > 0
  <2>1. Progress(e, steps + 1)
    BY <1>2, WindowDone DEF WindowEnd
  <2>2. steps \in Nat /\ completed \in Nat
    BY <1>2 DEF Progress
  <2> HIDE DEF e
  <2>3. e \in Nat
    BY <2>1 DEF Progress
  <2> QED BY <1>2, <2>1, <2>2, <2>3, TotalAssumption
<1> HIDE DEF e
<1>4. policy' = PolicyAt(steps + 1, e)
  BY <1>1, <1>2, <1>3 DEF PolicyAt
<1>5. FilesInv' /\ UNCHANGED <<generations, metrics, torn, checkpoints, manifest>> /\ ~Finished'
      /\ Latest' = Latest
  BY <1>1, FilesSame
<1>6. torn' = {} /\ LogLen(generations') = e /\ LogLen(metrics') = e
  BY <1>2, <1>3, <1>5
<1>7. Unsaved'
  BY <1>1, <1>2, <1>3, <1>5 DEF Unsaved, PublishedStep
<1>8. ProcessInv'
  BY <1>1, <1>2, <1>3, <1>4, <1>5, <1>6, <1>7
     DEF ProcessInv, Busy, Restoring, InWindow, Saving, Saved, LogsAt
<1> QED BY <1>5, <1>8 DEF IInv

LEMMA WritingKeeps == ASSUME IInv, WriteFiles \/ WriteCheckpointManifest PROVE IInv'
<1>1. UNCHANGED files /\ UNCHANGED <<resume, completed, steps, cursor, policy>>
      /\ pc \in Saving /\ pc' \in {"describe", "publish"}
  BY DEF WriteFiles, WriteCheckpointManifest, local, Saving
<1>2. FilesInv' /\ UNCHANGED <<generations, metrics, torn, checkpoints, manifest>>
      /\ Finished' = Finished /\ Latest' = Latest
  BY <1>1, FilesSame
<1>3. Unsaved' /\ LogsAt(completed)'
  BY <1>1, <1>2 DEF IInv, ProcessInv, Unsaved, LogsAt
<1>4. ProcessInv'
  BY <1>1, <1>2, <1>3 DEF IInv, ProcessInv, Busy, Restoring, InWindow, Saving, Saved
<1> QED BY <1>2, <1>4 DEF IInv

-----------------------------------------------------------------------------
(* Steps that change the directory.                                          *)

LEMMA RestoreGenerationsKeeps == ASSUME IInv, RestoreGenerations PROVE IInv'
<1>1. /\ pc = "restore generations" /\ CommittedRows(generations, resume.completed)
      /\ pc' = "restore metrics" /\ resume' = resume
      /\ generations' = Restored(generations, resume.completed)
      /\ torn' = torn \ {"generations"}
      /\ metrics' = metrics /\ checkpoints' = checkpoints /\ manifest' = manifest
  BY DEF RestoreGenerations, local
<1>2. checkpoints # {} /\ resume = Latest /\ Resumable(Latest) /\ ~Finished
  BY <1>1 DEF IInv, ProcessInv, Restoring, Busy
<1>3. resume.completed \in Nat
  BY <1>2, LatestIsOne DEF IInv, Checkpoints
<1>4. ExactLog(generations') /\ LogLen(generations') = resume.completed /\ generations' # None
  BY <1>1, <1>3, RestoresExactly DEF IInv, FilesInv
<1>5. ~Finished' /\ Latest' = Latest
  BY <1>1, <1>2 DEF Finished, Latest
<1>6. FilesInv'
  BY <1>1, <1>4, <1>5 DEF IInv, FilesInv
<1>7. ProcessInv'
  BY <1>1, <1>2, <1>4, <1>5 DEF ProcessInv, Busy, Restoring, InWindow, Saving, Saved, Resumable
<1> QED BY <1>6, <1>7 DEF IInv

LEMMA RestoreMetricsKeeps == ASSUME IInv, RestoreMetrics PROVE IInv'
<1>1. /\ pc = "restore metrics" /\ CommittedRows(metrics, resume.completed)
      /\ pc' = "load" /\ resume' = resume
      /\ metrics' = Restored(metrics, resume.completed)
      /\ torn' = torn \ {"metrics"}
      /\ generations' = generations /\ checkpoints' = checkpoints /\ manifest' = manifest
  BY DEF RestoreMetrics, local
<1>2. checkpoints # {} /\ resume = Latest /\ Resumable(Latest) /\ ~Finished
      /\ LogLen(generations) = resume.completed /\ "generations" \notin torn
  BY <1>1 DEF IInv, ProcessInv, Restoring, Busy
<1>3. resume.completed \in Nat
  BY <1>2, LatestIsOne DEF IInv, Checkpoints
<1>4. ExactLog(metrics') /\ LogLen(metrics') = resume.completed /\ metrics' # None
  BY <1>1, <1>3, RestoresExactly DEF IInv, FilesInv
<1>5. ~Finished' /\ Latest' = Latest
  BY <1>1, <1>2 DEF Finished, Latest
<1>6. FilesInv'
  BY <1>1, <1>4, <1>5 DEF IInv, FilesInv
<1>7. LogLen(generations') = resume'.completed /\ "generations" \notin torn'
      /\ LogLen(metrics') = resume'.completed /\ "metrics" \notin torn'
  BY <1>1, <1>2, <1>4
<1>8. ProcessInv'
  BY <1>1, <1>2, <1>5, <1>7 DEF ProcessInv, Busy, Restoring, InWindow, Saving, Saved, Resumable
<1> QED BY <1>6, <1>8 DEF IInv

\* A directory in which only the manifest changes, to one that says it is finished
\* only if the logs are whole.
LEMMA ManifestWritten ==
  ASSUME IInv, NEW m \in Manifests, manifest' = m,
         m.status = "complete" => LogsAt(Total),
         UNCHANGED <<generations, metrics, torn, checkpoints>>
  PROVE  FilesInv' /\ (Finished' => m.status = "complete")
<1>1. Finished' => m.status = "complete"
  BY DEF Finished
<1>2. Finished' => torn' = {} /\ LogLen(generations') = Total /\ LogLen(metrics') = Total
  BY <1>1 DEF LogsAt
<1> QED BY <1>1, <1>2 DEF IInv, FilesInv

LEMMA LoadKeeps == ASSUME IInv, LoadCheckpoint PROVE IInv'
<1> DEFINE n == resume.completed
           s == resume.step
<1>1. /\ pc = "load" /\ resume' = resume
      /\ policy' = resume.policy /\ completed' = n /\ steps' = s /\ cursor' = n + 1
      /\ UNCHANGED <<generations, metrics, torn, checkpoints>>
  BY DEF LoadCheckpoint, Loaded, logs
<1>2. /\ checkpoints # {} /\ resume = Latest /\ ~Finished
      /\ LogLen(generations) = n /\ LogLen(metrics) = n
      /\ "generations" \notin torn /\ "metrics" \notin torn
  BY <1>1 DEF IInv, ProcessInv, Restoring, Busy
<1>3. resume \in Checkpoints /\ Progress(n, s) /\ resume.policy = PolicyAt(s, n)
  BY <1>2, LatestIsOne DEF IInv
<1>4. n \in Nat /\ s \in Nat /\ n <= Total
  BY <1>3, TotalAssumption DEF Progress
<1>5. torn = {}
  BY <1>2 DEF IInv, FilesInv
<1>6. CASE n = Total
  <2>1. pc' = "exit" /\ manifest' = ManifestOf(resume)
    BY <1>6 DEF LoadCheckpoint
  <2>2. ManifestOf(resume) \in Manifests
    BY <1>4 DEF ManifestOf, Manifests
  <2>3. FilesInv'
    BY <1>1, <1>2, <1>5, <1>6, <2>1, <2>2, ManifestWritten DEF LogsAt
  <2> QED BY <2>1, <2>3, LeavingKeeps
<1>7. CASE n # Total
  <2>1. pc' = "sample" /\ manifest' = manifest
    BY <1>7 DEF LoadCheckpoint
  <2>2. ~Finished' /\ FilesInv'
    BY <1>1, <1>2, <2>1 DEF Finished, IInv, FilesInv
  <2>3. PublishedStep' = s
    BY <1>1, <1>2 DEF PublishedStep, Latest
  <2>4. n < Total
    BY <1>4, <1>7, TotalAssumption
  <2>5. PICK w \in n + 1..Total : WindowEnd' = w
    BY <1>1, <1>3, <2>4, WindowDone DEF WindowEnd
  <2>6. /\ completed' < Total /\ cursor' \in Nat /\ completed' < cursor'
        /\ cursor' <= WindowEnd' /\ cursor' <= WindowEnd' + 1
    BY <1>1, <1>4, <2>4, <2>5, TotalAssumption
  <2>7. cursor' - 1 = n
    BY <1>1, <1>4
  <2>8. torn' = {} /\ LogLen(generations') = cursor' - 1 /\ LogLen(metrics') = cursor' - 1
        /\ policy' = PolicyAt(steps', cursor' - 1) /\ Progress(completed', steps')
        /\ steps' = PublishedStep'
    BY <1>1, <1>2, <1>3, <1>5, <2>3, <2>7
  <2>9. ProcessInv'
    BY <2>1, <2>2, <2>6, <2>8 DEF ProcessInv, Busy, Restoring, InWindow, Saving, Saved
  <2> QED BY <2>2, <2>9 DEF IInv
<1> QED BY <1>6, <1>7

\* The row of the example a process is at is the one of an uninterrupted run.
LEMMA SampledRow ==
  ASSUME IInv, pc \in {"sample", "measure"}
  PROVE  /\ Reference(cursor) = [index |-> cursor, weights |-> steps, draws |-> cursor - 1]
         /\ Reference(cursor) \in Rows
         /\ cursor \in Nat /\ steps \in Nat /\ WindowEnd \in Nat /\ cursor <= WindowEnd
<1>1. Progress(completed, steps) /\ completed < Total /\ cursor \in Nat /\ completed < cursor
      /\ cursor <= WindowEnd
  BY DEF IInv, ProcessInv, InWindow
<1>2. completed \in Nat /\ steps \in Nat
  BY <1>1 DEF Progress
<1>3. WindowEnd \in completed + 1..Total
  BY <1>1, WindowDone DEF WindowEnd
<1>4. cursor \in completed + 1..WindowEnd
  BY <1>1, <1>2, <1>3, TotalAssumption
<1> QED BY <1>1, <1>2, <1>3, <1>4, ReferenceRow, TotalAssumption DEF WindowEnd

LEMMA SampleKeeps == ASSUME IInv, SampleExample PROVE IInv'
<1>1. /\ pc = "sample" /\ pc' = "measure"
      /\ generations' = Appended(generations, RowOf(cursor, policy))
      /\ policy' = [policy EXCEPT !.draws = @ + 1]
      /\ metrics' = metrics /\ torn' = torn /\ checkpoints' = checkpoints /\ manifest' = manifest
      /\ completed' = completed /\ steps' = steps /\ cursor' = cursor
  BY DEF SampleExample
<1>2. /\ ~Finished /\ Progress(completed, steps) /\ completed < Total /\ steps = PublishedStep
      /\ torn = {} /\ LogLen(metrics) = cursor - 1 /\ LogLen(generations) = cursor - 1
      /\ completed < cursor /\ cursor <= WindowEnd /\ cursor <= WindowEnd + 1
      /\ policy = PolicyAt(steps, cursor - 1)
  BY <1>1 DEF IInv, ProcessInv, InWindow, Busy
<1>3. Reference(cursor) = [index |-> cursor, weights |-> steps, draws |-> cursor - 1]
      /\ Reference(cursor) \in Rows /\ cursor \in Nat /\ steps \in Nat
  BY <1>1, SampledRow
<1>4. RowOf(cursor, policy) = Reference(cursor) /\ policy' = PolicyAt(steps, cursor)
  BY <1>1, <1>2, <1>3 DEF RowOf, PolicyAt
<1>5. LogLen(generations) + 1 = cursor
  BY <1>2, <1>3
<1>6. ExactLog(generations') /\ LogLen(generations') = cursor /\ generations' # None
  BY <1>1, <1>3, <1>4, <1>5, AppendsExactly DEF IInv, FilesInv
<1>7. ~Finished' /\ PublishedStep' = PublishedStep /\ WindowEnd' = WindowEnd
  BY <1>1, <1>2 DEF Finished, PublishedStep, Latest, WindowEnd
<1>8. FilesInv'
  BY <1>1, <1>6, <1>7 DEF IInv, FilesInv
<1>9. ProcessInv'
  BY <1>1, <1>2, <1>3, <1>4, <1>6, <1>7
     DEF ProcessInv, Busy, Restoring, InWindow, Saving, Saved
<1> QED BY <1>8, <1>9 DEF IInv

LEMMA MeasureKeeps == ASSUME IInv, MeasureExample PROVE IInv'
<1> DEFINE k == cursor
<1>1. /\ pc = "measure" /\ pc' = (IF k = WindowEnd THEN "update" ELSE "sample")
      /\ metrics' = Appended(metrics, RowOf(k, [policy EXCEPT !.draws = @ - 1]))
      /\ generations' = generations /\ torn' = torn
      /\ checkpoints' = checkpoints /\ manifest' = manifest
      /\ completed' = completed /\ steps' = steps /\ cursor' = k + 1 /\ policy' = policy
  BY DEF MeasureExample
<1>2. /\ ~Finished /\ Progress(completed, steps) /\ completed < Total /\ steps = PublishedStep
      /\ torn = {} /\ LogLen(metrics) = k - 1 /\ LogLen(generations) = k
      /\ completed < k /\ k <= WindowEnd
      /\ policy = PolicyAt(steps, k)
  BY <1>1 DEF IInv, ProcessInv, InWindow, Busy
<1>3. Reference(k) = [index |-> k, weights |-> steps, draws |-> k - 1]
      /\ Reference(k) \in Rows /\ k \in Nat /\ steps \in Nat /\ WindowEnd \in Nat
  BY <1>1, SampledRow
<1>4. completed \in Nat
  BY <1>2 DEF Progress
<1> HIDE DEF k
<1>5. RowOf(k, [policy EXCEPT !.draws = @ - 1]) = Reference(k)
  BY <1>2, <1>3 DEF RowOf, PolicyAt
<1>6. LogLen(metrics) + 1 = k
  BY <1>2, <1>3
<1>7. ExactLog(metrics') /\ LogLen(metrics') = k /\ metrics' # None
  BY <1>1, <1>3, <1>5, <1>6, AppendsExactly DEF IInv, FilesInv
<1>8. ~Finished' /\ PublishedStep' = PublishedStep /\ WindowEnd' = WindowEnd
  BY <1>1, <1>2 DEF Finished, PublishedStep, Latest, WindowEnd
<1>9. FilesInv'
  BY <1>1, <1>7, <1>8 DEF IInv, FilesInv
<1>10. cursor' \in Nat /\ completed' < cursor' /\ cursor' <= WindowEnd + 1 /\ cursor' - 1 = k
  BY <1>1, <1>2, <1>3, <1>4
<1>11. CASE k = WindowEnd
  <2>1. pc' = "update" /\ cursor' = WindowEnd + 1
    BY <1>1, <1>11
  <2>2. ProcessInv'
    BY <1>1, <1>2, <1>7, <1>8, <1>10, <1>11, <2>1
       DEF ProcessInv, Busy, Restoring, InWindow, Saving, Saved
  <2> QED BY <1>9, <2>2 DEF IInv
<1>12. CASE k # WindowEnd
  <2>1. pc' = "sample" /\ cursor' <= WindowEnd
    BY <1>1, <1>2, <1>3, <1>12
  <2>2. ProcessInv'
    BY <1>1, <1>2, <1>7, <1>8, <1>10, <2>1
       DEF ProcessInv, Busy, Restoring, InWindow, Saving, Saved
  <2> QED BY <1>9, <2>2 DEF IInv
<1> QED BY <1>11, <1>12

LEMMA LatestBecomes ==
  ASSUME NEW S \in SUBSET Checkpoints, checkpoints' = S, S # {}, \A c \in S : c.step <= Total
  PROVE  Latest' \in S /\ \A d \in S : d.step <= Latest'.step
<1>1. \E c \in S : \A d \in S : d.step <= c.step
  BY HighestOf
<1> QED BY <1>1 DEF Latest

\* The steps of published checkpoints grow one by one.
LEMMA SavedStep ==
  ASSUME IInv, pc \in Saving
  PROVE  /\ Snapshot \in Checkpoints /\ Progress(completed, steps)
         /\ Snapshot.policy = PolicyAt(Snapshot.step, Snapshot.completed)
         /\ \A c \in checkpoints : c.step < steps
<1>1. Progress(completed, steps) /\ policy = PolicyAt(steps, completed) /\ Unsaved
  BY DEF IInv, ProcessInv
<1>2. completed \in Nat /\ steps \in Nat
  BY <1>1 DEF Progress
<1>3. \A c \in checkpoints : c.step < steps
  <2> SUFFICES ASSUME NEW c \in checkpoints PROVE c.step < steps
    OBVIOUS
  <2>1. c.step <= Latest.step /\ Latest \in Checkpoints /\ steps = Latest.step + 1 /\ c \in Checkpoints
    BY <1>1, LatestIsOne DEF Unsaved, IInv, FilesInv
  <2> QED BY <2>1 DEF Checkpoints
<1> QED BY <1>1, <1>2, <1>3 DEF Snapshot, Checkpoints, Policies, PolicyAt

LEMMA PublishKeeps ==
  ASSUME IInv, PublishCheckpoint
  PROVE  /\ IInv' /\ Latest' = Snapshot
<1> DEFINE S == checkpoints \cup {Snapshot}
<1>1. /\ pc = "publish" /\ pc' = "prune" /\ checkpoints' = S
      /\ generations' = generations /\ metrics' = metrics /\ torn' = torn /\ manifest' = manifest
      /\ completed' = completed /\ steps' = steps /\ cursor' = cursor /\ policy' = policy
  BY DEF PublishCheckpoint, logs, local
<1>2. /\ Snapshot \in Checkpoints /\ Progress(completed, steps)
      /\ Snapshot.policy = PolicyAt(Snapshot.step, Snapshot.completed)
      /\ \A c \in checkpoints : c.step < steps
  BY <1>1, SavedStep DEF Saving
<1>3. Snapshot.step = steps /\ Snapshot.completed = completed
  BY DEF Snapshot
<1>4. S \in SUBSET Checkpoints /\ IsFiniteSet(S) /\ S # {}
  BY <1>2, FS_AddElement DEF IInv, FilesInv
<1>5. \A c \in S : Progress(c.completed, c.step) /\ c.policy = PolicyAt(c.step, c.completed)
  BY <1>2, <1>3 DEF IInv, FilesInv
<1>6. \A c \in S : c.step <= Total
  BY <1>5, TotalAssumption DEF Progress
<1>7. Latest' \in S /\ \A d \in S : d.step <= Latest'.step
  BY <1>1, <1>4, <1>6, LatestBecomes
<1>8. Latest' = Snapshot
  <2>1. ASSUME Latest' \in checkpoints PROVE FALSE
    <3>1. PICK l \in checkpoints : l = Latest'
      BY <2>1
    <3>2. l.step < steps /\ steps <= l.step /\ l.step \in Nat /\ steps \in Nat
      BY <1>2, <1>3, <1>7, <3>1 DEF IInv, FilesInv, Checkpoints, Progress
    <3> QED BY <3>2
  <2> QED BY <1>7, <2>1
<1>9. ~Finished' /\ ~Finished
  BY <1>1 DEF Finished, IInv, ProcessInv, Busy, Saving
<1> HIDE DEF S
<1>10. FilesInv'
  BY <1>1, <1>4, <1>5, <1>9 DEF IInv, FilesInv
<1>11. cursor = completed + 1 /\ LogsAt(completed) /\ policy = PolicyAt(steps, completed)
  BY <1>1 DEF IInv, ProcessInv, Saving
<1>12. ProcessInv'
  BY <1>1, <1>2, <1>3, <1>4, <1>8, <1>9, <1>11
     DEF ProcessInv, Busy, Restoring, InWindow, Saving, Saved, LogsAt
<1> QED BY <1>8, <1>10, <1>12 DEF IInv

LEMMA PruneKeeps ==
  ASSUME IInv, PruneCheckpoints
  PROVE  /\ IInv' /\ checkpoints' \subseteq checkpoints
         /\ checkpoints # {} /\ checkpoints' # {} /\ Latest'.step = Latest.step
<1> DEFINE S == checkpoints'
           top == Latest
<1>1. /\ pc = "prune" /\ pc' \in {"prune", "report"} /\ checkpoints' = S
      /\ generations' = generations /\ metrics' = metrics /\ torn' = torn /\ manifest' = manifest
      /\ completed' = completed /\ steps' = steps /\ cursor' = cursor /\ policy' = policy
  BY DEF PruneCheckpoints, logs, local
<1>2. /\ ~Finished /\ checkpoints # {} /\ top.step = steps /\ Progress(completed, steps)
      /\ cursor = completed + 1 /\ LogsAt(completed) /\ policy = PolicyAt(steps, completed)
  BY <1>1 DEF IInv, ProcessInv, Busy, Saved
<1>3. top \in checkpoints /\ top \in Checkpoints /\ \A d \in checkpoints : d.step <= top.step
  BY <1>2, LatestIsOne DEF IInv
<1>4. top \in S /\ S \subseteq checkpoints
  <2>1. Newer(top) = {}
    <3> SUFFICES ASSUME NEW d \in checkpoints, d.step > top.step PROVE FALSE
      BY DEF Newer
    <3>1. d.step \in Nat /\ top.step \in Nat /\ d.step <= top.step
      BY <1>3 DEF IInv, FilesInv, Checkpoints
    <3> QED BY <3>1
  <2>2. Cardinality(Newer(top)) < Keep
    BY <2>1, FS_EmptySet, KeepAssumption
  <2>3. top \in Retained
    BY <1>3, <2>2 DEF Retained
  <2> QED BY <1>3, <2>3 DEF PruneCheckpoints, Surplus
<1>5. S \in SUBSET Checkpoints /\ IsFiniteSet(S) /\ S # {}
  BY <1>4, FS_Subset DEF IInv, FilesInv
<1>6. \A c \in S : Progress(c.completed, c.step) /\ c.policy = PolicyAt(c.step, c.completed)
  BY <1>4 DEF IInv, FilesInv
<1>7. \A c \in S : c.step <= Total
  BY <1>6, TotalAssumption DEF Progress
<1> HIDE DEF S
<1>8. Latest' \in S /\ \A d \in S : d.step <= Latest'.step
  BY <1>1, <1>5, <1>7, LatestBecomes
<1>9. Latest'.step = top.step
  <2>1. PICK l \in S : l = Latest'
    BY <1>8
  <2>2. l.step <= top.step /\ top.step <= l.step /\ l.step \in Nat /\ top.step \in Nat
    BY <1>3, <1>4, <1>5, <1>8, <2>1 DEF Checkpoints
  <2> QED BY <2>1, <2>2
<1>10. ~Finished'
  BY <1>1, <1>2 DEF Finished
<1> HIDE DEF top
<1>11. FilesInv'
  BY <1>1, <1>5, <1>6, <1>10 DEF IInv, FilesInv
<1>12. ProcessInv'
  BY <1>1, <1>2, <1>5, <1>9, <1>10
     DEF ProcessInv, Busy, Restoring, InWindow, Saving, Saved, LogsAt
<1> QED BY <1>1, <1>2, <1>4, <1>5, <1>9, <1>11, <1>12 DEF IInv, top

LEMMA ReportKeeps == ASSUME IInv, WriteManifest PROVE IInv'
<1>1. /\ pc = "report" /\ manifest' = ManifestOf(Snapshot)
      /\ UNCHANGED <<generations, metrics, torn, checkpoints>>
      /\ completed' = completed /\ steps' = steps /\ cursor' = cursor /\ policy' = policy
      /\ pc' = IF completed = Total THEN "exit" ELSE "sample"
  BY DEF WriteManifest, logs, local
<1>2. /\ checkpoints # {} /\ Latest.step = steps /\ Progress(completed, steps)
      /\ cursor = completed + 1 /\ LogsAt(completed) /\ policy = PolicyAt(steps, completed)
  BY <1>1 DEF IInv, ProcessInv, Saved
<1>3. completed \in Nat /\ steps \in Nat /\ completed <= Total
  BY <1>2, TotalAssumption DEF Progress
<1>4. ManifestOf(Snapshot) \in Manifests
      /\ (ManifestOf(Snapshot).status = "complete" => completed = Total)
  BY <1>3 DEF ManifestOf, Manifests, Snapshot
<1>5. FilesInv' /\ (Finished' => completed = Total)
  BY <1>1, <1>2, <1>4, ManifestWritten DEF LogsAt
<1>6. CASE completed = Total
  BY <1>1, <1>5, <1>6, LeavingKeeps
<1>7. CASE completed # Total
  <2>1. pc' = "sample" /\ ~Finished' /\ completed < Total
    BY <1>1, <1>3, <1>5, <1>7, TotalAssumption
  <2>2. PublishedStep' = steps
    BY <1>1, <1>2 DEF PublishedStep, Latest
  <2>3. WindowEnd \in completed + 1..Total /\ WindowEnd' = WindowEnd
    BY <1>1, <1>2, <2>1, WindowDone DEF WindowEnd
  <2>4. /\ cursor' - 1 = completed /\ cursor' \in Nat /\ completed' < cursor'
        /\ cursor' <= WindowEnd /\ cursor' <= WindowEnd + 1 /\ completed' < Total
    BY <1>1, <1>2, <1>3, <2>1, <2>3, TotalAssumption
  <2>5. torn' = {} /\ LogLen(generations') = completed /\ LogLen(metrics') = completed
    BY <1>1, <1>2 DEF LogsAt
  <2>6. ProcessInv'
    BY <1>1, <1>2, <2>1, <2>2, <2>3, <2>4, <2>5
       DEF ProcessInv, Busy, Restoring, InWindow, Saving, Saved
  <2> QED BY <1>5, <2>6 DEF IInv
<1> QED BY <1>6, <1>7

\* A killed process leaves half a row behind the rows of an uninterrupted run.
LEMMA KillInRowKeeps == ASSUME IInv, KillInRow PROVE IInv'
<1>1. /\ pc \in {"sample", "measure"} /\ pc' = "idle"
      /\ checkpoints' = checkpoints /\ manifest' = manifest
      /\ \/ /\ generations' = IF generations = None THEN <<>> ELSE generations
            /\ torn' = torn \cup {"generations"} /\ metrics' = metrics
         \/ /\ metrics' = IF metrics = None THEN <<>> ELSE metrics
            /\ torn' = torn \cup {"metrics"} /\ generations' = generations
  BY DEF KillInRow, Stop
<1>2. ~Finished /\ ~Finished'
  BY <1>1 DEF IInv, ProcessInv, Busy, InWindow, Finished
<1>3. ExactLog(generations) /\ ExactLog(metrics)
  BY DEF IInv, FilesInv
<1>4. FilesInv'
  <2>1. CASE /\ generations' = IF generations = None THEN <<>> ELSE generations
             /\ torn' = torn \cup {"generations"} /\ metrics' = metrics
    <3>1. ExactLog(generations') /\ generations' # None
      BY <1>3, <2>1, CreatedEmpty
    <3> QED BY <1>1, <1>2, <1>3, <2>1, <3>1 DEF IInv, FilesInv
  <2>2. CASE /\ metrics' = IF metrics = None THEN <<>> ELSE metrics
             /\ torn' = torn \cup {"metrics"} /\ generations' = generations
    <3>1. ExactLog(metrics') /\ metrics' # None
      BY <1>3, <2>2, CreatedEmpty
    <3> QED BY <1>1, <1>2, <1>3, <2>2, <3>1 DEF IInv, FilesInv
  <2> QED BY <1>1, <2>1, <2>2
<1> QED BY <1>1, <1>4, LeavingKeeps

LEMMA OtherEndsKeep ==
  ASSUME IInv, Refuse \/ Exit \/ Fail \/ Kill
  PROVE  IInv'
<1>1. pc' = "idle" /\ UNCHANGED <<generations, metrics, torn, checkpoints, manifest>>
  BY DEF Refuse, Exit, Fail, Kill, Stop, files, logs
<1>2. FilesInv'
  BY <1>1 DEF IInv, FilesInv, Finished
<1> QED BY <1>1, <1>2, LeavingKeeps

-----------------------------------------------------------------------------
(* Invariants.                                                               *)

LEMMA TrainerSteps == IInv /\ [Next]_vars => IInv'
<1> SUFFICES ASSUME IInv, [Next]_vars PROVE IInv'
  OBVIOUS
<1>1. CASE Launch \/ Preflight \/ SeedFresh
  BY <1>1, LaunchKeeps, PreflightKeeps, SeedKeeps
<1>2. CASE RestoreGenerations \/ RestoreMetrics \/ LoadCheckpoint
  BY <1>2, RestoreGenerationsKeeps, RestoreMetricsKeeps, LoadKeeps
<1>3. CASE SampleExample \/ MeasureExample \/ UpdatePolicy
  BY <1>3, SampleKeeps, MeasureKeeps, UpdateKeeps
<1>4. CASE WriteFiles \/ WriteCheckpointManifest \/ PublishCheckpoint
  BY <1>4, WritingKeeps, PublishKeeps
<1>5. CASE PruneCheckpoints \/ WriteManifest
  BY <1>5, PruneKeeps, ReportKeeps
<1>6. CASE Refuse \/ Exit \/ Fail \/ Kill \/ KillInRow
  BY <1>6, OtherEndsKeep, KillInRowKeeps
<1>7. CASE Settled \/ UNCHANGED vars
  <2>1. UNCHANGED files /\ UNCHANGED <<pc, resume, completed, steps, cursor, policy>>
    BY <1>7 DEF Settled, vars, local
  <2>2. FilesInv' /\ UNCHANGED <<generations, metrics, torn, checkpoints, manifest>>
        /\ Finished' = Finished /\ Latest' = Latest
        /\ FreshOutput' = FreshOutput /\ PublishedStep' = PublishedStep
        /\ PublishedCheckpoint' = PublishedCheckpoint
    BY <2>1, FilesSame
  <2>3. Unsaved' = Unsaved /\ LogsAt(completed)' = LogsAt(completed) /\ WindowEnd' = WindowEnd
        /\ Resumable(Latest)' = Resumable(Latest)
    BY <2>1, <2>2 DEF Unsaved, LogsAt, WindowEnd, Resumable
  <2>4. ProcessInv'
    BY <2>1, <2>2, <2>3 DEF IInv, ProcessInv, Busy, Restoring, InWindow, Saving, Saved
  <2> QED BY <2>2, <2>4 DEF IInv
<1> QED BY <1>1, <1>2, <1>3, <1>4, <1>5, <1>6, <1>7 DEF Next, Work, Interrupt

\* The invariant the theorems below rest on: whatever interrupted the trainer, the
\* directory and the process are where an uninterrupted run would be.
THEOREM TrainerInvariant == Spec => []IInv
BY TrainerStarts, TrainerSteps, PTL DEF Spec

\* However often the trainer was interrupted, and wherever, what it publishes at a
\* step is what an uninterrupted run publishes there, for any schedule and window.
THEOREM TrainerCheckpoints == Spec => []CheckpointsAsUninterrupted
<1>1. IInv => CheckpointsAsUninterrupted
  BY DEF IInv, FilesInv, CheckpointsAsUninterrupted, Progress, PolicyAt
<1> QED BY <1>1, TrainerInvariant, PTL

\* No row is appended behind half a row of a dead process.
THEOREM TrainerRowsWhole == Spec => []NoRowAfterTear
<1>1. IInv => NoRowAfterTear
  BY DEF IInv, ProcessInv, NoRowAfterTear, InWindow
<1> QED BY <1>1, TrainerInvariant, PTL

\* The logs of a finished adapter are those of an uninterrupted run.
THEOREM TrainerLogs == Spec => []FinishedLogsExact
<1>1. ASSUME NEW log, ExactLog(log), LogLen(log) = Total, Total > 0
      PROVE  log = [k \in 1..Total |-> Reference(k)]
  <2>1. log # None
    BY <1>1 DEF LogLen
  <2>2. log \in Seq(Rows) /\ Len(log) = Total /\ \A k \in 1..Len(log) : log[k] = Reference(k)
    BY <1>1, <2>1 DEF ExactLog, LogLen
  <2> QED BY <2>2
<1>2. IInv => FinishedLogsExact
  BY <1>1 DEF IInv, FilesInv, FinishedLogsExact
<1> QED BY <1>2, TrainerInvariant, PTL

-----------------------------------------------------------------------------
(* What the suite sees of the directory.                                     *)

Logged == generations # None \/ metrics # None \/ manifest # None
LatestStep == IF checkpoints = {} THEN -1 ELSE Latest.step
Older == Cardinality(checkpoints) > 1
LeftOver == "written" \in abandoned
Seen == [logs |-> Logged, latest |-> LatestStep, older |-> Older, leftover |-> LeftOver,
         complete |-> Finished]
AtWork == pc \notin {"idle", "preflight", "refused"}

\* Every step of the trainer is a step of KindOutput or none.
Shows == Kind!Next \/ UNCHANGED Kind!vars

LEMMA ShowsNothing ==
  ASSUME Seen' = Seen, AtWork' = AtWork
  PROVE  Shows
BY DEF Shows, Kind!vars, Seen, Logged, LatestStep, Older, LeftOver, AtWork

LEMMA ShowsBegin ==
  ASSUME ~AtWork, AtWork', Seen' = Seen, ~Seen.complete, Kind!Accepts(Seen)
  PROVE  Shows
BY DEF Shows, Kind!Next, Kind!Begin, Seen, Logged, LatestStep, Older, LeftOver, AtWork

LEMMA ShowsAdvance ==
  ASSUME AtWork, AtWork', Seen' \in Kind!Advanced(Seen)
  PROVE  Shows
BY DEF Shows, Kind!Next, Kind!Advance, Seen, Logged, LatestStep, Older, LeftOver, AtWork

LEMMA ShowsEnd ==
  ASSUME AtWork, ~AtWork', Seen' \in Kind!Left(Seen)
  PROVE  Shows
BY DEF Shows, Kind!Next, Kind!End, Seen, Logged, LatestStep, Older, LeftOver, AtWork

Fields == {"logs", "latest", "older", "leftover", "complete"}

LEMMA RecordOf ==
  ASSUME NEW q, DOMAIN q = Fields, q = [x \in DOMAIN q |-> q[x]]
  PROVE  q = [logs |-> q.logs, latest |-> q.latest, older |-> q.older, leftover |-> q.leftover,
              complete |-> q.complete]
BY DEF Fields

LEMMA LogsUpdated ==
  ASSUME NEW r, DOMAIN r = Fields, NEW t
  PROVE  [r EXCEPT !.logs = t] =
           [logs |-> t, latest |-> r.latest, older |-> r.older, leftover |-> r.leftover,
            complete |-> r.complete]
<1> DEFINE q == [r EXCEPT !.logs = t]
<1>1. /\ DOMAIN q = Fields /\ q = [x \in DOMAIN q |-> q[x]]
      /\ q.logs = t /\ q.latest = r.latest /\ q.older = r.older /\ q.leftover = r.leftover
      /\ q.complete = r.complete
  BY DEF Fields
<1> HIDE DEF q
<1>2. q = [logs |-> t, latest |-> r.latest, older |-> r.older, leftover |-> r.leftover,
           complete |-> r.complete]
  BY <1>1, RecordOf
<1> QED BY <1>2 DEF q

LEMMA CompleteUpdated ==
  ASSUME NEW r, DOMAIN r = Fields, NEW t, NEW u
  PROVE  [r EXCEPT !.complete = u, !.logs = t] =
           [logs |-> t, latest |-> r.latest, older |-> r.older, leftover |-> r.leftover,
            complete |-> u]
<1> DEFINE q == [r EXCEPT !.complete = u, !.logs = t]
<1>1. /\ DOMAIN q = Fields /\ q = [x \in DOMAIN q |-> q[x]]
      /\ q.logs = t /\ q.latest = r.latest /\ q.older = r.older /\ q.leftover = r.leftover
      /\ q.complete = u
  BY DEF Fields
<1> HIDE DEF q
<1>2. q = [logs |-> t, latest |-> r.latest, older |-> r.older, leftover |-> r.leftover,
           complete |-> u]
  BY <1>1, RecordOf
<1> QED BY <1>2 DEF q

LEMMA LatestUpdated ==
  ASSUME NEW r, DOMAIN r = Fields, NEW t, NEW u
  PROVE  [r EXCEPT !.latest = t, !.older = u] =
           [logs |-> r.logs, latest |-> t, older |-> u, leftover |-> r.leftover,
            complete |-> r.complete]
<1> DEFINE q == [r EXCEPT !.latest = t, !.older = u]
<1>1. /\ DOMAIN q = Fields /\ q = [x \in DOMAIN q |-> q[x]]
      /\ q.logs = r.logs /\ q.latest = t /\ q.older = u /\ q.leftover = r.leftover
      /\ q.complete = r.complete
  BY DEF Fields
<1> HIDE DEF q
<1>2. q = [logs |-> r.logs, latest |-> t, older |-> u, leftover |-> r.leftover,
           complete |-> r.complete]
  BY <1>1, RecordOf
<1> QED BY <1>2 DEF q

LEMMA OlderUpdated ==
  ASSUME NEW r, DOMAIN r = Fields, NEW t
  PROVE  [r EXCEPT !.older = t] =
           [logs |-> r.logs, latest |-> r.latest, older |-> t, leftover |-> r.leftover,
            complete |-> r.complete]
<1> DEFINE q == [r EXCEPT !.older = t]
<1>1. /\ DOMAIN q = Fields /\ q = [x \in DOMAIN q |-> q[x]]
      /\ q.logs = r.logs /\ q.latest = r.latest /\ q.older = t /\ q.leftover = r.leftover
      /\ q.complete = r.complete
  BY DEF Fields
<1> HIDE DEF q
<1>2. q = [logs |-> r.logs, latest |-> r.latest, older |-> t, leftover |-> r.leftover,
           complete |-> r.complete]
  BY <1>1, RecordOf
<1> QED BY <1>2 DEF q

LEMMA LeftoverUpdated ==
  ASSUME NEW r, DOMAIN r = Fields, NEW t
  PROVE  [r EXCEPT !.leftover = t] =
           [logs |-> r.logs, latest |-> r.latest, older |-> r.older, leftover |-> t,
            complete |-> r.complete]
<1> DEFINE q == [r EXCEPT !.leftover = t]
<1>1. /\ DOMAIN q = Fields /\ q = [x \in DOMAIN q |-> q[x]]
      /\ q.logs = r.logs /\ q.latest = r.latest /\ q.older = r.older /\ q.leftover = t
      /\ q.complete = r.complete
  BY DEF Fields
<1> HIDE DEF q
<1>2. q = [logs |-> r.logs, latest |-> r.latest, older |-> r.older, leftover |-> t,
           complete |-> r.complete]
  BY <1>1, RecordOf
<1> QED BY <1>2 DEF q

LEMMA SeenFields == DOMAIN Seen = Fields
BY DEF Seen, Fields

\* Seen depends on no more of the state than this.
LEMMA SeenSame ==
  ASSUME UNCHANGED <<generations, metrics, checkpoints, abandoned, manifest>>
  PROVE  Seen' = Seen
BY DEF Seen, Logged, LatestStep, Older, LeftOver, Latest, Finished

LEMMA FilesShown == ASSUME UNCHANGED files PROVE Seen' = Seen
BY SeenSame DEF files, logs

\* A row is appended or begun, or the manifest of an unfinished adapter written.
LEMMA LogsShown ==
  ASSUME UNCHANGED <<checkpoints, abandoned>>, ~Finished, ~Finished',
         generations' # None \/ metrics' # None \/ manifest' # None
  PROVE  Seen' \in Kind!Advanced(Seen) /\ Seen' \in Kind!Left(Seen)
<1>1. Logged' = TRUE
  BY DEF Logged
<1>2. LatestStep' = LatestStep /\ Older' = Older /\ LeftOver' = LeftOver /\ Finished' = Finished
  BY DEF LatestStep, Older, LeftOver, Latest, Finished
<1>3. Seen' = [logs |-> TRUE, latest |-> Seen.latest, older |-> Seen.older,
               leftover |-> Seen.leftover, complete |-> Seen.complete]
  BY <1>1, <1>2 DEF Seen
<1>4. [Seen EXCEPT !.logs = TRUE] =
        [logs |-> TRUE, latest |-> Seen.latest, older |-> Seen.older,
         leftover |-> Seen.leftover, complete |-> Seen.complete]
  BY LogsUpdated, SeenFields
<1>5. Seen' = [Seen EXCEPT !.logs = TRUE]
  BY <1>3, <1>4
<1> QED BY <1>5 DEF Kind!Advanced, Kind!Left

LEMMA LatestShown ==
  ASSUME IInv
  PROVE  /\ Seen.latest = IF checkpoints = {} THEN -1 ELSE Latest.step
         /\ Seen.complete = Finished
         /\ checkpoints # {} => Seen.latest \in Nat
BY LatestIsOne DEF Seen, LatestStep, IInv, Checkpoints

LEMMA PreflightShows == ASSUME IInv, Preflight PROVE Shows
<1>1. Seen' = Seen /\ pc = "preflight" /\ ~Finished /\ resume = PublishedCheckpoint
  BY FilesShown DEF Preflight, IInv, ProcessInv
<1>2. CASE pc' = "refused"
  BY <1>1, <1>2, ShowsNothing DEF AtWork
<1>3. CASE pc' = "seed" /\ FreshOutput
  <2>1. Seen.latest = -1 /\ Seen.logs = FALSE /\ Seen.complete = FALSE
    <3>1. Logged = FALSE /\ LatestStep = -1 /\ Finished = FALSE
      BY <1>1, <1>3 DEF FreshOutput, Logged, LatestStep
    <3> QED BY <3>1 DEF Seen
  <2>2. Kind!Accepts(Seen)
    BY <2>1 DEF Kind!Accepts, Kind!Unpublished
  <2> QED BY <1>1, <1>3, <2>1, <2>2, ShowsBegin DEF AtWork
<1>4. CASE pc' = "restore generations" /\ resume # None /\ Resumable(resume)
  <2>1. checkpoints # {} /\ Latest.step >= 1
    BY <1>1, <1>4 DEF PublishedCheckpoint, Resumable
  <2>2. Seen.latest = Latest.step /\ Seen.latest \in Nat /\ Seen.complete = FALSE
    BY <1>1, <2>1, LatestShown
  <2>3. Kind!Accepts(Seen)
    BY <2>1, <2>2 DEF Kind!Accepts, Kind!Unpublished
  <2> QED BY <1>1, <1>4, <2>2, <2>3, ShowsBegin DEF AtWork
<1>5. \/ pc' = "seed" /\ FreshOutput
      \/ pc' = "restore generations" /\ resume # None /\ Resumable(resume)
      \/ pc' = "refused"
  BY DEF Preflight
<1> QED BY <1>2, <1>3, <1>4, <1>5

LEMMA RestoreShows == ASSUME IInv, RestoreGenerations \/ RestoreMetrics PROVE Shows
<1>1. /\ UNCHANGED <<checkpoints, abandoned, manifest>>
      /\ AtWork /\ AtWork'
      /\ checkpoints # {} /\ resume = Latest /\ ~Finished
  BY DEF RestoreGenerations, RestoreMetrics, IInv, ProcessInv, AtWork, Restoring, Busy
<1>2. resume.completed \in Nat
  BY <1>1, LatestIsOne DEF IInv, Checkpoints
<1>3. generations' # None \/ metrics' # None
  BY <1>2, RestoresExactly DEF RestoreGenerations, RestoreMetrics, IInv, FilesInv
<1>4. ~Finished'
  BY <1>1 DEF Finished
<1> QED BY <1>1, <1>3, <1>4, LogsShown, ShowsAdvance

LEMMA RowsShow == ASSUME IInv, SampleExample \/ MeasureExample PROVE Shows
<1>1. /\ UNCHANGED <<checkpoints, abandoned, manifest>> /\ AtWork /\ AtWork' /\ ~Finished
      /\ IInv'
  BY SampleKeeps, MeasureKeeps
     DEF SampleExample, MeasureExample, IInv, ProcessInv, AtWork, InWindow, Busy
<1>2. ~Finished'
  BY <1>1 DEF Finished
<1>3. generations' # None
  <2>1. cursor \in Nat /\ completed < cursor /\ completed \in Nat
    <3>1. pc \in {"sample", "measure"}
      BY DEF SampleExample, MeasureExample
    <3>2. completed < cursor /\ Progress(completed, steps)
      BY <3>1 DEF IInv, ProcessInv, InWindow
    <3> QED BY <3>1, <3>2, SampledRow DEF Progress
  <2>2. CASE SampleExample
    <3>1. LogLen(generations') = cursor' /\ cursor' = cursor
      BY <1>1, <2>2 DEF SampleExample, IInv, ProcessInv
    <3> QED BY <2>1, <3>1 DEF LogLen
  <2>3. CASE MeasureExample
    <3>1. LogLen(generations) = cursor /\ generations' = generations
      BY <2>3 DEF MeasureExample, IInv, ProcessInv
    <3> QED BY <2>1, <3>1 DEF LogLen
  <2> QED BY <2>2, <2>3
<1> QED BY <1>1, <1>2, <1>3, LogsShown, ShowsAdvance

LEMMA CompleteShown ==
  ASSUME UNCHANGED <<generations, metrics, checkpoints, abandoned>>, Finished', manifest' # None
  PROVE  Seen' = [Seen EXCEPT !.complete = TRUE, !.logs = TRUE]
<1>1. Logged' = TRUE /\ Finished' = TRUE
  BY DEF Logged, Finished
<1>2. LatestStep' = LatestStep /\ Older' = Older /\ LeftOver' = LeftOver
  BY DEF LatestStep, Older, LeftOver, Latest
<1>3. Seen' = [logs |-> TRUE, latest |-> Seen.latest, older |-> Seen.older,
               leftover |-> Seen.leftover, complete |-> TRUE]
  BY <1>1, <1>2 DEF Seen
<1>4. [Seen EXCEPT !.complete = TRUE, !.logs = TRUE] =
        [logs |-> TRUE, latest |-> Seen.latest, older |-> Seen.older,
         leftover |-> Seen.leftover, complete |-> TRUE]
  BY CompleteUpdated, SeenFields
<1> QED BY <1>3, <1>4

\* A schedule that is over is complete only at its last step.
LEMMA LoadShows == ASSUME IInv, LoadCheckpoint PROVE Shows
<1>1. /\ UNCHANGED <<generations, metrics, checkpoints, abandoned>>
      /\ pc = "load" /\ checkpoints # {} /\ resume = Latest /\ ~Finished
  BY DEF LoadCheckpoint, logs, IInv, ProcessInv, Restoring, Busy
<1>2. CASE resume.completed = Total
  <2>1. pc' = "exit" /\ manifest' = ManifestOf(resume)
    BY <1>2 DEF LoadCheckpoint
  <2>2. Latest.step = StepsOf(Total) /\ resume \in Checkpoints
    BY <1>1, <1>2, LatestIsOne DEF IInv, Progress
  <2>3. manifest' \in Manifests /\ manifest'.status = "complete"
    BY <1>2, <2>1, <2>2 DEF ManifestOf, Manifests, Checkpoints
  <2>4. Finished' /\ manifest' # None
    BY <2>3, NoneAssumption DEF Finished
  <2>5. Seen' = [Seen EXCEPT !.complete = TRUE, !.logs = TRUE]
    BY <1>1, <2>4, CompleteShown
  <2>6. Seen.latest = StepsOf(Total)
    BY <1>1, <2>2, LatestShown
  <2>7. Seen' \in Kind!Advanced(Seen)
    BY <2>5, <2>6 DEF Kind!Advanced
  <2> QED BY <1>1, <2>1, <2>7, ShowsAdvance DEF AtWork
<1>3. CASE resume.completed # Total
  <2>1. pc' = "sample" /\ manifest' = manifest
    BY <1>3 DEF LoadCheckpoint
  <2> QED BY <1>1, <2>1, SeenSame, ShowsNothing DEF AtWork
<1> QED BY <1>2, <1>3

LEMMA PublishShows == ASSUME IInv, PublishCheckpoint PROVE Shows
<1> DEFINE S == checkpoints \cup {Snapshot}
<1>1. /\ UNCHANGED <<generations, metrics, abandoned, manifest>> /\ pc = "publish" /\ pc' = "prune"
      /\ checkpoints' = S /\ Latest' = Snapshot
  BY PublishKeeps DEF PublishCheckpoint, logs
<1>2. /\ Progress(completed, steps) /\ Unsaved /\ \A c \in checkpoints : c.step < steps
      /\ IsFiniteSet(checkpoints) /\ Snapshot \in Checkpoints /\ Snapshot.step = steps
  BY <1>1, SavedStep DEF IInv, FilesInv, ProcessInv, Saving, Snapshot
<1>3. steps \in Nat /\ steps <= StepsOf(Total) /\ StepsOf(Total) \in Nat
  BY <1>2, StepsWithin DEF Progress
<1>4. Snapshot \notin checkpoints
  BY <1>2, <1>3
<1>5. (Cardinality(S) > 1) = (checkpoints # {})
  <2>1. Cardinality(S) = Cardinality(checkpoints) + 1 /\ Cardinality(checkpoints) \in Nat
    BY <1>2, <1>4, FS_AddElement, FS_CardinalityType
  <2>2. Cardinality(checkpoints) = 0 <=> checkpoints = {}
    BY <1>2, FS_EmptySet
  <2> QED BY <2>1, <2>2
<1>6. Seen.latest # StepsOf(Total) /\ steps = Kind!FollowingStep(Seen)
  <2>1. CASE checkpoints = {}
    <3>1. Seen.latest = -1
      BY <2>1, LatestShown
    <3>2. steps = IF Total = 0 THEN 0 ELSE 1
      BY <1>2, <2>1 DEF Unsaved
    <3>3. Total = 0 => StepsOf(Total) = 0
      BY WindowAssumption, Quotient DEF StepsOf
    <3>4. Total # 0 => StepsOf(Total) # 0
      BY <1>3, <3>2
    <3> QED BY <1>3, <3>1, <3>2, <3>3, <3>4 DEF Kind!FollowingStep, Kind!Unpublished
  <2>2. CASE checkpoints # {}
    <3>1. Seen.latest = Latest.step /\ Seen.latest \in Nat
      BY <2>2, LatestShown
    <3>2. Total > 0 /\ steps = Latest.step + 1
      BY <1>2, <2>2 DEF Unsaved
    <3> QED BY <1>3, <3>1, <3>2 DEF Kind!FollowingStep, Kind!Unpublished
  <2> QED BY <2>1, <2>2
<1>7. (Seen.latest # Kind!Unpublished) = (checkpoints # {})
  BY LatestShown DEF Kind!Unpublished
<1> HIDE DEF S
<1>8. Seen' = [Seen EXCEPT !.latest = Kind!FollowingStep(Seen), !.older = Seen.latest # Kind!Unpublished]
  <2>1. checkpoints' # {} /\ Latest'.step = Kind!FollowingStep(Seen)
        /\ (Cardinality(checkpoints') > 1) = (Seen.latest # Kind!Unpublished)
    BY <1>1, <1>2, <1>5, <1>6, <1>7 DEF S
  <2>2. LatestStep' = Kind!FollowingStep(Seen) /\ Older' = (Seen.latest # Kind!Unpublished)
    BY <2>1 DEF LatestStep, Older
  <2>3. Logged' = Logged /\ LeftOver' = LeftOver /\ Finished' = Finished
    BY <1>1 DEF Logged, LeftOver, Finished
  <2> HIDE DEF Kind!FollowingStep
  <2>4. ASSUME NEW step, LatestStep' = step, NEW older, Older' = older
        PROVE  Seen' = [Seen EXCEPT !.latest = step, !.older = older]
    <3>1. Seen' = [logs |-> Seen.logs, latest |-> step, older |-> older,
                   leftover |-> Seen.leftover, complete |-> Seen.complete]
      BY <2>3, <2>4 DEF Seen
    <3>2. [Seen EXCEPT !.latest = step, !.older = older] =
            [logs |-> Seen.logs, latest |-> step, older |-> older,
             leftover |-> Seen.leftover, complete |-> Seen.complete]
      BY LatestUpdated, SeenFields
    <3> QED BY <3>1, <3>2
  <2> QED BY <2>2, <2>4
<1>9. Seen' \in Kind!Advanced(Seen)
  BY <1>6, <1>8 DEF Kind!Advanced
<1> QED BY <1>1, <1>9, ShowsAdvance DEF AtWork

LEMMA PruneShows == ASSUME IInv, PruneCheckpoints PROVE Shows
<1>1. /\ UNCHANGED <<generations, metrics, abandoned, manifest>> /\ AtWork /\ AtWork'
      /\ checkpoints' \subseteq checkpoints /\ Latest'.step = Latest.step
      /\ checkpoints # {} /\ checkpoints' # {} /\ IsFiniteSet(checkpoints)
  BY PruneKeeps DEF PruneCheckpoints, logs, AtWork, IInv, FilesInv
<1>2. LatestStep' = LatestStep /\ Logged' = Logged /\ LeftOver' = LeftOver /\ Finished' = Finished
  BY <1>1 DEF LatestStep, Logged, LeftOver, Finished
<1>3. Older' => Older
  <2>1. /\ IsFiniteSet(checkpoints') /\ Cardinality(checkpoints') <= Cardinality(checkpoints)
        /\ Cardinality(checkpoints') \in Nat /\ Cardinality(checkpoints) \in Nat
    BY <1>1, FS_Subset, FS_CardinalityType
  <2>2. PICK n \in Nat, m \in Nat : n = Cardinality(checkpoints') /\ m = Cardinality(checkpoints)
    BY <2>1
  <2> QED BY <2>1, <2>2 DEF Older
<1>4. CASE Older'
  <2>1. Older' = TRUE /\ Older = TRUE
    BY <1>3, <1>4 DEF Older
  <2>2. Seen' = Seen
    BY <1>2, <2>1 DEF Seen
  <2> QED BY <1>1, <2>2, ShowsNothing DEF AtWork
<1>5. CASE ~Older'
  <2>1. Older' = FALSE
    BY <1>5 DEF Older
  <2>2. Seen' = [logs |-> Seen.logs, latest |-> Seen.latest, older |-> FALSE,
                 leftover |-> Seen.leftover, complete |-> Seen.complete]
    BY <1>2, <2>1 DEF Seen
  <2>3. Seen' = [Seen EXCEPT !.older = FALSE]
    BY <2>2, OlderUpdated, SeenFields
  <2>4. Seen' \in Kind!Advanced(Seen)
    BY <2>3 DEF Kind!Advanced
  <2> QED BY <1>1, <2>4, ShowsAdvance
<1> QED BY <1>4, <1>5

LEMMA ReportShows == ASSUME IInv, WriteManifest PROVE Shows
<1>1. /\ UNCHANGED <<generations, metrics, checkpoints, abandoned>> /\ ~Finished
      /\ AtWork /\ AtWork' /\ manifest' = ManifestOf(Snapshot)
      /\ checkpoints # {} /\ Latest.step = steps /\ Progress(completed, steps)
  BY DEF WriteManifest, logs, AtWork, IInv, ProcessInv, Busy, Saved
<1>2. completed \in Nat /\ steps \in Nat
  BY <1>1 DEF Progress
<1>3. manifest' \in Manifests /\ manifest' # None
  BY <1>1, <1>2, NoneAssumption DEF ManifestOf, Manifests, Snapshot
<1>4. CASE completed = Total
  <2>1. Finished'
    BY <1>1, <1>3, <1>4 DEF Finished, ManifestOf, Snapshot
  <2>2. Seen.latest = StepsOf(Total)
    BY <1>1, <1>4, LatestShown DEF Progress
  <2>3. Seen' \in Kind!Advanced(Seen)
    BY <1>1, <1>3, <2>1, <2>2, CompleteShown DEF Kind!Advanced
  <2> QED BY <1>1, <2>3, ShowsAdvance
<1>5. CASE completed # Total
  <2>1. ~Finished'
    BY <1>1, <1>5 DEF Finished, ManifestOf, Snapshot
  <2> QED BY <1>1, <1>3, <2>1, LogsShown, ShowsAdvance
<1> QED BY <1>4, <1>5

\* Only a process that dies before it publishes leaves a directory behind.
LEMMA KillShows == ASSUME IInv, Kill PROVE Shows
<1>1. /\ UNCHANGED <<generations, metrics, checkpoints, manifest>>
      /\ abandoned' = abandoned \cup Abandoned /\ pc' = "idle"
      /\ pc \notin {"idle", "refused"}
  BY DEF Kill, Stop, Running, logs
<1>2. LatestStep' = LatestStep /\ Logged' = Logged /\ Older' = Older /\ Finished' = Finished
  BY <1>1 DEF LatestStep, Logged, Older, Finished, Latest
<1>3. CASE pc # "publish"
  <2>1. LeftOver' = LeftOver
    BY <1>1, <1>3 DEF LeftOver, Abandoned
  <2>2. Seen' = Seen
    BY <1>2, <2>1 DEF Seen
  <2>3. CASE pc = "preflight"
    BY <1>1, <2>2, <2>3, ShowsNothing DEF AtWork
  <2>4. CASE pc # "preflight"
    <3>1. Seen' \in Kind!Left(Seen)
      BY <2>2 DEF Kind!Left
    <3> QED BY <1>1, <2>4, <3>1, ShowsEnd DEF AtWork
  <2> QED BY <2>3, <2>4
<1>4. CASE pc = "publish"
  <2>1. LeftOver' = TRUE
    BY <1>1, <1>4 DEF LeftOver, Abandoned
  <2>2. Seen' = [logs |-> Seen.logs, latest |-> Seen.latest, older |-> Seen.older,
                 leftover |-> TRUE, complete |-> Seen.complete]
    BY <1>2, <2>1 DEF Seen
  <2>3. Seen' = [Seen EXCEPT !.leftover = TRUE]
    BY <2>2, LeftoverUpdated, SeenFields
  <2>4. Progress(completed, steps) /\ Unsaved
    BY <1>4 DEF IInv, ProcessInv, Saving
  <2>5. steps \in Nat /\ StepsOf(Total) \in Nat /\ steps <= StepsOf(Total)
    BY <2>4, StepsWithin DEF Progress
  <2>6. Seen.latest < StepsOf(Total)
    <3>1. CASE checkpoints = {}
      BY <2>5, <3>1, LatestShown
    <3>2. CASE checkpoints # {}
      <4>1. Seen.latest = Latest.step /\ Seen.latest \in Nat /\ steps = Latest.step + 1
        BY <2>4, <3>2, LatestShown DEF Unsaved
      <4> QED BY <2>5, <4>1
    <3> QED BY <3>1, <3>2
  <2>7. Seen' \in Kind!Left(Seen)
    BY <2>3, <2>6 DEF Kind!Left
  <2> QED BY <1>1, <1>4, <2>7, ShowsEnd DEF AtWork
<1> QED BY <1>3, <1>4

LEMMA KillInRowShows == ASSUME IInv, KillInRow PROVE Shows
<1>1. /\ UNCHANGED <<checkpoints, abandoned, manifest>>
      /\ pc \in {"sample", "measure"} /\ pc' = "idle" /\ ~Finished
  BY DEF KillInRow, Stop, IInv, ProcessInv, Busy, InWindow
<1>2. ~Finished'
  BY <1>1 DEF Finished
<1>3. generations' # None \/ metrics' # None
  <2>1. <<>> # None
    BY EmptySeq, NoneAssumption
  <2> QED BY <2>1 DEF KillInRow
<1> QED BY <1>1, <1>2, <1>3, LogsShown, ShowsEnd DEF AtWork

\* Steps that show nothing, and ends that leave what they find.
LEMMA OthersShow ==
  ASSUME IInv, \/ Launch \/ Refuse \/ SeedFresh \/ UpdatePolicy \/ WriteFiles
               \/ WriteCheckpointManifest \/ Exit \/ Fail \/ Settled \/ UNCHANGED vars
  PROVE  Shows
<1>1. Seen' = Seen
  BY FilesShown
     DEF Launch, Refuse, SeedFresh, UpdatePolicy, WriteFiles, WriteCheckpointManifest, Exit, Fail,
         Settled, vars
<1>2. \/ AtWork' = AtWork
      \/ AtWork /\ ~AtWork'
  BY DEF Launch, Refuse, SeedFresh, UpdatePolicy, WriteFiles, WriteCheckpointManifest, Exit, Fail,
         Stop, Running, Settled, vars, AtWork
<1>3. Seen' \in Kind!Left(Seen)
  BY <1>1 DEF Kind!Left
<1> QED BY <1>1, <1>2, <1>3, ShowsNothing, ShowsEnd

\* A directory behaves towards the suite as KindOutput says, for any number of
\* examples, batch size and interruptions: TrainingSuite may rely on it.
THEOREM TrainerImplementsKindOutput == Spec => ImplementsKindOutput
<1>1. Init => Kind!Init
  <2>1. ASSUME Init PROVE Logged = FALSE /\ LatestStep = -1 /\ Older = FALSE /\ LeftOver = FALSE
                          /\ Finished = FALSE
    BY <2>1, FS_EmptySet DEF Init, Logged, LatestStep, Older, LeftOver, Finished
  <2>2. ASSUME Init PROVE Seen = Kind!Empty /\ AtWork = FALSE
    BY <2>1, <2>2 DEF Init, Seen, AtWork, Kind!Empty, Kind!Unpublished
  <2> QED BY <2>2 DEF Kind!Init, Seen, AtWork, Logged, LatestStep, Older, LeftOver
<1>2. IInv /\ [Next]_vars => [Kind!Next]_(Kind!vars)
  <2> SUFFICES ASSUME IInv, [Next]_vars PROVE Shows
    BY DEF Shows
  <2>1. CASE Preflight \/ RestoreGenerations \/ RestoreMetrics \/ LoadCheckpoint
    BY <2>1, PreflightShows, RestoreShows, LoadShows
  <2>2. CASE SampleExample \/ MeasureExample
    BY <2>2, RowsShow
  <2>3. CASE PublishCheckpoint \/ PruneCheckpoints \/ WriteManifest
    BY <2>3, PublishShows, PruneShows, ReportShows
  <2>4. CASE Kill \/ KillInRow
    BY <2>4, KillShows, KillInRowShows
  <2>5. CASE \/ Launch \/ Refuse \/ SeedFresh \/ UpdatePolicy \/ WriteFiles
             \/ WriteCheckpointManifest \/ Exit \/ Fail \/ Settled \/ UNCHANGED vars
    BY <2>5, OthersShow
  <2> QED BY <2>1, <2>2, <2>3, <2>4, <2>5 DEF Next, Work, Interrupt
<1> QED BY <1>1, <1>2, TrainerInvariant, PTL DEF Spec, ImplementsKindOutput, Kind!Spec

=============================================================================
