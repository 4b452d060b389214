-------------------------- MODULE SourceRunsProofs --------------------------
(* Theorems about SourceRuns.  The bookkeeping for the artifacts only adds   *)
(* variables and guards to the steps of TrainBatch, so whatever is proved of *)
(* the batches holds of the runs that document them.                         *)
EXTENDS SourceRuns, TrainBatchProofs, Recursion

\* A step of a documented run is a step of its batch or leaves the batch alone.
LEMMA StepOfBatch == [SourceNext]_<<vars, artifacts>> => [Next]_vars
<1> SUFFICES ASSUME [SourceNext]_<<vars, artifacts>> PROVE [Next]_vars
  OBVIOUS
<1>1. CASE UNCHANGED <<vars, artifacts>>
  BY <1>1
<1>2. CASE Quiescent /\ UNCHANGED artifacts
  BY <1>2 DEF Next
<1>3. ASSUME NEW r \in Runs, SourceStep(r) PROVE [Next]_vars
  <2>1. CASE TakeMaintenanceSnapshot(r)
    BY <2>1 DEF TakeMaintenanceSnapshot
  <2>2. CASE BeginDocumentedRound(r)
    BY <2>2 DEF BeginDocumentedRound, Next, Step
  <2>3. CASE ReviewShown(r)
    BY <2>3 DEF ReviewShown, Next, Step
  <2>4. CASE FailDocumentedRound(r)
    BY <2>4 DEF FailDocumentedRound, Next, Step
  <2>5. CASE DocumentRound(r)
    BY <2>5 DEF DocumentRound, Next, Step
  <2>6. CASE CrashSource(r)
    BY <2>6 DEF CrashSource, Next
  <2>7. CASE ExecuteDocumented(r)
    BY <2>7 DEF ExecuteDocumented, Next, Step
  <2>8. CASE \/ ReadGeneration(r) \/ TakeInputSnapshot(r) \/ Discard(r)
             \/ LoadBatchState(r) \/ ValidateId(r) \/ StartAdding(r) \/ AddMemory(r)
             \/ ListDueRounds(r) \/ ApplyDecision(r) \/ TakeOutputSnapshot(r)
             \/ CommitState(r) \/ PublishArtifacts(r)
    BY <2>8 DEF Next, Step
  <2> QED BY <1>3, <2>1, <2>2, <2>3, <2>4, <2>5, <2>6, <2>7, <2>8 DEF SourceStep
<1> QED BY <1>1, <1>2, <1>3 DEF SourceNext

\* Runs that document what they do are runs of TrainBatch: the snapshot taken
\* before the lock, the records and the history decide nothing (run_batch).
THEOREM DocumentedRunsAreRuns == SourceSpec => Spec
<1>1. SourceInit => Init
  BY DEF SourceInit
<1> QED BY <1>1, StepOfBatch, PTL DEF SourceSpec, Spec

\* Two runs of one namespace are never accepted as sources of one dataset,
\* whatever their interleaving, sizes and contents: _validate_run_set compares
\* the generation that commit_memory_state makes unique.
THEOREM NoSourceSetOfTwo == SourceSpec => []SourcesStandAlone
<1>1. SerialGenerations => SourcesStandAlone
  <2> SUFFICES ASSUME SerialGenerations, NEW r \in Runs, NEW s \in Runs,
                      Source(r), Source(s), r # s
               PROVE  ~OneLineage({r, s})
    BY DEF SourcesStandAlone
  <2>1. r \in Committed /\ s \in Committed
    BY DEF Source, Completed, Committed
  <2>2. gen[r] # gen[s]
    BY <2>1 DEF SerialGenerations
  <2> QED BY <2>2 DEF OneLineage
<1> QED BY <1>1, DocumentedRunsAreRuns, GenerationsAreSerial, PTL

-----------------------------------------------------------------------------
(* Credit for new Memories.                                                  *)

\* The first episode that proposed a Memory the batch found missing created it.
LEMMA FirstProposerCreates ==
  ASSUME NEW r \in Runs, NEW i \in fresh[r], fresh[r] \subseteq Proposed(r)
  PROVE  \E e \in Episodes(r) : i \in Created(r, e)
<1> DEFINE T == {e \in Episodes(r) : i \in Writes(r, e)}
<1>1. i \in Ids /\ \E e \in Episodes(r) : i \in Writes(r, e)
  BY DEF Proposed, Offered, Writes
<1>2. T # {}
  BY <1>1
<1>3. T \in SUBSET Nat
  BY BatchSizeAssumption DEF Episodes
<1>4. PICK m \in T : \A k \in T : m <= k
  BY <1>2, <1>3, LeastOfNats
<1>5. \A f \in 1..(m - 1) : f \in Episodes(r) /\ ~(m <= f)
  BY <1>3, <1>4, BatchSizeAssumption DEF Episodes
<1>6. i \notin Replayed(r, m)
  BY <1>4, <1>5 DEF Replayed
<1> QED BY <1>4, <1>6 DEF Created

\* Evidence gives each new Memory to one episode of one run, for any batches
\* and any interleaving: the dispositions of commit_pending_experience name
\* what MemoryRepository.add really added (evidence.py, attribution.py).
THEOREM CreditIsGivenOnce == SourceSpec => []CreditIsDue
<1>1. CreatorInv => CreditIsDue
  <2> SUFFICES ASSUME CreatorInv, NEW r \in Runs, Source(r)
               PROVE
    /\ UNION {Created(r, e) : e \in Episodes(r)} = created[r]
    /\ \A e, f \in Episodes(r) : e # f => Created(r, e) \cap Created(r, f) = {}
    /\ \A s \in Runs \ {r} : Source(s) =>
         \A e \in Episodes(r), f \in Episodes(s) : Created(r, e) \cap Created(s, f) = {}
    BY DEF CreditIsDue
  <2>1. \A s \in Runs : Source(s) => fresh[s] = created[s] /\ fresh[s] \subseteq Proposed(s)
    BY DEF CreatorInv, Writer, Added, Source, Completed
  <2>2. \A s \in Runs : Source(s) => \A e \in Episodes(s) : Created(s, e) \subseteq created[s]
    BY <2>1 DEF Created, Replayed
  <2>3. UNION {Created(r, e) : e \in Episodes(r)} = created[r]
    <3>1. \A i \in created[r] : \E e \in Episodes(r) : i \in Created(r, e)
      BY <2>1, FirstProposerCreates
    <3> QED BY <2>2, <3>1
  <2>4. ASSUME NEW e \in Episodes(r), NEW f \in Episodes(r), e # f
        PROVE  Created(r, e) \cap Created(r, f) = {}
    <3>1. e \in Nat \ {0} /\ f \in Nat \ {0}
      BY BatchSizeAssumption DEF Episodes
    <3>2. CASE e < f
      <4>1. e \in 1..(f - 1)
        BY <3>1, <3>2
      <4> QED BY <4>1 DEF Created, Replayed
    <3>3. CASE f < e
      <4>1. f \in 1..(e - 1)
        BY <3>1, <3>3
      <4> QED BY <4>1 DEF Created, Replayed
    <3> QED BY <2>4, <3>1, <3>2, <3>3
  <2>5. ASSUME NEW s \in Runs \ {r}, Source(s), NEW e \in Episodes(r), NEW f \in Episodes(s)
        PROVE  Created(r, e) \cap Created(s, f) = {}
    <3>1. created[r] \cap created[s] = {}
      BY DEF CreatorInv
    <3> QED BY <2>2, <2>5, <3>1
  <2> QED BY <2>3, <2>4, <2>5
<1> QED BY <1>1, DocumentedRunsAreRuns, CreatorInvariant, PTL

-----------------------------------------------------------------------------
(* The typing of what a run remembers for its artifacts.                     *)

SourceTyped ==
  /\ SourceTypeOK
  /\ \A r \in Runs : pc[r] \in HoldsLock => view[r] \in Contents

LEMMA SourceTypedStep ==
  ScheduleIInv /\ SourceTyped /\ [SourceNext]_<<vars, artifacts>> => SourceTyped'
<1> SUFFICES ASSUME TypeOK, ScheduleInv, SourceTyped, [SourceNext]_<<vars, artifacts>>
             PROVE  SourceTyped'
  BY DEF ScheduleIInv
<1> USE DEF SourceTyped, SourceTypeOK
<1>1. CASE UNCHANGED <<vars, artifacts>>
  BY <1>1 DEF vars, artifacts, Contents, MaintenanceRecords
<1>2. CASE Quiescent /\ UNCHANGED artifacts
  BY <1>2 DEF Quiescent, vars, artifacts
<1>3. ASSUME NEW r \in Runs, SourceStep(r), Disturb(r) PROVE SourceTyped'
  <2>1. disturbed' \in [Runs -> BOOLEAN]
    BY <1>3 DEF Disturb
  <2>2. CASE TakeMaintenanceSnapshot(r)
    BY <2>1, <2>2 DEF TakeMaintenanceSnapshot, Reloaded, vars, TypeOK, HoldsLock
  <2>3. CASE BeginDocumentedRound(r)
    <3>1. \A s \in Runs : pc'[s] \in HoldsLock =>
            IF s = r THEN pc'[s] = "review" ELSE pc[s] \in HoldsLock
      BY <2>3 DEF BeginDocumentedRound, BeginRound, HoldsLock, TypeOK
    <3>2. view[r] \in Contents /\ view' \in [Runs -> Contents \cup {None}]
      BY <2>3 DEF BeginDocumentedRound
    <3>3. failures' \in [Runs -> BOOLEAN]
      BY <2>3 DEF BeginDocumentedRound
    <3>4. \A s \in Runs : pc'[s] \in HoldsLock => view'[s] \in Contents
      BY <2>3, <3>1, <3>2 DEF BeginDocumentedRound
    <3> QED BY <2>1, <2>3, <3>2, <3>3, <3>4 DEF BeginDocumentedRound
  <2>4. CASE ReviewShown(r)
    <3>1. \A s \in Runs : pc'[s] \in HoldsLock => pc[s] \in HoldsLock
      BY <2>4 DEF ReviewShown, ReviewMemories, Goto, HoldsLock, TypeOK
    <3>2. [i \in Ids |-> IF i \in Active(memory) THEN memory[i] ELSE None] \in Contents
      BY DEF TypeOK, Contents
    <3> QED BY <2>1, <2>4, <3>1, <3>2 DEF ReviewShown
  <2>5. CASE FailDocumentedRound(r)
    <3>1. \A s \in Runs : pc'[s] \in HoldsLock => pc[s] \in HoldsLock /\ s # r
      BY <2>5 DEF FailDocumentedRound, FailRound, HoldsLock, TypeOK
    <3> QED BY <2>1, <2>5, <3>1 DEF FailDocumentedRound
  <2>6. CASE DocumentRound(r)
    <3>1. pc[r] = "record" /\ \A s \in Runs : pc'[s] \in HoldsLock => pc[s] \in HoldsLock /\ s # r
      BY <2>6 DEF DocumentRound, RecordRound, Goto, HoldsLock, TypeOK
    <3>2. NextRound(r) \in Nat
      BY <3>1, HolderAtFrontier DEF ScheduleInv, HoldsLock
    <3>3. \A b \in BOOLEAN : Record(r, b) \in MaintenanceRecords
      BY <3>1, <3>2 DEF Record, MaintenanceRecords, HoldsLock, TypeOK
    <3> QED BY <2>1, <2>6, <3>1, <3>3 DEF DocumentRound, ViewAfter
  <2>7. CASE CrashSource(r)
    <3>1. \A s \in Runs : pc'[s] \in HoldsLock => pc[s] \in HoldsLock /\ s # r
      BY <2>7 DEF CrashSource, Crash, HoldsLock, TypeOK
    <3> QED BY <2>1, <2>7, <3>1 DEF CrashSource
  <2>8. CASE UNCHANGED <<gaps, view, shown, records, failures>>
             /\ \A s \in Runs : pc'[s] \in HoldsLock => pc[s] \in HoldsLock
    BY <2>1, <2>8
  <2>9. CASE ReadGeneration(r) /\ UNCHANGED <<gaps, view, shown, records, failures>>
    <3>1. \A s \in Runs : pc'[s] \in HoldsLock => pc[s] \in HoldsLock
      BY <2>9 DEF ReadGeneration, Goto, HoldsLock, TypeOK
    <3> QED BY <2>8, <2>9, <3>1
  <2>10. CASE TakeInputSnapshot(r) /\ UNCHANGED <<gaps, view, shown, records, failures>>
    <3>1. \A s \in Runs : pc'[s] \in HoldsLock => pc[s] \in HoldsLock
      BY <2>10 DEF TakeInputSnapshot, Goto, HoldsLock, TypeOK
    <3> QED BY <2>8, <2>10, <3>1
  <2>11. CASE ExecuteDocumented(r)
    <3>1. \A s \in Runs : pc'[s] \in HoldsLock => pc[s] \in HoldsLock
      BY <2>11 DEF ExecuteDocumented, Execute, HoldsLock, TypeOK
    <3>2. DOMAIN gaps' = Runs /\ \A s \in Runs : gaps'[s] \subseteq Episodes(s)
      BY <2>11 DEF ExecuteDocumented
    <3> QED BY <2>1, <2>11, <3>1, <3>2 DEF ExecuteDocumented
  <2>12. CASE Discard(r) /\ UNCHANGED <<gaps, view, shown, records, failures>>
    <3>1. \A s \in Runs : pc'[s] \in HoldsLock => pc[s] \in HoldsLock
      BY <2>12 DEF Discard, Goto, HoldsLock, TypeOK
    <3> QED BY <2>8, <2>12, <3>1
  <2>13. CASE LoadBatchState(r) /\ UNCHANGED <<gaps, view, shown, records, failures>>
    <3>1. \A s \in Runs : pc'[s] \in HoldsLock => pc[s] \in HoldsLock
      BY <2>13 DEF LoadBatchState, Goto, HoldsLock, TypeOK
    <3> QED BY <2>8, <2>13, <3>1
  <2>14. CASE ValidateId(r) /\ UNCHANGED <<gaps, view, shown, records, failures>>
    <3>1. \A s \in Runs : pc'[s] \in HoldsLock => pc[s] \in HoldsLock
      BY <2>14 DEF ValidateId, HoldsLock, TypeOK
    <3> QED BY <2>8, <2>14, <3>1
  <2>15. CASE StartAdding(r) /\ UNCHANGED <<gaps, view, shown, records, failures>>
    <3>1. \A s \in Runs : pc'[s] \in HoldsLock => pc[s] \in HoldsLock
      BY <2>15 DEF StartAdding, Goto, HoldsLock, TypeOK
    <3> QED BY <2>8, <2>15, <3>1
  <2>16. CASE AddMemory(r) /\ UNCHANGED <<gaps, view, shown, records, failures>>
    <3>1. \A s \in Runs : pc'[s] \in HoldsLock => pc[s] \in HoldsLock
      BY <2>16 DEF AddMemory, HoldsLock, TypeOK
    <3> QED BY <2>8, <2>16, <3>1
  <2>17. CASE ListDueRounds(r) /\ UNCHANGED <<gaps, view, shown, records, failures>>
    <3>1. \A s \in Runs : pc'[s] \in HoldsLock => pc[s] \in HoldsLock
      BY <2>17 DEF ListDueRounds, HoldsLock, TypeOK
    <3> QED BY <2>8, <2>17, <3>1
  <2>18. CASE ApplyDecision(r) /\ UNCHANGED <<gaps, view, shown, records, failures>>
    <3>1. \A s \in Runs : pc'[s] \in HoldsLock => pc[s] \in HoldsLock
      BY <2>18 DEF ApplyDecision, Goto, HoldsLock, TypeOK
    <3> QED BY <2>8, <2>18, <3>1
  <2>19. CASE TakeOutputSnapshot(r) /\ UNCHANGED <<gaps, view, shown, records, failures>>
    <3>1. \A s \in Runs : pc'[s] \in HoldsLock => pc[s] \in HoldsLock
      BY <2>19 DEF TakeOutputSnapshot, HoldsLock, TypeOK
    <3> QED BY <2>8, <2>19, <3>1
  <2>20. CASE CommitState(r) /\ UNCHANGED <<gaps, view, shown, records, failures>>
    <3>1. \A s \in Runs : pc'[s] \in HoldsLock => pc[s] \in HoldsLock
      BY <2>20 DEF CommitState, HoldsLock, TypeOK
    <3> QED BY <2>8, <2>20, <3>1
  <2>21. CASE PublishArtifacts(r) /\ UNCHANGED <<gaps, view, shown, records, failures>>
    <3>1. \A s \in Runs : pc'[s] \in HoldsLock => pc[s] \in HoldsLock
      BY <2>21 DEF PublishArtifacts, Goto, HoldsLock, TypeOK
    <3> QED BY <2>8, <2>21, <3>1
  <2> QED BY <1>3, <2>2, <2>3, <2>4, <2>5, <2>6, <2>7, <2>9, <2>10, <2>11, <2>12, <2>13, <2>14,
             <2>15, <2>16, <2>17, <2>18, <2>19, <2>20, <2>21 DEF SourceStep
<1> QED BY <1>1, <1>2, <1>3 DEF SourceNext

LEMMA BatchInvariants ==
  SourceSpec => [](ScheduleIInv /\ GenerationInv /\ ExperienceInv /\ CreatorInv)
BY DocumentedRunsAreRuns, ScheduleInvariant, GenerationInvariant, ExperienceInvariant,
   CreatorInvariant, PTL

\* A record is made of a snapshot, of what was shown and of a decision, also
\* after rounds that were skipped or failed.
THEOREM ArtifactsTyped == SourceSpec => []SourceTypeOK
<1>1. SourceInit => SourceTyped
  BY DEF SourceInit, Init, SourceTyped, SourceTypeOK, HoldsLock, Contents
<1>2. SourceTyped => SourceTypeOK
  BY DEF SourceTyped
<1> QED BY <1>1, <1>2, SourceTypedStep, BatchInvariants, PTL DEF SourceSpec

-----------------------------------------------------------------------------
(* Episodes that propose the same id propose the same text, once validated.  *)

Agreed(r, i) == \A a, b \in Offered(r, i) : a = b

Validated == Added \cup {"add"}

AgreeInv ==
  \A r \in Runs :
    /\ pc[r] = "validate" => \A i \in Proposed(r) \ todo[r] : Agreed(r, i)
    /\ pc[r] \in Validated => \A i \in Proposed(r) : Agreed(r, i)

LEMMA NoConflictAgrees ==
  ASSUME NEW r \in Runs, NEW i \in Ids, ~Conflicting(r, i)
  PROVE  Agreed(r, i)
BY DEF Conflicting, Agreed

\* How a run comes to the stages of validation and of what follows it.
Validates(q) ==
  /\ pc'[q] \in Validated =>
       /\ plan'[q] = plan[q]
       /\ pc[q] \in Validated \/ (pc[q] = "validate" /\ todo[q] = {})
  /\ pc'[q] = "validate" =>
       /\ plan'[q] = plan[q]
       /\ \/ todo'[q] = Proposed(q)
          \/ pc[q] = "validate" /\ todo'[q] = todo[q]
          \/ /\ pc[q] = "validate"
             /\ \E i \in Ids : ~Conflicting(q, i) /\ todo'[q] = todo[q] \ {i}

LEMMA StepValidates ==
  ASSUME TypeOK, NEW r \in Runs, Step(r) \/ Crash(r), NEW q \in Runs
  PROVE  Validates(q)
<1>1. CASE ReadGeneration(r)
  BY <1>1 DEF ReadGeneration, Goto, Validates, Validated, Added, HoldsLock, TypeOK, local
<1>2. CASE TakeInputSnapshot(r)
  BY <1>2 DEF TakeInputSnapshot, Goto, Validates, Validated, Added, HoldsLock, TypeOK, local
<1>3. CASE Execute(r)
  BY <1>3 DEF Execute, Validates, Validated, Added, HoldsLock, TypeOK, local
<1>4. CASE Discard(r)
  BY <1>4 DEF Discard, Goto, Validates, Validated, Added, HoldsLock, TypeOK, local
<1>5. CASE LoadBatchState(r)
  BY <1>5 DEF LoadBatchState, Goto, Validates, Validated, Added, HoldsLock, TypeOK, local
<1>6. CASE ValidateId(r)
  BY <1>6 DEF ValidateId, Validates, Validated, Added, HoldsLock, TypeOK, local
<1>7. CASE StartAdding(r)
  BY <1>7 DEF StartAdding, Goto, Validates, Validated, Added, HoldsLock, TypeOK, local
<1>8. CASE AddMemory(r)
  BY <1>8 DEF AddMemory, Validates, Validated, Added, HoldsLock, TypeOK, local
<1>9. CASE ListDueRounds(r)
  BY <1>9 DEF ListDueRounds, Validates, Validated, Added, HoldsLock, TypeOK, local
<1>10. CASE BeginRound(r)
  BY <1>10 DEF BeginRound, Validates, Validated, Added, HoldsLock, TypeOK, local
<1>11. CASE ReviewMemories(r)
  BY <1>11 DEF ReviewMemories, Goto, Validates, Validated, Added, HoldsLock, TypeOK, local
<1>12. CASE FailRound(r)
  BY <1>12 DEF FailRound, Validates, Validated, Added, HoldsLock, TypeOK, local
<1>13. CASE ApplyDecision(r)
  BY <1>13 DEF ApplyDecision, Goto, Validates, Validated, Added, HoldsLock, TypeOK, local
<1>14. CASE RecordRound(r)
  BY <1>14 DEF RecordRound, Goto, Validates, Validated, Added, HoldsLock, TypeOK, local
<1>15. CASE TakeOutputSnapshot(r)
  BY <1>15 DEF TakeOutputSnapshot, Validates, Validated, Added, HoldsLock, TypeOK, local
<1>16. CASE CommitState(r)
  BY <1>16 DEF CommitState, Validates, Validated, Added, HoldsLock, TypeOK, local
<1>17. CASE PublishArtifacts(r)
  BY <1>17 DEF PublishArtifacts, Goto, Validates, Validated, Added, HoldsLock, TypeOK, local
<1>18. CASE Crash(r)
  BY <1>18 DEF Crash, Validates, Validated, Added, HoldsLock, TypeOK, local
<1> QED BY <1>1, <1>2, <1>3, <1>4, <1>5, <1>6, <1>7, <1>8, <1>9, <1>10, <1>11, <1>12, <1>13,
           <1>14, <1>15, <1>16, <1>17, <1>18 DEF Step

LEMMA AgreeStep == TypeOK /\ AgreeInv /\ [Next]_vars => AgreeInv'
<1> SUFFICES ASSUME TypeOK, AgreeInv, [Next]_vars, NEW q \in Runs
             PROVE  /\ pc'[q] = "validate" => \A i \in Proposed(q)' \ todo'[q] : Agreed(q, i)'
                    /\ pc'[q] \in Validated => \A i \in Proposed(q)' : Agreed(q, i)'
  BY DEF AgreeInv
<1>1. ASSUME plan'[q] = plan[q]
      PROVE  Proposed(q)' = Proposed(q) /\ \A i \in Ids : Agreed(q, i) => Agreed(q, i)'
  BY <1>1 DEF Proposed, Offered, Agreed
<1>2. Proposed(q) \subseteq Ids
  BY ProposedIds
<1>3. CASE UNCHANGED vars
  BY <1>1, <1>2, <1>3 DEF vars, local, AgreeInv
<1>4. ASSUME Validates(q)
      PROVE  /\ pc'[q] = "validate" => \A i \in Proposed(q)' \ todo'[q] : Agreed(q, i)'
             /\ pc'[q] \in Validated => \A i \in Proposed(q)' : Agreed(q, i)'
  <2>1. CASE pc'[q] \in Validated
    <3>1. pc'[q] # "validate"
      BY <2>1 DEF Validated, Added, HoldsLock
    <3>2. plan'[q] = plan[q] /\ (pc[q] \in Validated \/ (pc[q] = "validate" /\ todo[q] = {}))
      BY <1>4, <2>1 DEF Validates
    <3> QED BY <1>1, <1>2, <3>1, <3>2 DEF AgreeInv
  <2>2. CASE pc'[q] = "validate"
    <3>1. pc'[q] \notin Validated
      BY <2>2 DEF Validated, Added, HoldsLock
    <3>2. plan'[q] = plan[q]
      BY <1>4, <2>2 DEF Validates
    <3>3. \A i \in Proposed(q) \ todo'[q] : Agreed(q, i)
      BY <1>2, <1>4, <2>2, NoConflictAgrees DEF Validates, AgreeInv
    <3> QED BY <1>1, <1>2, <3>1, <3>2, <3>3
  <2> QED BY <2>1, <2>2
<1>5. ASSUME NEW r \in Runs, Step(r) \/ Crash(r) PROVE Validates(q)
  BY <1>5, StepValidates
<1> QED BY <1>3, <1>4, <1>5 DEF Next, Quiescent

LEMMA AgreeInvariant == Spec => []AgreeInv
<1>1. Init => AgreeInv
  BY DEF Init, AgreeInv, Validated, Added, HoldsLock
<1>2. ScheduleIInv => TypeOK
  BY DEF ScheduleIInv
<1> QED BY <1>1, <1>2, AgreeStep, ScheduleInvariant, PTL DEF Spec

-----------------------------------------------------------------------------
(* What an undisturbed run publishes is accepted.  As long as nobody else    *)
(* writes, the namespace is the input snapshot until the run adds to it, and *)
(* the snapshot of a round is what the round then reviews.                   *)

Quiet(r) == ~disturbed[r] /\ ~pinned[r]
Early == {"resolve", "snapshot", "execute", "discard", "load", "validate", "add"}

Faithful(r) ==
  /\ pc[r] \in {"execute", "load", "validate"} => memory = input[r]
  /\ pc[r] = "validate" =>
       \A i \in Proposed(r) \ todo[r] : i \in fresh[r] \/ i \in Known(input[r])
  /\ pc[r] \in Validated =>
       \A i \in Proposed(r) : i \in fresh[r] \/ i \in Known(input[r])
  /\ pc[r] \in Validated \cup {"validate"} => fresh[r] \cap Known(input[r]) = {}
  /\ pc[r] \in Early => view[r] = None
  /\ pc[r] = "rounds" => view[r] \in {None, memory}
  /\ pc[r] = "review" => view[r] = memory
  /\ pc[r] \in {"apply", "record"} => RecordAccepted(Record(r, FALSE))
  /\ \A rec \in records[r] : ~rec.repeats => RecordAccepted(rec)

EvidenceInv == \A r \in Runs : Quiet(r) => Faithful(r)

\* The part of a run's own state that Faithful is about.
OwnState(q) == <<pc[q], input[q], plan[q], todo[q], fresh[q], due[q], decision[q],
                 view[q], shown[q], records[q], pinned[q]>>

LEMMA StepLeavesOthers ==
  ASSUME TypeOK, SourceTypeOK, NEW r \in Runs, SourceStep(r), NEW q \in Runs, q # r
  PROVE  OwnState(q)' = OwnState(q)
<1> USE DEF OwnState, TypeOK, SourceTypeOK
<1>1. CASE TakeMaintenanceSnapshot(r)
  BY <1>1 DEF TakeMaintenanceSnapshot, vars, local
<1>2. CASE BeginDocumentedRound(r)
  BY <1>2 DEF BeginDocumentedRound, BeginRound, local
<1>3. CASE ReviewShown(r)
  BY <1>3 DEF ReviewShown, ReviewMemories, Goto, local
<1>4. CASE FailDocumentedRound(r)
  BY <1>4 DEF FailDocumentedRound, FailRound, local
<1>5. CASE DocumentRound(r)
  BY <1>5 DEF DocumentRound, RecordRound, Goto, ViewAfter, local
<1>6. CASE CrashSource(r)
  BY <1>6 DEF CrashSource, Crash, local
<1>7. CASE ReadGeneration(r) /\ UNCHANGED <<gaps, view, shown, records, failures>>
  BY <1>7 DEF ReadGeneration, Goto, local
<1>8. CASE TakeInputSnapshot(r) /\ UNCHANGED <<gaps, view, shown, records, failures>>
  BY <1>8 DEF TakeInputSnapshot, Goto, local
<1>9. CASE ExecuteDocumented(r)
  BY <1>9 DEF ExecuteDocumented, Execute, local
<1>10. CASE Discard(r) /\ UNCHANGED <<gaps, view, shown, records, failures>>
  BY <1>10 DEF Discard, Goto, local
<1>11. CASE LoadBatchState(r) /\ UNCHANGED <<gaps, view, shown, records, failures>>
  BY <1>11 DEF LoadBatchState, Goto, local
<1>12. CASE ValidateId(r) /\ UNCHANGED <<gaps, view, shown, records, failures>>
  BY <1>12 DEF ValidateId, local
<1>13. CASE StartAdding(r) /\ UNCHANGED <<gaps, view, shown, records, failures>>
  BY <1>13 DEF StartAdding, Goto, local
<1>14. CASE AddMemory(r) /\ UNCHANGED <<gaps, view, shown, records, failures>>
  BY <1>14 DEF AddMemory, local
<1>15. CASE ListDueRounds(r) /\ UNCHANGED <<gaps, view, shown, records, failures>>
  BY <1>15 DEF ListDueRounds, local
<1>16. CASE ApplyDecision(r) /\ UNCHANGED <<gaps, view, shown, records, failures>>
  BY <1>16 DEF ApplyDecision, Goto, local
<1>17. CASE TakeOutputSnapshot(r) /\ UNCHANGED <<gaps, view, shown, records, failures>>
  BY <1>17 DEF TakeOutputSnapshot, local
<1>18. CASE CommitState(r) /\ UNCHANGED <<gaps, view, shown, records, failures>>
  BY <1>18 DEF CommitState, local
<1>19. CASE PublishArtifacts(r) /\ UNCHANGED <<gaps, view, shown, records, failures>>
  BY <1>19 DEF PublishArtifacts, Goto, local
<1> QED BY <1>1, <1>2, <1>3, <1>4, <1>5, <1>6, <1>7, <1>8, <1>9, <1>10, <1>11, <1>12, <1>13,
           <1>14, <1>15, <1>16, <1>17, <1>18, <1>19 DEF SourceStep

\* Whoever is disturbed stays so, and a write disturbs all others that run.
LEMMA OthersStayFaithful ==
  ASSUME TypeOK, SourceTypeOK, NEW r \in Runs, SourceStep(r), Disturb(r),
         NEW q \in Runs, q # r, Quiet(q) => Faithful(q), Quiet(q)'
  PROVE  Faithful(q)'
<1>1. OwnState(q)' = OwnState(q)
  BY StepLeavesOthers
<1>2. ~disturbed[q] /\ ~(pc[q] \in Running /\ memory' # memory)
  BY DEF Disturb, Quiet, SourceTypeOK
<1>3. Faithful(q)
  BY <1>1, <1>2 DEF Quiet, OwnState
<1>4. Proposed(q)' = Proposed(q) /\ Known(input[q])' = Known(input[q])
  BY <1>1 DEF OwnState, Proposed, Offered, Known
<1>5. Record(q, FALSE)' = Record(q, FALSE)
  BY <1>1 DEF OwnState, Record, NextRound
<1>6. CASE memory' = memory
  BY <1>1, <1>3, <1>4, <1>5, <1>6 DEF OwnState, Faithful
<1>7. CASE pc[q] \notin Running
  BY <1>1, <1>3, <1>4, <1>5, <1>7 DEF OwnState, Faithful, Running, HoldsLock
<1> QED BY <1>2, <1>6, <1>7

\* Proposals and the snapshot stand while the plan and the input do.
LEMMA SamePlan ==
  ASSUME NEW r \in Runs, plan'[r] = plan[r], input'[r] = input[r]
  PROVE  Proposed(r)' = Proposed(r) /\ Known(input[r])' = Known(input[r])
BY DEF Proposed, Offered, Known

\* The run's own steps until it has added its last Memory.
LEMMA EarlyStepFaithful ==
  ASSUME TypeOK, SourceTypeOK, NEW r \in Runs, Writer(r), Faithful(r), ~pinned'[r],
         UNCHANGED <<view, shown, records, failures>>,
         \/ ReadGeneration(r) \/ TakeInputSnapshot(r) \/ Execute(r) \/ Discard(r)
         \/ LoadBatchState(r) \/ ValidateId(r) \/ StartAdding(r) \/ AddMemory(r)
         \/ ListDueRounds(r)
  PROVE  Faithful(r)'
<1>1. \A rec \in records'[r] : ~rec.repeats => RecordAccepted(rec)
  BY DEF Faithful
<1> USE DEF TypeOK, Early, Validated, Added, HoldsLock
<1>2. pc[r] \in Early /\ view'[r] = None
  BY DEF Faithful, ReadGeneration, TakeInputSnapshot, Execute, Discard, LoadBatchState,
     ValidateId, StartAdding, AddMemory, ListDueRounds, Goto
<1>3. CASE ReadGeneration(r)
  <2>1. pc'[r] = "snapshot"
    BY <1>3 DEF ReadGeneration, Goto
  <2> QED BY <1>1, <1>2, <2>1 DEF Faithful
<1>4. CASE TakeInputSnapshot(r)
  <2>1. pc'[r] = "execute" /\ input'[r] = memory /\ memory' = memory
    BY <1>4 DEF TakeInputSnapshot, Goto, Reloaded, durable
  <2> QED BY <1>1, <1>2, <2>1 DEF Faithful
<1>5. CASE Execute(r)
  <2>1. pc'[r] \in {"load", "discard"} /\ input'[r] = memory' /\ memory' = memory
    BY <1>5 DEF Execute, durable, Faithful
  <2> QED BY <1>1, <1>2, <2>1 DEF Faithful
<1>6. CASE Discard(r)
  <2>1. pc'[r] = "failed"
    BY <1>6 DEF Discard, Goto
  <2> QED BY <1>1, <2>1 DEF Faithful
<1>7. CASE LoadBatchState(r)
  <2>1. /\ pc'[r] = "validate" /\ pc[r] = "load" /\ input'[r] = input[r] /\ memory' = memory
        /\ plan'[r] = plan[r] /\ todo'[r] = Proposed(r) /\ fresh'[r] = fresh[r]
    BY <1>7 DEF LoadBatchState, Goto, durable
  <2>2. fresh'[r] = {} /\ memory' = input'[r]
    BY <2>1 DEF Writer, Faithful
  <2>3. Proposed(r)' \ todo'[r] = {}
    BY <2>1, SamePlan
  <2> QED BY <1>1, <1>2, <2>1, <2>2, <2>3 DEF Faithful
<1>8. CASE ValidateId(r)
  <2>1. /\ pc[r] = "validate" /\ input'[r] = input[r] /\ memory' = memory /\ plan'[r] = plan[r]
    BY <1>8 DEF ValidateId, durable
  <2>2. PICK i \in todo[r] :
          IF Conflicting(r, i) THEN pc'[r] = "aborted"
          ELSE /\ pc'[r] = pc[r] /\ todo'[r] = todo[r] \ {i}
               /\ fresh'[r] = IF memory[i] = None THEN fresh[r] \cup {i} ELSE fresh[r]
    BY <1>8 DEF ValidateId
  <2>3. CASE Conflicting(r, i)
    <3>1. pc'[r] = "aborted"
      BY <2>2, <2>3
    <3> QED BY <1>1, <3>1 DEF Faithful
  <2>4. CASE ~Conflicting(r, i)
    <3>1. /\ pc'[r] = "validate" /\ todo'[r] = todo[r] \ {i} /\ i \in Ids
          /\ fresh'[r] = IF memory[i] = None THEN fresh[r] \cup {i} ELSE fresh[r]
      BY <2>1, <2>2, <2>4
    <3>2. memory = input[r] /\ fresh[r] \cap Known(input[r]) = {}
      BY <2>1 DEF Faithful
    <3>3. i \in Known(input[r]) <=> memory[i] # None
      BY <3>1, <3>2 DEF Known
    <3>4. fresh'[r] \cap Known(input[r]) = {}
      BY <3>1, <3>2, <3>3
    <3>5. \A j \in Proposed(r) \ todo'[r] : j \in fresh'[r] \/ j \in Known(input[r])
      BY <2>1, <3>1, <3>3 DEF Faithful
    <3> QED BY <1>1, <1>2, <2>1, <3>1, <3>2, <3>4, <3>5, SamePlan DEF Faithful
  <2> QED BY <2>3, <2>4
<1>9. CASE StartAdding(r)
  <2>1. /\ pc[r] = "validate" /\ pc'[r] = "add" /\ todo[r] = {} /\ fresh'[r] = fresh[r]
        /\ plan'[r] = plan[r] /\ input'[r] = input[r]
    BY <1>9 DEF StartAdding, Goto
  <2> QED BY <1>1, <1>2, <2>1, SamePlan DEF Faithful
<1>10. CASE AddMemory(r)
  <2>1. /\ pc[r] = "add" /\ pc'[r] \in {"add", "aborted"} /\ fresh'[r] = fresh[r]
        /\ plan'[r] = plan[r] /\ input'[r] = input[r]
    BY <1>10 DEF AddMemory
  <2> QED BY <1>1, <1>2, <2>1, SamePlan DEF Faithful
<1>11. CASE ListDueRounds(r)
  <2>1. /\ pc[r] = "add" /\ pc'[r] \in {"rounds", "aborted"} /\ fresh'[r] = fresh[r]
        /\ plan'[r] = plan[r] /\ input'[r] = input[r]
    BY <1>11 DEF ListDueRounds
  <2> QED BY <1>1, <1>2, <2>1, SamePlan DEF Faithful
<1> QED BY <1>3, <1>4, <1>5, <1>6, <1>7, <1>8, <1>9, <1>10, <1>11

\* The run's own steps in maintenance and at the end.  The first conjunct of
\* the proof is what the validation found out, which stands.
LEMMA LateStepFaithful ==
  ASSUME TypeOK, SourceTypeOK, NEW r \in Runs, Faithful(r),
         \/ TakeMaintenanceSnapshot(r) \/ BeginDocumentedRound(r) \/ ReviewShown(r)
         \/ FailDocumentedRound(r) \/ DocumentRound(r)
         \/ /\ ApplyDecision(r) \/ TakeOutputSnapshot(r) \/ CommitState(r)
               \/ PublishArtifacts(r)
            /\ UNCHANGED <<gaps, view, shown, records, failures>>
  PROVE  Faithful(r)'
<1> USE DEF TypeOK, SourceTypeOK
<1>1. /\ plan'[r] = plan[r] /\ input'[r] = input[r] /\ fresh'[r] = fresh[r]
      /\ pc[r] \in Added
  BY DEF TakeMaintenanceSnapshot, BeginDocumentedRound, ReviewShown, FailDocumentedRound,
     DocumentRound, BeginRound, ReviewMemories, FailRound, RecordRound, ApplyDecision,
     TakeOutputSnapshot, CommitState, PublishArtifacts, Goto, vars, local, Added, HoldsLock
<1>2. /\ \A i \in Proposed(r)' : i \in fresh'[r] \/ i \in Known(input[r])'
      /\ fresh'[r] \cap Known(input[r])' = {}
  BY <1>1, SamePlan DEF Faithful, Validated
<1> USE DEF Early, Validated, Added, HoldsLock
<1>3. CASE TakeMaintenanceSnapshot(r)
  <2>1. /\ pc' = pc /\ pc[r] = "rounds" /\ view'[r] = memory /\ memory' = memory
        /\ records'[r] = records[r]
    BY <1>3 DEF TakeMaintenanceSnapshot, Reloaded, vars, durable
  <2> QED BY <1>2, <2>1 DEF Faithful
<1>4. CASE BeginDocumentedRound(r)
  <2>1. /\ pc[r] = "rounds" /\ memory' = memory /\ records'[r] = records[r] /\ view[r] # None
        /\ \/ pc'[r] = "review" /\ view'[r] = view[r]
           \/ pc'[r] = "rounds" /\ view'[r] = None
    BY <1>4 DEF BeginDocumentedRound, BeginRound, durable
  <2>2. view[r] = memory
    BY <2>1 DEF Faithful
  <2> QED BY <1>2, <2>1, <2>2 DEF Faithful
<1>5. CASE ReviewShown(r)
  <2>1. /\ pc[r] = "review" /\ pc'[r] = "apply" /\ view'[r] = view[r] /\ records'[r] = records[r]
    BY <1>5 DEF ReviewShown, ReviewMemories, Goto
  <2>2. view[r] = memory
    BY <2>1 DEF Faithful
  <2>3. shown'[r] = [i \in Ids |-> IF i \in Active(memory) THEN memory[i] ELSE None]
    BY <1>5 DEF ReviewShown
  <2>4. /\ decision'[r].retire \subseteq Active(memory)
        /\ \A i \in decision'[r].create : memory[i] = None
    BY <1>5 DEF ReviewShown, ReviewMemories
  <2>5. RecordAccepted(Record(r, FALSE))'
    BY <2>1, <2>2, <2>3, <2>4 DEF RecordAccepted, Record, Known, Active
  <2> QED BY <1>2, <2>1, <2>5 DEF Faithful
<1>6. CASE FailDocumentedRound(r)
  <2>1. pc'[r] = "rounds" /\ view'[r] = None /\ records'[r] = records[r]
    BY <1>6 DEF FailDocumentedRound, FailRound
  <2> QED BY <1>2, <2>1 DEF Faithful
<1>7. CASE DocumentRound(r)
  <2>1. /\ pc[r] = "record" /\ pc'[r] = "rounds" /\ view'[r] = None
    BY <1>7 DEF DocumentRound, RecordRound, Goto, ViewAfter
  <2>2. \A rec \in records'[r] : ~rec.repeats => RecordAccepted(rec)
    <3>1. PICK b \in BOOLEAN : records'[r] = records[r] \cup {Record(r, b)}
      BY <1>7 DEF DocumentRound
    <3>2. Record(r, b).repeats = b
      BY DEF Record
    <3> QED BY <2>1, <3>1, <3>2 DEF Faithful
  <2> QED BY <1>2, <2>1, <2>2 DEF Faithful
<1>8. CASE ApplyDecision(r) /\ UNCHANGED <<gaps, view, shown, records, failures>>
  <2>1. pc[r] = "apply" /\ pc'[r] = "record" /\ due' = due /\ decision' = decision
    BY <1>8 DEF ApplyDecision, Goto, local
  <2>2. Record(r, FALSE)' = Record(r, FALSE)
    BY <1>8, <2>1 DEF Record, NextRound
  <2> QED BY <1>2, <1>8, <2>1, <2>2 DEF Faithful
<1>9. CASE /\ TakeOutputSnapshot(r) \/ CommitState(r) \/ PublishArtifacts(r)
           /\ UNCHANGED <<gaps, view, shown, records, failures>>
  <2>1. pc'[r] \in {"commit", "publish", "aborted", "done"}
    BY <1>9 DEF TakeOutputSnapshot, CommitState, PublishArtifacts, Goto
  <2> QED BY <1>2, <1>9, <2>1 DEF Faithful
<1> QED BY <1>3, <1>4, <1>5, <1>6, <1>7, <1>8, <1>9

LEMMA PinnedStays ==
  ASSUME TypeOK, SourceTypeOK, NEW r \in Runs, SourceStep(r), ~pinned'[r]
  PROVE  ~pinned[r]
<1>1. CASE pinned' = pinned
  BY <1>1
<1>2. CASE TakeInputSnapshot(r)
  BY <1>2 DEF TakeInputSnapshot, TypeOK
<1>3. TakeInputSnapshot(r) \/ pinned' = pinned
  BY DEF SourceStep, TakeMaintenanceSnapshot, BeginDocumentedRound, BeginRound, ReviewShown,
     ReviewMemories, FailDocumentedRound, FailRound, DocumentRound, RecordRound, CrashSource,
     Crash, ExecuteDocumented, ReadGeneration, Execute, Discard, LoadBatchState, ValidateId,
     StartAdding, AddMemory, ListDueRounds, ApplyDecision, TakeOutputSnapshot, CommitState,
     PublishArtifacts, vars, local
<1> QED BY <1>1, <1>2, <1>3

LEMMA EvidenceStep ==
  TypeOK /\ SourceTypeOK /\ CreatorInv /\ EvidenceInv /\ [SourceNext]_<<vars, artifacts>>
    => EvidenceInv'
<1> SUFFICES ASSUME TypeOK, SourceTypeOK, CreatorInv, EvidenceInv,
                    [SourceNext]_<<vars, artifacts>>, NEW q \in Runs, Quiet(q)'
             PROVE  Faithful(q)'
  BY DEF EvidenceInv
<1>1. CASE UNCHANGED <<vars, artifacts>>
  <2>1. Quiet(q)
    BY <1>1 DEF vars, local, artifacts, Quiet
  <2>2. Proposed(q)' = Proposed(q) /\ Known(input[q])' = Known(input[q])
    BY <1>1, SamePlan DEF vars, local
  <2>3. Record(q, FALSE)' = Record(q, FALSE)
    BY <1>1 DEF vars, local, artifacts, Record, NextRound
  <2> QED BY <1>1, <2>1, <2>2, <2>3 DEF EvidenceInv, Faithful, vars, durable, local, artifacts
<1>2. ASSUME NEW r \in Runs, SourceStep(r), Disturb(r), r # q PROVE Faithful(q)'
  BY <1>2, OthersStayFaithful DEF EvidenceInv
<1>3. ASSUME SourceStep(q), Disturb(q) PROVE Faithful(q)'
  <2>1. Quiet(q) /\ ~pinned'[q]
    BY <1>3, PinnedStays DEF Quiet, Disturb
  <2>2. Faithful(q) /\ Writer(q)
    BY <2>1 DEF EvidenceInv, CreatorInv
  <2>3. CASE CrashSource(q)
    <3>1. records' = records /\ input' = input /\ fresh' = fresh
      BY <2>3 DEF CrashSource, Crash
    <3>2. CASE pc[q] = "publish"
      <4>1. pc'[q] = "lost" /\ plan' = plan
        BY <2>3, <3>2 DEF CrashSource, Crash, TypeOK
      <4> QED BY <2>2, <3>1, <3>2, <4>1, SamePlan DEF Faithful, Validated, Added, HoldsLock, Early
    <3>3. CASE pc[q] # "publish"
      <4>1. pc'[q] = "crashed"
        BY <2>3, <3>3 DEF CrashSource, Crash, TypeOK
      <4> QED BY <2>2, <3>1, <4>1 DEF Faithful, Validated, Added, HoldsLock, Early
    <3> QED BY <3>2, <3>3
  <2>4. CASE /\ \/ ReadGeneration(q) \/ TakeInputSnapshot(q) \/ Discard(q)
                \/ LoadBatchState(q) \/ ValidateId(q) \/ StartAdding(q) \/ AddMemory(q)
                \/ ListDueRounds(q)
             /\ UNCHANGED <<gaps, view, shown, records, failures>>
    BY <2>1, <2>2, <2>4, EarlyStepFaithful
  <2>5. CASE \/ TakeMaintenanceSnapshot(q) \/ BeginDocumentedRound(q) \/ ReviewShown(q)
             \/ FailDocumentedRound(q) \/ DocumentRound(q)
             \/ /\ ApplyDecision(q) \/ TakeOutputSnapshot(q) \/ CommitState(q)
                   \/ PublishArtifacts(q)
                /\ UNCHANGED <<gaps, view, shown, records, failures>>
    BY <2>2, <2>5, LateStepFaithful
  <2>6. CASE ExecuteDocumented(q)
    <3>1. Execute(q) /\ UNCHANGED <<view, shown, records, failures>>
      BY <2>6 DEF ExecuteDocumented
    <3> QED BY <2>1, <2>2, <3>1, EarlyStepFaithful
  <2> QED BY <1>3, <2>3, <2>4, <2>5, <2>6 DEF SourceStep
<1> QED BY <1>1, <1>2, <1>3 DEF SourceNext, Quiescent

LEMMA EvidenceInvariant == SourceSpec => []EvidenceInv
<1>1. SourceInit => EvidenceInv
  BY DEF SourceInit, Init, EvidenceInv, Faithful, Quiet, Validated, Added, HoldsLock, Early
<1>2. ScheduleIInv => TypeOK
  BY DEF ScheduleIInv
<1> QED BY <1>1, <1>2, EvidenceStep, BatchInvariants, ArtifactsTyped, PTL DEF SourceSpec

\* Where the episodes agree, the text of the batch is the text of each of them.
LEMMA TextOfEpisode ==
  ASSUME TypeOK, NEW r \in Runs, NEW e \in Episodes(r), NEW d \in plan[r][e]
  PROVE  /\ d.id \in Proposed(r)
         /\ Agreed(r, d.id) => VariantOf(r, d.id) = d.variant
<1>1. d \in Drafts
  BY DEF TypeOK, Plans, Proposals
<1>2. d.id \in Ids /\ d.variant \in Variants
  BY <1>1 DEF Drafts
<1>3. d.variant \in Offered(r, d.id)
  BY <1>2 DEF Offered
<1>4. VariantOf(r, d.id) \in Offered(r, d.id)
  BY <1>2, <1>3 DEF VariantOf
<1> QED BY <1>2, <1>3, <1>4 DEF Agreed, Proposed

\* What a completed run says of the namespace, build_evidence finds in the snapshots
\* it names, unless another run wrote to the namespace meanwhile, an older snapshot
\* was pinned or two episodes proposed the same Memory.  A run with a fault that
\* shows in its rows and commands alone is left out (run_batch, build_evidence).
THEOREM RefusalsAreExplained == SourceSpec => []RefusalsExplained
<1>1. TypeOK /\ CreatorInv /\ ExperienceInv /\ AgreeInv /\ EvidenceInv => RefusalsExplained
  <2> SUFFICES ASSUME TypeOK, CreatorInv, ExperienceInv, AgreeInv, EvidenceInv,
                      NEW r \in Runs, Completed(r), Flawless(r), Quiet(r), ~Shares(r)
               PROVE  Source(r)
    BY DEF RefusalsExplained, Quiet
  <2>1. Faithful(r) /\ pc[r] = "done"
    BY DEF EvidenceInv, Completed
  <2>2. \A rec \in records[r] : RecordAccepted(rec)
    BY <2>1 DEF Faithful, Flawless
  <2>3. CommittedExperienceKept
    BY DEF ExperienceInv, Stage, Stored, Published, Committed, CommittedExperienceKept
  <2>4. ASSUME NEW e \in Episodes(r) PROVE EpisodeAccepted(r, e)
    <3>1. \A d \in plan[r][e] : d.id \in Proposed(r) /\ VariantOf(r, d.id) = d.variant
      <4>1. ASSUME NEW d \in plan[r][e]
            PROVE  d.id \in Proposed(r) /\ VariantOf(r, d.id) = d.variant
        <5>1. d.id \in Proposed(r)
          BY TextOfEpisode
        <5>2. Agreed(r, d.id)
          BY <2>1, <5>1 DEF AgreeInv, Validated, Added
        <5> QED BY <5>2, TextOfEpisode
      <4> QED BY <4>1
    <3>2. \A i \in Writes(r, e) : i \in Proposed(r)
      BY <3>1 DEF Writes
    <3>3. \A d \in plan[r][e] :
            d.id \in Known(output[r]) /\ TextOf[output[r][d.id].variant] = TextOf[d.variant]
      BY <2>1, <2>3, <3>1 DEF CommittedExperienceKept, Committed
    <3>4. \A f \in Episodes(r) : f # e => Writes(r, e) \cap Writes(r, f) = {}
      BY DEF Shares
    <3>5. Replayed(r, e) = Writes(r, e) \ fresh[r]
      BY <3>4, BatchSizeAssumption DEF Replayed, Episodes
    <3>6. Replayed(r, e) \subseteq Known(input[r])
      BY <2>1, <3>2, <3>5 DEF Faithful, Validated, Added
    <3>7. Created(r, e) \cap Known(input[r]) = {}
      BY <2>1, <3>5 DEF Faithful, Validated, Added, Created
    <3>8. e \notin gaps[r] /\ Doubled(r, e) = {}
      BY DEF Flawless
    <3> QED BY <3>3, <3>6, <3>7, <3>8 DEF EpisodeAccepted
  <2> QED BY <2>2, <2>4 DEF Source
<1>2. ScheduleIInv => TypeOK
  BY DEF ScheduleIInv
<1> QED BY <1>1, <1>2, EvidenceInvariant, BatchInvariants, AgreeInvariant, DocumentedRunsAreRuns,
           PTL
=============================================================================
