----------------------------- MODULE TrainBatch -----------------------------
(***************************************************************************)
(* Training runs sharing one Memory namespace                              *)
(* (src/tau3_evolver/execution/batch.py, memory_state.py,                  *)
(* memory_resolution.py and the round scheduler of fast_loop/maintenance.py).*)
(*                                                                         *)
(* Every run is an operating system process that executes `tau3 run --mode *)
(* train --memory`.  Nothing keeps two of them off the same namespace, and *)
(* each takes a lock only around single reads and writes of it, so their   *)
(* steps interleave.  A run can be killed between any two steps; it is     *)
(* started again as another run, because run directories are never reused. *)
(*                                                                         *)
(* Durable state: memory (the tier files), batchState (batch_state.json),  *)
(* doneRounds (maintenance_state.json).  Everything indexed by a run is    *)
(* memory of its process.  Snapshots are immutable and content addressed,  *)
(* so a snapshot is represented by its content.                            *)
(***************************************************************************)
EXTENDS Integers, FiniteSets

CONSTANTS
  Runs,       \* train runs that may be started on the namespace
  Ids,        \* stable Memory ids (hashes of tier and canonical content)
  Variants,   \* records that share an id but differ in their texts
  TextOf,     \* TextOf[v]: payload and content of v, without its retrieval text
  BatchSize,  \* BatchSize[r]: number of tasks the run r has prepared
  Period,     \* memory.maintenance_period
  WriteQuota, \* Memories an episode may write
  None        \* absence of a Memory, proposal, lock holder or snapshot

ASSUME BatchSizeAssumption == BatchSize \in [Runs -> Nat \ {0}]
ASSUME PeriodAssumption == Period \in Nat \ {0}
ASSUME WriteQuotaAssumption == WriteQuota \in Nat

VARIABLES
  memory,      \* [Ids -> absent or the stored record]
  batchState,  \* committed_batches and completed_tasks
  doneRounds,  \* completed_rounds of the maintenance state file
  lock,        \* holder of the fast-loop-maintenance process lock
  pc, gen, pinned, input, plan, todo, fresh, created, before, due, decision, output

durable == <<memory, batchState, doneRounds>>
local == <<gen, pinned, input, plan, todo, fresh, created, before, due, decision, output>>
vars == <<durable, lock, pc, local>>

\* round is updated_round: a new Memory is stamped with the generation of the
\* batch that wrote it, a merged or retired one with the maintenance round.
Records == [variant : Variants, status : {"active", "retired"}, round : Nat]
New(v, n) == [variant |-> v, status |-> "active", round |-> n]
ASSUME NoneAssumption == None \notin Runs \cup Variants \cup Ids \cup Records

Contents == [Ids -> Records \cup {None}]
Known(content) == {i \in Ids : content[i] # None}
Active(content) == {i \in Known(content) : content[i].status = "active"}

\* What an episode proposes: no more drafts than the write quota of the tier
\* (apply_write_quotas).  Nothing keeps it from drafting a Memory twice, with one
\* text or with two; copies number the drafts that are equal.
Episodes(r) == 1..BatchSize[r]
Drafts == [id : Ids, variant : Variants, copy : 1..WriteQuota]
Proposals == {p \in SUBSET Drafts :
                /\ Cardinality(p) <= WriteQuota
                /\ \A d \in p : d.copy > 1 => [d EXCEPT !.copy = @ - 1] \in p}
Plans(r) == [Episodes(r) -> Proposals]
NoPlan(r) == [e \in Episodes(r) |-> {}]
Offered(r, i) ==
  {v \in Variants : \E e \in Episodes(r) : \E d \in plan[r][e] : d.id = i /\ d.variant = v}
Proposed(r) == {i \in Ids : Offered(r, i) # {}}
VariantOf(r, i) == CHOOSE v \in Variants : v \in Offered(r, i)

\* The commands of a round together: they retire reviewed Memories, and merges
\* create others.
Decisions == [retire : SUBSET Ids, create : SUBSET Ids]
NoDecision == [retire |-> {}, create |-> {}]

Working == {"resolve", "snapshot", "execute", "discard", "load", "validate",
            "add", "rounds", "review", "apply", "record", "final", "commit",
            "publish"}
Ended == {"done", "failed", "aborted", "crashed", "lost"}
HoldsLock == {"review", "apply", "record"}

-----------------------------------------------------------------------------
Init ==
  /\ memory = [i \in Ids |-> None]
  /\ batchState = [committed |-> 0, completed |-> 0]
  /\ doneRounds = {}
  /\ lock = None
  /\ pc = [r \in Runs |-> "resolve"]
  /\ gen = [r \in Runs |-> 0]
  /\ pinned = [r \in Runs |-> FALSE]
  /\ input = [r \in Runs |-> [i \in Ids |-> None]]
  /\ plan = [r \in Runs |-> NoPlan(r)]
  /\ todo = [r \in Runs |-> {}]
  /\ fresh = [r \in Runs |-> {}]
  /\ created = [r \in Runs |-> {}]
  /\ before = [r \in Runs |-> 0]
  /\ due = [r \in Runs |-> {}]
  /\ decision = [r \in Runs |-> NoDecision]
  /\ output = [r \in Runs |-> [i \in Ids |-> None]]

Goto(r, from, to) == pc[r] = from /\ pc' = [pc EXCEPT ![r] = to]

-----------------------------------------------------------------------------
(* resolve_memory: the generation is read first, the input snapshot second. *)

ReadGeneration(r) ==
  /\ Goto(r, "resolve", "snapshot")
  /\ gen' = [gen EXCEPT ![r] = batchState.committed + 1]
  /\ UNCHANGED <<durable, lock, pinned, input, plan, todo, fresh, created, before, due,
                 decision, output>>

\* MemoryRepository.snapshot reloads the tier files before it serializes them.
Reloaded(r) == memory

\* The input is a snapshot of the namespace now, or one that some run
\* published earlier and the operator named with --memory-snapshot.
TakeInputSnapshot(r) ==
  /\ Goto(r, "snapshot", "execute")
  /\ \/ /\ input' = [input EXCEPT ![r] = Reloaded(r)]
        /\ UNCHANGED pinned
     \/ /\ \E s \in Runs : \/ /\ pc[s] \notin {"resolve", "snapshot"}
                              /\ input' = [input EXCEPT ![r] = input[s]]
                           \/ /\ pc[s] \in {"commit", "publish", "done"}
                              /\ input' = [input EXCEPT ![r] = output[s]]
        /\ pinned' = [pinned EXCEPT ![r] = TRUE]
  /\ UNCHANGED <<durable, lock, gen, plan, todo, fresh, created, before, due,
                 decision, output>>

-----------------------------------------------------------------------------
(* run_batch *)

\* The executor returns an episode with its proposals for every task, or at
\* least one failure.
Execute(r) ==
  /\ pc[r] = "execute"
  /\ \/ /\ pc' = [pc EXCEPT ![r] = "load"]
        /\ \E p \in Plans(r) : plan' = [plan EXCEPT ![r] = p]
     \/ /\ pc' = [pc EXCEPT ![r] = "discard"]
        /\ UNCHANGED plan
  /\ UNCHANGED <<durable, lock, gen, pinned, input, todo, fresh, created, before, due,
                 decision, output>>

\* One failed task discards the proposals of all of them.
Discard(r) ==
  /\ Goto(r, "discard", "failed")
  /\ before' = [before EXCEPT ![r] = batchState.completed]
  /\ UNCHANGED <<durable, lock, gen, pinned, input, plan, todo, fresh, created, due,
                 decision, output>>

LoadBatchState(r) ==
  /\ Goto(r, "load", "validate")
  /\ before' = [before EXCEPT ![r] = batchState.completed]
  /\ todo' = [todo EXCEPT ![r] = Proposed(r)]
  /\ UNCHANGED <<durable, lock, gen, pinned, input, plan, fresh, created, due,
                 decision, output>>

\* (mutant: stored Memories are not looked at)
ConflictingInBatchOnly(r, i) == \E v, w \in Offered(r, i) : v # w

\* commit_pending_experience validates every id before it writes the first:
\* the proposals of the batch must agree (_same_memory), and agree with a stored
\* record but for the retrieval text (_same_existing_memory).
Conflicting(r, i) ==
  \/ \E v, w \in Offered(r, i) : v # w
  \/ memory[i] # None /\ TextOf[memory[i].variant] # TextOf[VariantOf(r, i)]

ValidateId(r) ==
  /\ pc[r] = "validate"
  /\ \E i \in todo[r] :
       IF Conflicting(r, i)
       THEN /\ pc' = [pc EXCEPT ![r] = "aborted"]
            /\ UNCHANGED <<todo, fresh>>
       ELSE /\ todo' = [todo EXCEPT ![r] = @ \ {i}]
            /\ fresh' = [fresh EXCEPT ![r] =
                           IF memory[i] = None THEN @ \cup {i} ELSE @]
            /\ UNCHANGED pc
  /\ UNCHANGED <<durable, lock, gen, pinned, input, plan, created, before, due,
                 decision, output>>

StartAdding(r) ==
  /\ Goto(r, "validate", "add")
  /\ todo[r] = {}
  /\ todo' = [todo EXCEPT ![r] = fresh[r]]
  /\ UNCHANGED <<durable, lock, gen, pinned, input, plan, fresh, created, before,
                 due, decision, output>>

\* (mutant: add overwrites)
DuplicateIgnored(i) == FALSE

Duplicate(i) == memory[i] # None

\* MemoryRepository.add reloads under the lock and refuses a known id.
AddMemory(r) ==
  /\ pc[r] = "add"
  /\ \E i \in todo[r] :
       IF Duplicate(i)
       THEN /\ pc' = [pc EXCEPT ![r] = "aborted"]
            /\ UNCHANGED <<memory, todo, created>>
       ELSE /\ memory' = [memory EXCEPT ![i] =
                            New(VariantOf(r, i), gen[r])]
            /\ todo' = [todo EXCEPT ![r] = @ \ {i}]
            /\ created' = [created EXCEPT ![r] = @ \cup {i}]
            /\ UNCHANGED pc
  /\ UNCHANGED <<batchState, doneRounds, lock, gen, pinned, input, plan, fresh,
                 before, due, decision, output>>

-----------------------------------------------------------------------------
(* Maintenance at the batch boundary *)

LatestRound(r) == (before[r] + BatchSize[r]) \div Period
NextRound(r) == CHOOSE m \in due[r] : \A k \in due[r] : m <= k
FutureRounds(current) == {m \in doneRounds : m > current}
\* (mutant: off by one)
DueFromZero(r) == (0..LatestRound(r)) \ doneRounds
DueRounds(r) == (1..LatestRound(r)) \ doneRounds

\* due_maintenance_rounds: under the scheduler lock for the read alone.
ListDueRounds(r) ==
  /\ pc[r] = "add" /\ todo[r] = {}
  /\ IF LatestRound(r) = 0
     THEN pc' = [pc EXCEPT ![r] = "rounds"] /\ UNCHANGED due
     ELSE /\ lock = None
          /\ IF FutureRounds(LatestRound(r)) # {}
             THEN pc' = [pc EXCEPT ![r] = "aborted"] /\ UNCHANGED due
             ELSE /\ pc' = [pc EXCEPT ![r] = "rounds"]
                  /\ due' = [due EXCEPT ![r] = DueRounds(r)]
  /\ UNCHANGED <<durable, lock, gen, pinned, input, plan, todo, fresh, created, before,
                 decision, output>>

\* (mutant: the due list is trusted)
AlreadyCompletedUnchecked(r) == FALSE

AlreadyCompleted(r) == NextRound(r) \in doneRounds

\* _run_due_maintenance reads the state again under the lock it now keeps.
\* Rounds beyond the one at hand are an error, which ends the loop; a round
\* another run has completed meanwhile is skipped.
BeginRound(r) ==
  /\ pc[r] = "rounds" /\ due[r] # {} /\ lock = None
  /\ IF FutureRounds(NextRound(r)) # {}
     THEN due' = [due EXCEPT ![r] = {}] /\ UNCHANGED <<pc, lock>>
     ELSE IF AlreadyCompleted(r)
     THEN due' = [due EXCEPT ![r] = @ \ {NextRound(r)}] /\ UNCHANGED <<pc, lock>>
     ELSE /\ pc' = [pc EXCEPT ![r] = "review"]
          /\ lock' = r
          /\ UNCHANGED due
  /\ UNCHANGED <<durable, gen, pinned, input, plan, todo, fresh, created, before,
                 decision, output>>

\* (mutant: the loop goes on to the next round)
FailedRoundSkipped(r) ==
  /\ pc[r] \in HoldsLock
  /\ pc' = [pc EXCEPT ![r] = "rounds"]
  /\ due' = [due EXCEPT ![r] = @ \ {NextRound(r)}]
  /\ lock' = None
  /\ decision' = [decision EXCEPT ![r] = NoDecision]
  /\ UNCHANGED <<durable, gen, pinned, input, plan, todo, fresh, created, before, output>>

\* (mutant: the scheduler lock outlives the failed round)
FailRoundKeepingLock(r) ==
  /\ pc[r] \in HoldsLock
  /\ pc' = [pc EXCEPT ![r] = "rounds"]
  /\ due' = [due EXCEPT ![r] = {}]
  /\ decision' = [decision EXCEPT ![r] = NoDecision]
  /\ UNCHANGED <<durable, lock, gen, pinned, input, plan, todo, fresh, created, before, output>>

\* Any exception of a round ends the loop: the round stays overdue.
FailRound(r) ==
  /\ pc[r] \in HoldsLock
  /\ pc' = [pc EXCEPT ![r] = "rounds"]
  /\ due' = [due EXCEPT ![r] = {}]
  /\ lock' = None
  /\ decision' = [decision EXCEPT ![r] = NoDecision]
  /\ UNCHANGED <<durable, gen, pinned, input, plan, todo, fresh, created, before, output>>

\* The policy reviews the active Memories while the scheduler lock is held but
\* the repository is not: other runs may add Memories meanwhile.  A merge has two
\* sources at least.
ReviewMemories(r) ==
  /\ Goto(r, "review", "apply")
  /\ \E d \in Decisions :
       /\ d.retire \subseteq Active(memory)
       /\ 2 * Cardinality(d.create) <= Cardinality(d.retire)
       /\ \A i \in d.create : memory[i] = None
       /\ decision' = [decision EXCEPT ![r] = d]
  /\ UNCHANGED <<durable, lock, gen, pinned, input, plan, todo, fresh, created, before,
                 due, output>>

\* (mutant: applied on the evidence of the review alone)
ApplicableUnchecked(r) == TRUE

\* apply_batch on the repository as it is now; refused if a Memory to retire is
\* no longer active or has a later round than the one at hand, or if a merged
\* one exists (FailRound takes the round then).
Applicable(r) ==
  /\ decision[r].retire \subseteq Active(memory)
  /\ \A i \in decision[r].retire : memory[i].round <= NextRound(r)
  /\ \A i \in decision[r].create : memory[i] = None

\* (mutant: retired Memories are removed)
Erased(r, i) == None

Retired(r, i) == [memory[i] EXCEPT !.status = "retired", !.round = NextRound(r)]

ApplyDecision(r) ==
  /\ Goto(r, "apply", "record")
  /\ Applicable(r)
  /\ \E merged \in [decision[r].create -> Variants] :
       memory' = [i \in Ids |->
         IF i \in decision[r].retire THEN Retired(r, i)
         ELSE IF i \in decision[r].create THEN New(merged[i], NextRound(r))
         ELSE memory[i]]
  /\ UNCHANGED <<batchState, doneRounds, lock, local>>

RecordRound(r) ==
  /\ Goto(r, "record", "rounds")
  /\ doneRounds' = doneRounds \cup {NextRound(r)}
  /\ due' = [due EXCEPT ![r] = @ \ {NextRound(r)}]
  /\ decision' = [decision EXCEPT ![r] = NoDecision]
  /\ lock' = None
  /\ UNCHANGED <<memory, batchState, gen, pinned, input, plan, todo, fresh, created,
                 before, output>>

-----------------------------------------------------------------------------
(* The end of the batch *)

TakeOutputSnapshot(r) ==
  /\ pc[r] = "rounds" /\ due[r] = {}
  /\ pc' = [pc EXCEPT ![r] = "commit"]
  /\ output' = [output EXCEPT ![r] = Reloaded(r)]
  /\ UNCHANGED <<durable, lock, gen, pinned, input, plan, todo, fresh, created, before,
                 due, decision>>

\* (mutant: no compare before the set)
GenerationUnchecked(r) == FALSE

GenerationMoved(r) == batchState.committed + 1 # gen[r]

\* (mutant: a run that lost its generation takes the next one)
CommitRebased(r) ==
  /\ Goto(r, "commit", "publish")
  /\ gen' = [gen EXCEPT ![r] = batchState.committed + 1]
  /\ batchState' = [committed |-> batchState.committed + 1,
                    completed |-> batchState.completed + BatchSize[r]]
  /\ UNCHANGED <<memory, doneRounds, lock, pinned, input, plan, todo, fresh, created,
                 before, due, decision, output>>

\* commit_memory_state: compare and set on the generation, under its lock.
CommitState(r) ==
  /\ pc[r] = "commit"
  /\ IF GenerationMoved(r)
     THEN pc' = [pc EXCEPT ![r] = "aborted"] /\ UNCHANGED batchState
     ELSE /\ pc' = [pc EXCEPT ![r] = "publish"]
          /\ batchState' = [committed |-> gen[r],
                            completed |-> batchState.completed + BatchSize[r]]
  /\ UNCHANGED <<memory, doneRounds, lock, local>>

PublishArtifacts(r) ==
  /\ Goto(r, "publish", "done")
  /\ UNCHANGED <<durable, lock, local>>

\* The process dies: the operating system releases the lock it held, and what
\* it was about to do is forgotten.  After the commit it leaves a generation
\* without a run.json ("lost"): its plan stays as the history of that batch.
Crash(r) ==
  /\ pc[r] \in Working
  /\ lock' = IF lock = r THEN None ELSE lock
  /\ IF pc[r] = "publish"
     THEN pc' = [pc EXCEPT ![r] = "lost"] /\ UNCHANGED plan
     ELSE /\ pc' = [pc EXCEPT ![r] = "crashed"]
          /\ plan' = [plan EXCEPT ![r] = NoPlan(r)]
  /\ todo' = [todo EXCEPT ![r] = {}]
  /\ due' = [due EXCEPT ![r] = {}]
  /\ decision' = [decision EXCEPT ![r] = NoDecision]
  /\ UNCHANGED <<durable, gen, pinned, input, fresh, created, before, output>>

-----------------------------------------------------------------------------
Step(r) ==
  \/ ReadGeneration(r) \/ TakeInputSnapshot(r) \/ Execute(r) \/ Discard(r)
  \/ LoadBatchState(r) \/ ValidateId(r) \/ StartAdding(r) \/ AddMemory(r)
  \/ ListDueRounds(r) \/ BeginRound(r) \/ ReviewMemories(r) \/ FailRound(r)
  \/ ApplyDecision(r) \/ RecordRound(r) \/ TakeOutputSnapshot(r)
  \/ CommitState(r) \/ PublishArtifacts(r)

\* All runs have ended: the system may stop here.
Quiescent == (\A r \in Runs : pc[r] \in Ended) /\ UNCHANGED vars

Next == Quiescent \/ \E r \in Runs : Step(r) \/ Crash(r)

Spec == Init /\ [][Next]_vars

\* A live process keeps executing its program; nothing makes it crash.
FairSpec == Spec /\ \A r \in Runs : WF_vars(Step(r))

-----------------------------------------------------------------------------
Committed == {r \in Runs : pc[r] \in {"publish", "done", "lost"}}

TypeOK ==
  /\ memory \in Contents
  /\ batchState \in [committed : Nat, completed : Nat]
  /\ doneRounds \subseteq Nat \ {0}
  /\ lock \in Runs \cup {None}
  /\ pc \in [Runs -> Working \cup Ended]
  /\ gen \in [Runs -> Nat]
  /\ pinned \in [Runs -> BOOLEAN]
  /\ input \in [Runs -> Contents]
  /\ DOMAIN plan = Runs /\ \A r \in Runs : plan[r] \in Plans(r)
  /\ todo \in [Runs -> SUBSET Ids]
  /\ fresh \in [Runs -> SUBSET Ids]
  /\ created \in [Runs -> SUBSET Ids]
  /\ before \in [Runs -> Nat]
  /\ due \in [Runs -> SUBSET (Nat \ {0})]
  /\ decision \in [Runs -> Decisions]
  /\ output \in [Runs -> Contents]

\* Batches commit one after another: however the runs interleave, each
\* committed batch took a generation of its own, and batch_state.json counts
\* exactly the committed batches.
SerialGenerations ==
  /\ \A r, s \in Committed : r # s => gen[r] # gen[s]
  /\ \A r \in Committed : gen[r] \in 1..batchState.committed
  /\ batchState.committed = Cardinality(Committed)

\* A committed batch is not half there: everything it proposed is in the tier
\* files and in its output snapshot with the text it proposed, whatever other
\* runs proposed for the same id and whatever maintenance did to it since.
CommittedExperienceKept ==
  \A r \in Committed : \A i \in Proposed(r) :
    /\ i \in Known(memory) /\ TextOf[memory[i].variant] = TextOf[VariantOf(r, i)]
    /\ i \in Known(output[r]) /\ TextOf[output[r][i].variant] = TextOf[VariantOf(r, i)]

\* A batch that commits as generation g ran on a snapshot that holds all the
\* experience of the generations before g, unless the operator pinned another.
BuiltOnPredecessors ==
  \A r, s \in Committed :
    ~pinned[r] /\ gen[s] < gen[r] => Proposed(s) \subseteq Known(input[r])

\* A Memory is the new writing of at most one run (in the others it is a
\* replay, which Slow Loop evidence does not count), and a committed run has
\* written exactly what it found missing when it validated.
OneCreator ==
  /\ \A r, s \in Runs : r # s => created[r] \cap created[s] = {}
  /\ \A r \in Committed : created[r] = fresh[r]

\* Completed rounds leave no gap, although several runs work them off and any
\* of them may fail or die in between; only the lock holder is in a round.
RoundsArePrefix ==
  /\ doneRounds = 1..Cardinality(doneRounds)
  /\ \A r \in Runs : pc[r] \in HoldsLock <=> lock = r

\* A round that is recorded as completed is never applied again (the promise of
\* the durable schedule: no duplicate maintenance after a resume).
NoRepeatOfCompletedRound ==
  [][\A r \in Runs : pc[r] = "apply" /\ pc'[r] = "record"
        => NextRound(r) \notin doneRounds]_vars

\* What a namespace has once recorded it never loses: ids stay, a retired
\* Memory stays retired, updated rounds, counters and completed rounds only grow.
NothingRegresses ==
  [][/\ Known(memory) \subseteq Known(memory')
     /\ \A i \in Known(memory) \ Active(memory) : memory'[i] = memory[i]
     /\ \A i \in Known(memory) : memory'[i].round >= memory[i].round
     /\ batchState'.committed >= batchState.committed
     /\ doneRounds \subseteq doneRounds']_vars

\* No run waits forever, for the lock or for another run.
EveryRunEnds == \A r \in Runs : <>(pc[r] \in Ended)

\* The interleaved runs implement the ledger: the batches committed so far in
\* the order of their generations, each with the ids of its output snapshot.
BatchOf(g) == CHOOSE r \in Committed : gen[r] = g
Ledger == INSTANCE ExperienceLedger WITH
  Sizes <- {BatchSize[r] : r \in Runs},
  ledger <- [g \in 1..batchState.committed |->
               [tasks |-> BatchSize[BatchOf(g)], known |-> Known(output[BatchOf(g)])]],
  completed <- batchState.completed,
  frontier <- Cardinality(doneRounds)
ImplementsLedger == Ledger!Spec

\* README.md:273 has maintenance merge and retire experience, and
\* docs/memory-maintenance-policy.md:15 makes it mandatory above the capacity of
\* tips.  So a round should be able to retire whatever is active when it begins.
\* It is not: Memories are stamped with generations, maintenance with rounds, and
\* apply_batch refuses to move a stamp backwards.  With batches smaller than the
\* period, rounds lag behind generations.
RoundsCanRetire ==
  \A r \in Runs : pc[r] = "review" =>
    \A i \in Active(memory) : memory[i].round <= NextRound(r)
=============================================================================
