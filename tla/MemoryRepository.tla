-------------------------- MODULE MemoryRepository --------------------------
(***************************************************************************)
(* The repository of a Memory namespace, used by threads of several        *)
(* processes (src/tau3_evolver/memory/repository.py, operations.py and     *)
(* json_store.py; ProcessLock is its lock).                                *)
(*                                                                         *)
(* A tier is a file that is replaced as a whole; an operation that touches *)
(* several tiers replaces one after another.  Every process works on a     *)
(* copy of the files that it reloads whenever it enters the lock.          *)
(***************************************************************************)
EXTENDS ProcessLock, MemoryCommands

CONSTANTS
  Declared,  \* Declared[t]: place of the tier t in MemoryTier
  Sorted,    \* Sorted[t]: its place in the alphabet
  Batches,   \* batches of commands
  Rounds,    \* generations of new Memories
  Seeds,     \* states in which the namespace may be found
  MaxCalls   \* bound: calls of all threads together

ASSUME OrderAssumption ==
  /\ Declared \in [Tiers -> Nat] /\ Sorted \in [Tiers -> Nat]
  /\ \A t, u \in Tiers : t # u => Declared[t] # Declared[u] /\ Sorted[t] # Sorted[u]
ASSUME BatchesAssumption == Batches \subseteq Seq(Commands) /\ Rounds \subseteq Nat
ASSUME SeedsAssumption == Seeds \subseteq States
ASSUME MaxCallsAssumption == MaxCalls \in Nat

VARIABLES
  present,    \* tiers whose file exists
  files,      \* their contents
  snapshots,  \* published snapshots, by their content
  opened,     \* processes that hold a MemoryRepository
  view,       \* view[p]: _items of the process p
  pc, call,   \* what a thread is doing
  state,      \* state[t]: the state its operation writes
  todo,       \* todo[t]: tiers it has not written yet
  base,       \* history: base[t] is what it found in the files
  calls       \* calls so far

durable == <<present, files, snapshots>>
program == <<opened, view, pc, call, state, todo, base, calls>>
vars == <<lockVars, durable, program>>

Operations ==
  [name : {"open", "list", "snapshot", "retrieve"}]
    \cup [name : {"add"}, id : Ids, round : Rounds]
    \cup [name : {"apply"}, commands : Batches]
NoCall == [name |-> "none"]

Init ==
  /\ LockInit
  /\ \/ present = {} /\ files = Empty
     \/ present = Tiers /\ files \in Seeds
  /\ snapshots = {}
  /\ opened = {} /\ view = [p \in Processes |-> Empty]
  /\ pc = [t \in Threads |-> "idle"] /\ call = [t \in Threads |-> NoCall]
  /\ state = [t \in Threads |-> Empty] /\ todo = [t \in Threads |-> {}]
  /\ base = [t \in Threads |-> Empty]
  /\ calls = 0

Goto(t, from, to) == pc[t] = from /\ pc' = [pc EXCEPT ![t] = to]
First(tiers, rank) == CHOOSE t \in tiers : \A u \in tiers : rank[t] <= rank[u]

-----------------------------------------------------------------------------
(* Entering                                                                 *)

\* The repository object is made once per process, before it is used.
Call(t) ==
  /\ Goto(t, "idle", "enter") /\ calls < MaxCalls
  /\ \E o \in Operations :
       /\ o.name = "open" <=> ProcessOf[t] \notin opened
       /\ call' = [call EXCEPT ![t] = o]
  /\ calls' = calls + 1
  /\ UNCHANGED <<lockVars, durable, opened, view, state, todo, base>>

EnterLock(t) ==
  /\ Goto(t, "enter", "acquire") /\ Enter(t)
  /\ UNCHANGED <<durable, opened, view, call, state, todo, base, calls>>

\* apply_batch lists the items, which enters the lock once more.
AcquireLock(t) ==
  /\ Goto(t, "acquire", IF call[t].name = "apply" THEN "list" ELSE "reload")
  /\ Acquire(t)
  /\ UNCHANGED <<durable, opened, view, call, state, todo, base, calls>>

FailToLock(t) ==
  /\ Goto(t, "acquire", "idle") /\ Fail(t)
  /\ call' = [call EXCEPT ![t] = NoCall]
  /\ UNCHANGED <<durable, opened, view, state, todo, base, calls>>

EnterList(t) ==
  /\ Goto(t, "list", "reload") /\ Enter(t)
  /\ UNCHANGED <<durable, opened, view, call, state, todo, base, calls>>

-----------------------------------------------------------------------------
(* _reload                                                                  *)

\* (mutant: a repository that has been opened trusts its copy)
ReadOnce(p) == IF p \in opened THEN view[p] ELSE files
Read(p) == files

\* (mutant: a missing file counts as an empty one)
ReloadLenient(t) ==
  /\ Goto(t, "reload", IF present = {} THEN "create" ELSE "work")
  /\ view' = [view EXCEPT ![ProcessOf[t]] = files]
  /\ UNCHANGED <<lockVars, durable, opened, call, state, todo, base, calls>>

\* Files of all tiers, of none, or an error.
Reload(t) ==
  /\ Goto(t, "reload", IF present = Tiers THEN "work"
                       ELSE IF present = {} THEN "create" ELSE "leave")
  /\ view' = IF present = Tiers THEN [view EXCEPT ![ProcessOf[t]] = Read(ProcessOf[t])]
             ELSE view
  /\ UNCHANGED <<lockVars, durable, opened, call, state, todo, base, calls>>

\* A namespace without files gets an empty one for each tier.
CreateTier(t) ==
  /\ pc[t] = "create"
  /\ present' = present \cup {First(Tiers \ present, Declared)}
  /\ IF present' = Tiers
     THEN /\ pc' = [pc EXCEPT ![t] = "work"]
          /\ view' = [view EXCEPT ![ProcessOf[t]] = Empty]
     ELSE UNCHANGED <<pc, view>>
  /\ UNCHANGED <<lockVars, files, snapshots, opened, call, state, todo, base, calls>>

-----------------------------------------------------------------------------
(* The operations                                                           *)

Current(t) == view[ProcessOf[t]]

Open(t) ==
  /\ call[t].name = "open" /\ Goto(t, "work", "leave")
  /\ opened' = opened \cup {ProcessOf[t]}
  /\ UNCHANGED <<lockVars, durable, view, call, state, todo, base, calls>>

List(t) ==
  /\ call[t].name = "list" /\ Goto(t, "work", "leave")
  /\ UNCHANGED <<lockVars, durable, opened, view, call, state, todo, base, calls>>

TakeSnapshot(t) ==
  /\ call[t].name = "snapshot" /\ Goto(t, "work", "leave")
  /\ snapshots' = snapshots \cup {Current(t)}
  /\ UNCHANGED <<lockVars, present, files, opened, view, call, state, todo, base, calls>>

\* A duplicate is refused; else the file of the tier is replaced.
Add(t) ==
  /\ call[t].name = "add"
  /\ state' = [state EXCEPT ![t] = [Current(t) EXCEPT ![call[t].id] = New(call[t].round, {})]]
  /\ base' = [base EXCEPT ![t] = Current(t)]
  /\ IF Current(t)[call[t].id] # None
     THEN Goto(t, "work", "leave") /\ UNCHANGED todo
     ELSE /\ Goto(t, "work", "write")
          /\ todo' = [todo EXCEPT ![t] = {TierOf[call[t].id]}]
  /\ UNCHANGED <<lockVars, durable, opened, view, call, calls>>

\* apply_batch computes on what list() returned.
LeaveList(t) ==
  /\ call[t].name = "apply" /\ Goto(t, "work", "decide") /\ Exit(t)
  /\ state' = [state EXCEPT ![t] = Current(t)]
  /\ base' = [base EXCEPT ![t] = Current(t)]
  /\ UNCHANGED <<durable, opened, view, call, todo, calls>>

\* A refused command refuses the whole batch.
Decide(t) ==
  LET result == ApplyBatch(state[t], call[t].commands) IN
  /\ pc[t] = "decide"
  /\ IF result = None \/ result = state[t]
     THEN Goto(t, "decide", "leave") /\ UNCHANGED <<state, todo>>
     ELSE /\ Goto(t, "decide", "commit")
          /\ state' = [state EXCEPT ![t] = result]
          /\ todo' = [todo EXCEPT ![t] = ChangedTiers(state[t], result)]
  /\ UNCHANGED <<lockVars, durable, opened, view, call, base, calls>>

\* _commit_tier_states enters the lock again, and so does update_embeddings,
\* which retrieve calls in its transaction if embeddings are missing.
EnterCommit(t) ==
  /\ Goto(t, "commit", "write") /\ Enter(t)
  /\ UNCHANGED <<durable, opened, view, call, state, todo, base, calls>>

Retrieve(t) ==
  /\ call[t].name = "retrieve"
  /\ IF Embed(Current(t)) = Current(t)
     THEN Goto(t, "work", "leave") /\ UNCHANGED <<state, todo, base>>
     ELSE /\ Goto(t, "work", "commit")
          /\ base' = [base EXCEPT ![t] = Current(t)]
          /\ state' = [state EXCEPT ![t] = Embed(Current(t))]
          /\ todo' = [todo EXCEPT ![t] = ChangedTiers(Current(t), Embed(Current(t)))]
  /\ UNCHANGED <<lockVars, durable, opened, view, call, calls>>

\* JsonTierStore.write replaces the file of one tier.
WriteTier(t) ==
  LET tier == First(todo[t], IF call[t].name = "apply" THEN Sorted ELSE Declared) IN
  /\ pc[t] = "write" /\ todo[t] # {}
  /\ files' = Mixed({tier}, state[t], files) /\ present' = present \cup {tier}
  /\ view' = [view EXCEPT ![ProcessOf[t]] = Mixed({tier}, state[t], @)]
  /\ todo' = [todo EXCEPT ![t] = @ \ {tier}]
  /\ pc' = [pc EXCEPT ![t] = IF todo[t] = {tier} THEN "leave" ELSE "write"]
  /\ UNCHANGED <<lockVars, snapshots, opened, call, state, base, calls>>

\* Every level of the lock is left, also by an exception.
LeaveLock(t) ==
  /\ pc[t] = "leave" /\ Exit(t)
  /\ IF depth[ProcessOf[t]] = 1
     THEN /\ pc' = [pc EXCEPT ![t] = "idle"]
          /\ call' = [call EXCEPT ![t] = NoCall]
          /\ state' = [state EXCEPT ![t] = Empty]
          /\ base' = [base EXCEPT ![t] = Empty]
     ELSE UNCHANGED <<pc, call, state, base>>
  /\ UNCHANGED <<durable, opened, view, todo, calls>>

-----------------------------------------------------------------------------
\* A process dies at any step of an operation; files that it did not replace
\* yet stay as they were.
Crash(p) ==
  LET Dead(t) == ProcessOf[t] = p IN
  /\ \E t \in Threads : Dead(t) /\ pc[t] # "idle"
  /\ Die(p)
  /\ opened' = opened \ {p}
  /\ view' = [view EXCEPT ![p] = Empty]
  /\ pc' = [t \in Threads |-> IF Dead(t) THEN "idle" ELSE pc[t]]
  /\ call' = [t \in Threads |-> IF Dead(t) THEN NoCall ELSE call[t]]
  /\ state' = [t \in Threads |-> IF Dead(t) THEN Empty ELSE state[t]]
  /\ todo' = [t \in Threads |-> IF Dead(t) THEN {} ELSE todo[t]]
  /\ base' = [t \in Threads |-> IF Dead(t) THEN Empty ELSE base[t]]
  /\ UNCHANGED <<durable, calls>>

Step(t) ==
  \/ EnterLock(t) \/ AcquireLock(t) \/ FailToLock(t) \/ EnterList(t)
  \/ Reload(t) \/ CreateTier(t) \/ Open(t) \/ List(t) \/ TakeSnapshot(t)
  \/ Add(t) \/ LeaveList(t) \/ Decide(t) \/ EnterCommit(t) \/ Retrieve(t)
  \/ WriteTier(t) \/ LeaveLock(t)

\* All calls have returned and no more are made.
Quiescent == calls = MaxCalls /\ (\A t \in Threads : pc[t] = "idle") /\ UNCHANGED vars

Next ==
  \/ \E t \in Threads : Call(t) \/ Step(t)
  \/ \E p \in Processes : Crash(p)
  \/ Quiescent

Spec == Init /\ [][Next]_vars

\* As long as a thread can go on, one of them does; the operating system grants
\* a lock that is free.
FairSpec == Spec /\ WF_vars(\E t \in Threads : Step(t))

-----------------------------------------------------------------------------
(* Properties                                                               *)

Phases == {"idle", "enter", "acquire", "list", "reload", "create", "work", "decide",
           "commit", "write", "leave"}

\* The lock is used as it is meant to be: with the nested entries of apply_batch
\* and retrieve, with failures and deaths, its books agree and at most one
\* thread is in an operation.
LockDisciplined ==
  /\ LockConsistent /\ MutualExclusion
  /\ \A t \in Threads : stage[t] = "inside" <=> pc[t] \notin {"idle", "enter", "acquire"}

\* Maintenance may repeat a batch that a crash cut short: whichever tiers had
\* been written, the batch is accepted again and has the effect it would have
\* had at once.
RetryCompletes ==
  \A b \in Batches :
    LET whole == ApplyBatch(files, b) IN
    whole # None => \A tiers \in SUBSET Tiers :
                      ApplyBatch(Mixed(tiers, whole, files), b) = whole

\* A crash while the files are created leaves a namespace that every later start
\* refuses ("missing memory tier files"); no Memory is in it.
RefusedNamespaceIsEmpty ==
  (\A t \in Threads : stage[t] # "inside") /\ present \notin {{}, Tiers} => files = Empty

\* Nobody waits forever, whatever fails or dies.
EveryCallReturns == <>[](\A t \in Threads : pc[t] = "idle")

\* Who holds the lock sees whole operations: until a thread has written its last
\* tier, the namespace is what the thread found.
Visible ==
  IF \E t \in Threads : pc[t] = "write"
  THEN base[CHOOSE t \in Threads : pc[t] = "write"] ELSE files
Atomic == INSTANCE AtomicRepository WITH items <- Visible
ImplementsAtomic == Atomic!Spec
=============================================================================
