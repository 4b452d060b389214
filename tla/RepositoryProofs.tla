-------------------------- MODULE RepositoryProofs --------------------------
(***************************************************************************)
(* Proofs about ProcessLock, MemoryCommands and MemoryRepository.          *)
(***************************************************************************)
EXTENDS MemoryRepository, Recursion

-----------------------------------------------------------------------------
(* The lock                                                                 *)

LockInv == LockTypeOK /\ LockConsistent

\* Consistent books leave no room for two threads.
LEMMA ConsistentExcludes == LockConsistent => MutualExclusion
  BY DEF LockConsistent, MutualExclusion

LEMMA EnterKeepsLock ==
  ASSUME LockInv, NEW t \in Threads, Enter(t)
  PROVE  LockInv'
  BY ProcessOfAssumption, NobodyAssumption
     DEF LockInv, LockTypeOK, LockConsistent, Enter

LEMMA AcquireKeepsLock ==
  ASSUME LockInv, NEW t \in Threads, Acquire(t)
  PROVE  LockInv'
<1> DEFINE p == ProcessOf[t]
<1> USE ProcessOfAssumption, NobodyAssumption DEF LockInv, LockTypeOK, Acquire
<1>1. p \in Processes /\ owner[p] = t
  BY DEF LockConsistent
<1>0. \A u \in Threads : stage[u] # "inside"
  <2>1. \A u \in Threads : ProcessOf[u] \in Processes /\ ProcessOf[u] # Nobody
    BY ProcessOfAssumption, NobodyAssumption
  <2>2. holder = Nobody
    BY DEF Acquire
  <2>3. QED
    BY <2>1, <2>2 DEF LockConsistent
<1>2. LockTypeOK'
  BY <1>1
<1>3. \A q \in Processes : depth'[q] > 0 <=> holder' = q
  BY <1>1 DEF LockConsistent
<1>4. \A q \in Processes : holder' = q => owner'[q] # Nobody /\ stage'[owner'[q]] = "inside"
  BY <1>1
<1>5. \A u \in Threads : stage'[u] # "outside" <=> owner'[ProcessOf[u]] = u
  BY <1>1 DEF LockConsistent
<1>6. \A u \in Threads : stage'[u] = "inside" => holder' = ProcessOf[u]
  BY <1>1, <1>0
<1>7. QED
  BY <1>2, <1>3, <1>4, <1>5, <1>6 DEF LockConsistent

LEMMA FailKeepsLock ==
  ASSUME LockInv, NEW t \in Threads, Fail(t)
  PROVE  LockInv'
<1> USE ProcessOfAssumption, NobodyAssumption DEF LockInv, LockTypeOK, Fail
<1>1. ProcessOf[t] \in Processes /\ owner[ProcessOf[t]] = t /\ stage[t] = "acquiring"
  BY DEF LockConsistent
<1>2. LockTypeOK'
  BY <1>1
<1>3. \A q \in Processes : depth'[q] > 0 <=> holder' = q
  BY DEF LockConsistent
<1>4. \A q \in Processes : holder' = q => owner'[q] # Nobody /\ stage'[owner'[q]] = "inside"
  BY <1>1 DEF LockConsistent
<1>5. \A u \in Threads : stage'[u] # "outside" <=> owner'[ProcessOf[u]] = u
  BY <1>1 DEF LockConsistent
<1>6. \A u \in Threads : stage'[u] = "inside" => holder' = ProcessOf[u]
  BY <1>1 DEF LockConsistent
<1>7. QED
  BY <1>2, <1>3, <1>4, <1>5, <1>6 DEF LockConsistent

LEMMA ExitKeepsLock ==
  ASSUME LockInv, NEW t \in Threads, Exit(t)
  PROVE  LockInv'
  BY ProcessOfAssumption, NobodyAssumption
     DEF LockInv, LockTypeOK, LockConsistent, Exit

LEMMA DieKeepsLock ==
  ASSUME LockInv, NEW p \in Processes, Die(p)
  PROVE  LockInv'
  BY ProcessOfAssumption, NobodyAssumption
     DEF LockInv, LockTypeOK, LockConsistent, Die

LEMMA StutterKeepsLock ==
  ASSUME LockInv, UNCHANGED lockVars
  PROVE  LockInv'
  BY DEF LockInv, LockTypeOK, LockConsistent, lockVars

LEMMA LockInitially == LockInit => LockInv
  BY ProcessOfAssumption, NobodyAssumption
     DEF LockInit, LockInv, LockTypeOK, LockConsistent

\* The lock excludes whatever the threads that use it do: two threads of any
\* processes are never inside together (ReentrantFileLock).
THEOREM LockExcludes == LockSpec => []MutualExclusion
<1>1. LockInit => LockInv
  BY LockInitially
<1>2. LockInv /\ [LockNext]_lockVars => LockInv'
  BY EnterKeepsLock, AcquireKeepsLock, FailKeepsLock, ExitKeepsLock, DieKeepsLock,
     StutterKeepsLock DEF LockNext
<1>3. LockInv => MutualExclusion
  BY ConsistentExcludes DEF LockInv
<1>4. QED
  BY <1>1, <1>2, <1>3, PTL DEF LockSpec
-----------------------------------------------------------------------------
(* The repository keeps to the lock                                         *)

\* Where a thread is in its operation says where it is in the lock; apply_batch
\* has entered a second time while it lists.
Stages ==
  /\ pc \in [Threads -> Phases]
  /\ \A t \in Threads : stage[t] = "inside" <=> pc[t] \notin {"idle", "enter", "acquire"}
  /\ \A t \in Threads : stage[t] = "acquiring" <=> pc[t] = "acquire"
Nested ==
  \A t \in Threads : pc[t] \in {"reload", "create", "work"} /\ call[t].name = "apply"
                       => depth[ProcessOf[t]] > 1
DisciplineInv == LockInv /\ Stages /\ Nested

\* The actions that leave the lock alone.
Local(t) ==
  \/ Call(t) \/ Reload(t) \/ CreateTier(t) \/ Open(t) \/ List(t) \/ TakeSnapshot(t)
  \/ Add(t) \/ Decide(t) \/ Retrieve(t) \/ WriteTier(t)

LEMMA StepIsLockStep == Next => [LockNext]_lockVars
  BY DEF Next, Step, LockNext, vars, Call, EnterLock, AcquireLock, FailToLock, EnterList,
         Reload, CreateTier, Open, List, TakeSnapshot, Add, LeaveList, Decide, EnterCommit,
         Retrieve, WriteTier, LeaveLock, Crash, Quiescent

LEMMA LockStepKeeps == LockInv /\ [LockNext]_lockVars => LockInv'
  BY EnterKeepsLock, AcquireKeepsLock, FailKeepsLock, ExitKeepsLock, DieKeepsLock,
     StutterKeepsLock DEF LockNext

\* Who is inside is alone, and its process has entered.
LEMMA InsideAlone ==
  ASSUME LockInv, NEW t \in Threads, stage[t] = "inside"
  PROVE  /\ \A u \in Threads \ {t} : stage[u] # "inside"
         /\ holder = ProcessOf[t] /\ depth[ProcessOf[t]] \in Nat \ {0}
  BY ConsistentExcludes, ProcessOfAssumption
     DEF LockInv, LockConsistent, LockTypeOK, MutualExclusion

LEMMA LocalKeepsStages ==
  ASSUME DisciplineInv, NEW t \in Threads, Local(t)
  PROVE  Stages' /\ Nested'
<1> USE DEF DisciplineInv, Stages, Nested, lockVars, Goto
<1>1. CASE Call(t)
  BY <1>1 DEF Call, Phases
<1>2. CASE Reload(t)
  BY <1>2 DEF Reload, Phases
<1>3. CASE CreateTier(t)
  BY <1>3 DEF CreateTier, Phases
<1>4. CASE Open(t) \/ List(t) \/ TakeSnapshot(t)
  BY <1>4 DEF Open, List, TakeSnapshot, Phases
<1>5. CASE Add(t)
  BY <1>5 DEF Add, Phases
<1>6. CASE Decide(t)
  BY <1>6 DEF Decide, Phases
<1>7. CASE Retrieve(t)
  BY <1>7 DEF Retrieve, Phases
<1>8. CASE WriteTier(t)
  BY <1>8 DEF WriteTier, Phases
<1>9. QED
  BY <1>1, <1>2, <1>3, <1>4, <1>5, <1>6, <1>7, <1>8 DEF Local

LEMMA LockingKeepsStages ==
  ASSUME DisciplineInv, NEW t \in Threads,
         EnterLock(t) \/ AcquireLock(t) \/ FailToLock(t) \/ EnterList(t) \/ EnterCommit(t)
  PROVE  Stages' /\ Nested'
<1> USE ProcessOfAssumption DEF DisciplineInv, LockInv, LockTypeOK, Stages, Nested, Goto
<1>1. CASE EnterLock(t)
  <2>1. depth[ProcessOf[t]] = 0
    BY <1>1 DEF EnterLock, Enter, LockConsistent
  <2>2. QED
    BY <1>1, <2>1 DEF EnterLock, Enter, Phases
<1>2. CASE AcquireLock(t)
  <2>1. \A u \in Threads : stage[u] # "inside"
    BY <1>2, NobodyAssumption DEF AcquireLock, Acquire, LockConsistent
  <2>2. QED
    BY <1>2, <2>1 DEF AcquireLock, Acquire, Phases
<1>3. CASE FailToLock(t)
  BY <1>3 DEF FailToLock, Fail, Phases
<1>4. CASE EnterList(t)
  <2>1. depth[ProcessOf[t]] > 0 /\ \A u \in Threads \ {t} : stage[u] # "inside"
    BY <1>4, InsideAlone DEF EnterList
  <2>2. QED
    BY <1>4, <2>1 DEF EnterList, Enter, Phases
<1>5. CASE EnterCommit(t)
  <2>1. depth[ProcessOf[t]] > 0 /\ \A u \in Threads \ {t} : stage[u] # "inside"
    BY <1>5, InsideAlone DEF EnterCommit
  <2>2. QED
    BY <1>5, <2>1 DEF EnterCommit, Enter, Phases
<1>6. QED
  BY <1>1, <1>2, <1>3, <1>4, <1>5

LEMMA LeavingKeepsStages ==
  ASSUME DisciplineInv, NEW t \in Threads, LeaveList(t) \/ LeaveLock(t)
  PROVE  Stages' /\ Nested'
<1> USE ProcessOfAssumption DEF DisciplineInv, LockInv, LockTypeOK, Stages, Nested, Goto
<1>1. \A u \in Threads \ {t} : stage[u] # "inside"
  BY InsideAlone DEF LeaveList, LeaveLock, Exit
<1>2. CASE LeaveList(t)
  BY <1>1, <1>2 DEF LeaveList, Exit, Phases
<1>3. CASE LeaveLock(t)
  BY <1>1, <1>3 DEF LeaveLock, Exit, Phases
<1>4. QED
  BY <1>2, <1>3

LEMMA CrashKeepsStages ==
  ASSUME DisciplineInv, NEW p \in Processes, Crash(p)
  PROVE  Stages' /\ Nested'
  BY ProcessOfAssumption
     DEF DisciplineInv, LockInv, LockTypeOK, Stages, Nested, Crash, Die, NoCall, Phases

LEMMA DisciplineStep == DisciplineInv /\ [Next]_vars => DisciplineInv'
<1> SUFFICES ASSUME DisciplineInv, [Next]_vars PROVE DisciplineInv'
  OBVIOUS
<1>1. LockInv'
  BY StepIsLockStep, LockStepKeeps DEF DisciplineInv, vars, lockVars
<1>2. Stages' /\ Nested'
  <2>1. CASE UNCHANGED vars
    BY <2>1 DEF DisciplineInv, Stages, Nested, vars, program, lockVars
  <2>2. CASE Next
    BY <2>1, <2>2, LocalKeepsStages, LockingKeepsStages, LeavingKeepsStages, CrashKeepsStages
       DEF Next, Step, Local, Quiescent
  <2>3. QED
    BY <2>1, <2>2
<1>3. QED
  BY <1>1, <1>2 DEF DisciplineInv

LEMMA DisciplineInitially == Init => DisciplineInv
  BY LockInitially DEF Init, LockInit, DisciplineInv, Stages, Nested, NoCall, Phases

\* The operations use the lock as it is meant to be used (MemoryRepository):
\* one thread is in an operation, and the books agree through nested entries,
\* failed acquisitions and deaths.
THEOREM LockIsDisciplined == Spec => []LockDisciplined
<1>1. DisciplineInv => LockDisciplined
  BY ConsistentExcludes DEF DisciplineInv, LockInv, Stages, LockDisciplined
<1>2. QED
  BY <1>1, DisciplineInitially, DisciplineStep, PTL DEF Spec
-----------------------------------------------------------------------------
(* A namespace that is refused holds no Memory                              *)

\* The minimum that First chooses exists.
LEMMA FirstIsMember ==
  ASSUME NEW rank \in [Tiers -> Nat], NEW S \in SUBSET Tiers, S # {}
  PROVE  First(S, rank) \in S
<1> DEFINE R == {rank[t] : t \in S}
<1>1. R \in SUBSET Nat /\ R # {} /\ \A t \in S : rank[t] \in R
  OBVIOUS
<1>2. \A n \in R : \E t \in S : n = rank[t]
  OBVIOUS
<1> HIDE DEF R
<1>3. PICK t \in S : \A u \in S : rank[t] <= rank[u]
  BY <1>1, <1>2, LeastOfNats
<1> QED BY <1>3 DEF First

\* Files are written only into a complete namespace.
NamespaceInv ==
  /\ present \subseteq Tiers
  /\ present # Tiers => files = Empty
  /\ todo \in [Threads -> SUBSET Tiers] /\ call \in [Threads -> Operations \cup {NoCall}]
  /\ \A t \in Threads :
       /\ pc[t] \in {"work", "decide", "commit", "write"} => present = Tiers
       /\ pc[t] = "create" => present # Tiers

LEMMA ChangedTiersAreTiers == ASSUME NEW s, NEW u PROVE ChangedTiers(s, u) \subseteq Tiers
  BY TierOfAssumption DEF ChangedTiers

LEMMA NamespaceInitially == Init => NamespaceInv
  BY DEF Init, NamespaceInv, NoCall

LEMMA NamespaceStep == DisciplineInv /\ NamespaceInv /\ [Next]_vars => NamespaceInv'
<1> SUFFICES ASSUME DisciplineInv, NamespaceInv, [Next]_vars PROVE NamespaceInv'
  OBVIOUS
<1> USE DEF NamespaceInv, Goto
<1>0. pc \in [Threads -> Phases]
  BY DEF DisciplineInv, Stages
<1>1. ASSUME NEW t \in Threads, pc[t] \in {"create", "write"}
      PROVE  \A u \in Threads \ {t} : pc[u] # "create"
  BY <1>1, InsideAlone DEF DisciplineInv, Stages
<1>2. ASSUME NEW t \in Threads, Call(t) PROVE NamespaceInv'
  BY <1>0, <1>2 DEF Call, durable
<1>3. ASSUME NEW t \in Threads,
             EnterLock(t) \/ AcquireLock(t) \/ EnterList(t) \/ EnterCommit(t) \/ Reload(t)
      PROVE  NamespaceInv'
  BY <1>0, <1>3 DEF EnterLock, AcquireLock, EnterList, EnterCommit, Reload, durable
<1>4. ASSUME NEW t \in Threads, FailToLock(t) \/ LeaveLock(t) PROVE NamespaceInv'
  <2>1. CASE FailToLock(t)
    BY <1>0, <2>1 DEF FailToLock, durable
  <2>2. CASE LeaveLock(t)
    <3>1. UNCHANGED <<durable, todo>> /\ pc[t] = "leave"
      BY <2>2 DEF LeaveLock
    <3>2. /\ \A u \in Threads : pc'[u] \in {pc[u], "idle"}
          /\ call' \in [Threads -> Operations \cup {NoCall}]
      BY <1>0, <2>2 DEF LeaveLock
    <3>3. QED
      BY <3>1, <3>2 DEF durable
  <2>3. QED
    BY <1>4, <2>1, <2>2
<1>5. ASSUME NEW t \in Threads, CreateTier(t) PROVE NamespaceInv'
  <2>1. First(Tiers \ present, Declared) \in Tiers
    BY <1>5, FirstIsMember, OrderAssumption DEF CreateTier
  <2>2. \A u \in Threads \ {t} : pc[u] # "create"
    BY <1>1, <1>5 DEF CreateTier
  <2>3. present # Tiers
    BY <1>5 DEF CreateTier
  <2>4. QED
    BY <1>0, <1>5, <2>1, <2>2, <2>3 DEF CreateTier
<1>6. ASSUME NEW t \in Threads, Open(t) \/ List(t) \/ TakeSnapshot(t) \/ LeaveList(t)
      PROVE  NamespaceInv'
  BY <1>0, <1>6 DEF Open, List, TakeSnapshot, LeaveList, durable
<1>7. ASSUME NEW t \in Threads, Add(t) PROVE NamespaceInv'
  <2>1. call[t].id \in Ids
    BY <1>7 DEF Add, Operations, NoCall
  <2>2. QED
    BY <1>0, <1>7, <2>1, TierOfAssumption DEF Add, durable
<1>8. ASSUME NEW t \in Threads, Decide(t) \/ Retrieve(t) PROVE NamespaceInv'
  BY <1>0, <1>8, ChangedTiersAreTiers DEF Decide, Retrieve, durable
<1>9. ASSUME NEW t \in Threads, WriteTier(t) PROVE NamespaceInv'
  <2> DEFINE tier == First(todo[t], IF call[t].name = "apply" THEN Sorted ELSE Declared)
  <2>1. tier \in Tiers
    BY <1>9, FirstIsMember, OrderAssumption DEF WriteTier
  <2>2. present' = Tiers
    BY <1>9, <2>1 DEF WriteTier
  <2>3. \A u \in Threads \ {t} : pc[u] # "create"
    BY <1>1, <1>9 DEF WriteTier
  <2>4. QED
    BY <1>0, <1>9, <2>2, <2>3 DEF WriteTier
<1>10. ASSUME NEW p \in Processes, Crash(p) PROVE NamespaceInv'
  BY <1>0, <1>10 DEF Crash, durable
<1>11. CASE UNCHANGED vars
  BY <1>11 DEF vars, durable, program
<1>12. QED
  BY <1>2, <1>3, <1>4, <1>5, <1>6, <1>7, <1>8, <1>9, <1>10, <1>11
     DEF Next, Step, Quiescent

\* A crash while the tier files are created makes later starts refuse the
\* namespace, but no Memory is lost by that (MemoryRepository._reload).
THEOREM RefusedIsEmpty == Spec => []RefusedNamespaceIsEmpty
<1>1. NamespaceInv => RefusedNamespaceIsEmpty
  BY DEF NamespaceInv, RefusedNamespaceIsEmpty
<1>2. QED
  BY <1>1, DisciplineInitially, DisciplineStep, NamespaceInitially, NamespaceStep, PTL
     DEF Spec
-----------------------------------------------------------------------------
(* Commands make states                                                     *)

LEMMA RetireFields ==
  ASSUME NEW r \in Records, NEW n \in Nat, NEW why \in Reasons \cup Ids \cup {None}
  PROVE  LET q == Retire(r, n, why)
         IN  q \in Records /\ q.status = "retired" /\ q.round = n /\ q.reason = why
<1>1. r.version + 1 \in Nat \ {0}
  BY DEF Records
<1> DEFINE q == Retire(r, n, why)
<1>2. DOMAIN r = {"status", "created", "round", "version", "reason", "from", "embedded"}
  BY DEF Records
<1>3. /\ q.status = "retired" /\ q.round = n /\ q.reason = why
      /\ q.created = r.created /\ q.version = r.version + 1
      /\ q.from = r.from /\ q.embedded = r.embedded /\ DOMAIN q = DOMAIN r
  BY <1>2 DEF Retire
<1>4. q \in Records
  BY <1>1, <1>2, <1>3 DEF Records, Retire
<1>5. QED
  BY <1>3, <1>4

LEMMA NewTyped ==
  ASSUME NEW n \in Nat, NEW sources \in SUBSET Ids PROVE New(n, sources) \in Records
  BY DEF New, Records

LEMMA MixedTyped ==
  ASSUME NEW s \in States, NEW u \in States, NEW tiers PROVE Mixed(tiers, s, u) \in States
  BY DEF Mixed, States

\* A command that is not refused makes a state.
LEMMA ApplyTyped ==
  ASSUME NEW s \in States, NEW c \in Commands, Apply(s, c) # None
  PROVE  Apply(s, c) \in States
<1>1. s # None
  BY NoneAssumption
<1>2. \A i \in Ids : s[i] # None => s[i] \in Records
  BY DEF States
<1>3. CASE c \in Deletes
  <2>1. DeleteAllowed(s, c) /\ Apply(s, c) = Delete(s, c)
    BY <1>1, <1>3 DEF Apply, Deletes
  <2>2. \A i \in c.ids : i \in Ids /\ Retire(s[i], c.round, c.reason) \in Records
    BY <1>2, <1>3, <2>1, RetireFields DEF Deletes, DeleteAllowed
  <2>3. QED
    BY <2>1, <2>2 DEF Delete, States
<1>4. CASE c \in Merges
  <2>1. MergeAllowed(s, c) /\ Apply(s, c) = Merge(s, c)
    BY <1>1, <1>4 DEF Apply, Merges
  <2>2. /\ \A i \in c.sources : Retire(s[i], c.round, c.target) \in Records
        /\ New(c.round, c.sources) \in Records
    BY <1>2, <1>4, <2>1, RetireFields, NewTyped DEF Merges, MergeAllowed
  <2>3. CASE s[c.target] # None
    BY <2>1, <2>3 DEF Merge
  <2>4. CASE s[c.target] = None
    <3>1. \A i \in c.sources : i # c.target
      BY <2>1, <2>4 DEF MergeAllowed
    <3>2. Merge(s, c) = [i \in Ids |-> IF i = c.target THEN New(c.round, c.sources)
                                        ELSE IF i \in c.sources
                                             THEN Retire(s[i], c.round, c.target) ELSE s[i]]
      BY <2>4, <3>1 DEF Merge
    <3>3. QED
      BY <2>1, <2>2, <3>2 DEF States
  <2>5. QED
    BY <2>3, <2>4
<1>5. QED
  BY <1>3, <1>4 DEF Commands

-----------------------------------------------------------------------------
(* A batch that a crash cut short                                           *)

\* What a command leaves of a Memory: it does not disappear, where it comes from
\* does not change, its round only grows, and once it is retired it stays as it is.
Later(s, u) ==
  \A i \in Ids : s[i] # None =>
    /\ u[i] # None /\ u[i].created = s[i].created /\ u[i].from = s[i].from
    /\ u[i].round >= s[i].round
    /\ s[i].status = "retired" => u[i] = s[i]

LEMMA LaterItself == ASSUME NEW s \in States PROVE Later(s, s)
<1>1. \A i \in Ids : s[i] # None => s[i].round \in Nat
  BY DEF States, Records
<1>2. QED
  BY <1>1 DEF Later

LEMMA LaterYet ==
  ASSUME NEW s \in States, NEW u \in States, NEW v \in States, Later(s, u), Later(u, v)
  PROVE  Later(s, v)
<1>1. \A w \in States : \A i \in Ids : w[i] # None => w[i].round \in Nat
  BY DEF States, Records
<1>2. \A i \in Ids : s[i] # None => /\ s[i].round \in Nat /\ u[i].round \in Nat
                                    /\ v[i].round \in Nat
  BY <1>1 DEF Later
<1>3. QED
  BY <1>2 DEF Later

LEMMA RetireIsLater ==
  ASSUME NEW r \in Records, NEW n \in Nat, NEW why, Retirable(r, n)
  PROVE  LET q == Retire(r, n, why)
         IN  q # None => /\ q.created = r.created /\ q.from = r.from /\ q.round >= r.round
                         /\ r.status # "retired"
  BY DEF Retire, Records, Retirable

LEMMA ApplyIsLater ==
  ASSUME NEW s \in States, NEW c \in Commands, Apply(s, c) # None
  PROVE  Later(s, Apply(s, c))
<1>1. s # None
  BY NoneAssumption
<1>2. \A i \in Ids : s[i] # None => s[i] \in Records /\ s[i].round \in Nat
  BY DEF States, Records
<1>3. Apply(s, c) \in States
  BY ApplyTyped
<1>4. CASE c \in Deletes
  <2>1. DeleteAllowed(s, c) /\ Apply(s, c) = Delete(s, c)
    BY <1>1, <1>4 DEF Apply, Deletes
  <2>2. ASSUME NEW i \in c.ids, s[i].status = "active"
        PROVE  /\ Retirable(s[i], c.round) /\ c.round \in Nat /\ s[i] \in Records
               /\ Retire(s[i], c.round, c.reason) # None
    <3>1. Retirable(s[i], c.round) /\ c.round \in Nat /\ s[i] \in Records /\ c.reason \in Reasons
      BY <1>2, <1>4, <2>1, <2>2 DEF DeleteAllowed, ReplayedDelete, Deletes
    <3>2. QED
      BY <3>1, RetireFields, NoneAssumption
  <2>3. QED
    BY <1>2, <2>1, <2>2, RetireIsLater DEF Delete, Later
<1>5. CASE c \in Merges
  <2>1. MergeAllowed(s, c) /\ Apply(s, c) = Merge(s, c)
    BY <1>1, <1>5 DEF Apply, Merges
  <2>2. CASE s[c.target] # None
    BY <2>1, <2>2, LaterItself DEF Merge
  <2>3. CASE s[c.target] = None
    <3>1. \A i \in c.sources : i # c.target /\ Retirable(s[i], c.round) /\ c.round \in Nat
      BY <1>5, <2>1, <2>3 DEF MergeAllowed, Merges
    <3>2. ASSUME NEW i \in Ids, s[i] # None
          PROVE  Merge(s, c)[i] = IF i \in c.sources THEN Retire(s[i], c.round, c.target) ELSE s[i]
      BY <2>3, <3>1, <3>2 DEF Merge
    <3>3. \A i \in c.sources : Retire(s[i], c.round, c.target) # None
      BY <1>2, <1>5, <2>1, RetireFields, NoneAssumption DEF MergeAllowed, Merges
    <3>4. QED
      BY <1>2, <2>1, <3>1, <3>2, <3>3, RetireIsLater DEF Later
  <2>4. QED
    BY <2>2, <2>3
<1>6. QED
  BY <1>4, <1>5 DEF Commands

\* One command of a batch, on files of which some tiers already have what the
\* whole batch makes of them.
LEMMA DeleteAmidBatch ==
  ASSUME NEW s \in States, NEW c \in Deletes, DeleteAllowed(s, c), NEW w \in States,
         Later(Delete(s, c), w), Delete(s, c) \in States, NEW tiers
  PROVE  LET m == Mixed(tiers, w, s)
         IN  DeleteAllowed(m, c) /\ Delete(m, c) = Mixed(tiers, w, Delete(s, c))
<1> DEFINE u == Delete(s, c)
           m == Mixed(tiers, w, s)
<1>1. \A i \in c.ids : i \in Ids /\ s[i] \in Records /\ s[i] # None
  BY DEF States, Deletes, DeleteAllowed
<1>2. ASSUME NEW i \in c.ids
      PROVE  u[i] # None /\ ReplayedDelete(u[i], c) /\ u[i].status = "retired"
  <2>1. CASE s[i].status = "active"
    <3>1. u[i] = Retire(s[i], c.round, c.reason)
      BY <1>1, <2>1 DEF Delete
    <3>2. c.round \in Nat /\ c.reason \in Reasons
      BY DEF Deletes
    <3>3. QED
      BY <1>1, <3>1, <3>2, RetireFields, NoneAssumption DEF ReplayedDelete
  <2>2. CASE s[i].status # "active"
    BY <1>1, <2>2 DEF Delete, DeleteAllowed, ReplayedDelete, Retirable
  <2>3. QED
    BY <2>1, <2>2
<1>3. \A i \in c.ids : w[i] = u[i]
  BY <1>1, <1>2 DEF Later
<1>4. ASSUME NEW i \in Ids PROVE m[i] = IF TierOf[i] \in tiers THEN w[i] ELSE s[i]
  BY DEF Mixed
<1>5. DeleteAllowed(m, c)
  BY <1>1, <1>2, <1>3, <1>4 DEF DeleteAllowed
<1>6. ASSUME NEW i \in Ids
      PROVE  Delete(m, c)[i] = IF TierOf[i] \in tiers THEN w[i] ELSE u[i]
  <2>1. CASE TierOf[i] \in tiers
    <3>1. i \in c.ids => m[i].status # "active"
      BY <1>2, <1>3, <1>4, <2>1
    <3>2. QED
      BY <1>4, <2>1, <3>1 DEF Delete
  <2>2. CASE TierOf[i] \notin tiers
    BY <1>4, <2>2 DEF Delete
  <2>3. QED
    BY <2>1, <2>2
<1>7. Delete(m, c) = Mixed(tiers, w, u)
  BY <1>6 DEF Delete, Mixed
<1>8. QED
  BY <1>5, <1>7

LEMMA MergeAmidBatch ==
  ASSUME NEW s \in States, NEW c \in Merges, MergeAllowed(s, c), NEW w \in States,
         Later(Merge(s, c), w), Merge(s, c) \in States, NEW tiers
  PROVE  LET m == Mixed(tiers, w, s)
         IN  MergeAllowed(m, c) /\ Merge(m, c) = Mixed(tiers, w, Merge(s, c))
<1> DEFINE u == Merge(s, c)
           m == Mixed(tiers, w, s)
<1>1. /\ c.target \in Ids /\ c.sources \subseteq Ids /\ c.round \in Nat
      /\ \A i \in c.sources : /\ s[i] # None /\ s[i] \in Records
                              /\ TierOf[i] = TierOf[c.target]
  BY DEF Merges, MergeAllowed, States
<1>2. \A i \in Ids : m[i] = IF TierOf[i] \in tiers THEN w[i] ELSE s[i]
  BY DEF Mixed
<1>3. s[c.target] = None => \A i \in c.sources : i # c.target
  BY <1>1
<1>4. ASSUME NEW i \in Ids
      PROVE  u[i] = IF s[c.target] # None THEN s[i]
                    ELSE IF i = c.target THEN New(c.round, c.sources)
                    ELSE IF i \in c.sources THEN Retire(s[i], c.round, c.target) ELSE s[i]
  BY <1>3, <1>4 DEF Merge
<1>5. \A i \in Ids : TierOf[i] # TierOf[c.target] => u[i] = s[i]
  BY <1>1, <1>4
<1>6. CASE TierOf[c.target] \in tiers
  <2>1. u[c.target] # None /\ ReplayedMerge(u, c) /\ \A i \in c.sources : u[i] # None
    <3>1. CASE s[c.target] # None
      BY <1>1, <1>4, <3>1 DEF MergeAllowed, Merge
    <3>2. CASE s[c.target] = None
      <4>1. /\ u[c.target] = New(c.round, c.sources)
            /\ \A i \in c.sources : u[i] = Retire(s[i], c.round, c.target)
        BY <1>1, <1>3, <1>4, <3>2
      <4>2. New(c.round, c.sources) # None
        BY <1>1, NewTyped, NoneAssumption
      <4>3. ASSUME NEW i \in c.sources
            PROVE  LET q == Retire(s[i], c.round, c.target)
                   IN  /\ q # None /\ q.status = "retired" /\ q.round = c.round
                       /\ q.reason = c.target
        BY <1>1, RetireFields, NoneAssumption
      <4>4. QED
        BY <1>1, <4>1, <4>2, <4>3 DEF ReplayedMerge, New
    <3>3. QED
      BY <3>1, <3>2
  <2>2. w[c.target] # None /\ \A i \in c.sources : w[i] = u[i]
    BY <1>1, <2>1 DEF Later, ReplayedMerge
  <2>3. ReplayedMerge(w, c)
    <3>1. u[c.target].round \in Nat /\ w[c.target].round \in Nat
      BY <1>1, <2>1, <2>2 DEF States, Records
    <3>2. QED
      BY <1>1, <2>1, <2>2, <3>1 DEF Later, ReplayedMerge
  <2>4. m[c.target] = w[c.target] /\ \A i \in c.sources : m[i] = w[i]
    BY <1>1, <1>2, <1>6
  <2>5. MergeAllowed(m, c) /\ Merge(m, c) = m
    BY <1>1, <2>1, <2>2, <2>3, <2>4 DEF MergeAllowed, ReplayedMerge, Merge
  <2>6. m = Mixed(tiers, w, u)
    BY <1>5, <1>6 DEF Mixed
  <2>7. QED
    BY <2>5, <2>6
<1>7. CASE TierOf[c.target] \notin tiers
  <2>1. m[c.target] = s[c.target] /\ \A i \in c.sources : m[i] = s[i]
    BY <1>1, <1>2, <1>7
  <2>2. MergeAllowed(m, c)
    BY <1>1, <2>1 DEF MergeAllowed, ReplayedMerge
  <2>3. ASSUME NEW i \in Ids
        PROVE  Merge(m, c)[i] = IF TierOf[i] \in tiers THEN w[i] ELSE u[i]
    <3>1. Merge(m, c)[i] = IF s[c.target] # None THEN m[i]
                           ELSE IF i = c.target THEN New(c.round, c.sources)
                           ELSE IF i \in c.sources THEN Retire(s[i], c.round, c.target) ELSE m[i]
      BY <1>3, <2>1, <2>3 DEF Merge
    <3>2. CASE TierOf[i] \in tiers
      BY <1>1, <1>2, <1>7, <3>1, <3>2
    <3>3. CASE TierOf[i] \notin tiers
      BY <1>2, <1>4, <3>1, <3>3
    <3>4. QED
      BY <3>2, <3>3
  <2>4. Merge(m, c) = Mixed(tiers, w, u)
    <3>1. Merge(m, c) = [i \in Ids |-> Merge(m, c)[i]]
      BY DEF Merge, Mixed
    <3>2. QED
      BY <2>3, <3>1 DEF Mixed
  <2>5. QED
    BY <2>2, <2>4
<1>8. QED
  BY <1>6, <1>7

LEMMA CommandAmidBatch ==
  ASSUME NEW s \in States, NEW c \in Commands, Apply(s, c) # None, NEW w \in States,
         Later(Apply(s, c), w), NEW tiers
  PROVE  Apply(Mixed(tiers, w, s), c) = Mixed(tiers, w, Apply(s, c))
<1> DEFINE m == Mixed(tiers, w, s)
<1>1. s # None /\ m # None /\ Apply(s, c) \in States
  BY ApplyTyped, MixedTyped, NoneAssumption
<1>2. CASE c \in Deletes
  <2>1. c.kind = "delete"
    BY <1>2 DEF Deletes
  <2>2. DeleteAllowed(s, c) /\ Apply(s, c) = Delete(s, c)
    BY <1>1, <2>1 DEF Apply
  <2>3. DeleteAllowed(m, c) /\ Delete(m, c) = Mixed(tiers, w, Delete(s, c))
    BY <1>1, <1>2, <2>2, DeleteAmidBatch
  <2>4. QED
    BY <1>1, <2>1, <2>2, <2>3 DEF Apply
<1>3. CASE c \in Merges
  <2>1. c.kind = "merge"
    BY <1>3 DEF Merges
  <2>2. MergeAllowed(s, c) /\ Apply(s, c) = Merge(s, c)
    BY <1>1, <2>1 DEF Apply
  <2>3. MergeAllowed(m, c) /\ Merge(m, c) = Mixed(tiers, w, Merge(s, c))
    BY <1>1, <1>3, <2>2, MergeAmidBatch
  <2>4. QED
    BY <1>1, <2>1, <2>2, <2>3 DEF Apply
<1>4. QED
  BY <1>2, <1>3 DEF Commands

\* The case of RetryCompletes that a single command is: whichever tiers of its
\* effect reached the disk, it is accepted again and has the whole effect
\* (MemoryRepository.apply_batch, _is_replayed_delete, _is_replayed_merge).
THEOREM OneCommandRetries ==
  ASSUME NEW s \in States, NEW c \in Commands, Apply(s, c) # None, NEW tiers
  PROVE  Apply(Mixed(tiers, Apply(s, c), s), c) = Apply(s, c)
<1> DEFINE w == Apply(s, c)
<1>1. w \in States /\ Later(w, w)
  BY ApplyTyped, LaterItself
<1>2. Apply(Mixed(tiers, w, s), c) = Mixed(tiers, w, w)
  BY <1>1, CommandAmidBatch
<1>3. Mixed(tiers, w, w) = w
  BY <1>1 DEF Mixed, States
<1>4. QED
  BY <1>2, <1>3

\* h[k] is the state after k commands of the batch, None from the first one that
\* is refused.
Trail(h, s, batch) ==
  /\ h \in [0..Len(batch) -> States \cup {None}] /\ h[0] = s
  /\ \A k \in 1..Len(batch) : h[k] = Apply(h[k - 1], batch[k])

\* What FoldLeft computes, as a function on sets of places in the batch.
Folded(g, s, batch) ==
  g = [T \in SUBSET DOMAIN batch |->
         IF T = {} THEN s ELSE Apply(g[T \ {Max(T)}], batch[Max(T)])]

LEMMA MaxIsMember ==
  ASSUME NEW n \in Nat, NEW T \in SUBSET (1..n), T # {}
  PROVE  Max(T) \in T /\ \A k \in T : Max(T) >= k
<1>1. PICK x \in T : \A k \in T : k <= x
  BY LastPosition
<1>2. QED
  BY <1>1 DEF Max

LEMMA ApplyIsState ==
  ASSUME NEW s \in States \cup {None}, NEW c \in Commands
  PROVE  Apply(s, c) \in States \cup {None} /\ (s = None => Apply(s, c) = None)
<1>1. s = None => Apply(s, c) = None
  BY DEF Apply
<1>2. QED
  BY <1>1, ApplyTyped

LEMMA FoldExists ==
  ASSUME NEW s \in States, NEW batch \in Seq(Commands)
  PROVE  \E g : Folded(g, s, batch) /\ ApplyBatch(s, batch) = g[DOMAIN batch]
<1> DEFINE S == DOMAIN batch
           V == States \cup {None}
           pick == [T \in SUBSET S |-> Max(T)]
           step == [p \in S \X V |-> Apply(p[2], batch[p[1]])]
<1>1. S = 1..Len(batch) /\ Len(batch) \in Nat /\ IsFiniteSet(S)
  BY FS_Interval
<1>2. \A T \in SUBSET S : T # {} => pick[T] \in T
  BY <1>1, MaxIsMember
<1>3. step \in [S \X V -> V]
  BY <1>1, ApplyIsState
<1>4. PICK g \in [SUBSET S -> V] : Recursive(g, S, pick, step, s)
  <2> HIDE DEF S, V, pick, step
  <2>1. s \in V
    BY DEF V
  <2> QED BY <1>1, <1>2, <1>3, <2>1, RecursionExists, ZenonT(30)
<1>5. Folded(g, s, batch)
  <2>1. ASSUME NEW T \in SUBSET S, T # {}
        PROVE  step[<<pick[T], g[T \ {pick[T]}]>>] = Apply(g[T \ {Max(T)}], batch[Max(T)])
    <3>1. pick[T] = Max(T) /\ pick[T] \in S /\ g[T \ {pick[T]}] \in V
      BY <1>2, <2>1
    <3>2. \A x \in S, v \in V : step[<<x, v>>] = Apply(v, batch[x])
      OBVIOUS
    <3> QED BY <3>1, <3>2
  <2>2. g = [T \in SUBSET S |-> IF T = {} THEN s ELSE step[<<pick[T], g[T \ {pick[T]}]>>]]
    BY <1>4 DEF Recursive
  <2> QED BY <2>1, <2>2 DEF Folded
<1>6. Folded(CHOOSE h : Folded(h, s, batch), s, batch)
  BY <1>5
<1>7. ApplyBatch(s, batch) = (CHOOSE h : Folded(h, s, batch))[S]
  BY DEF ApplyBatch, FoldLeft, MapThenFoldSet, Folded
<1> QED BY <1>6, <1>7

\* The states that a batch goes through, one command after the other.
LEMMA BatchTrail ==
  ASSUME NEW s \in States, NEW batch \in Seq(Commands)
  PROVE  \E h : Trail(h, s, batch) /\ ApplyBatch(s, batch) = h[Len(batch)]
<1> DEFINE n == Len(batch)
           V == States \cup {None}
<1>1. n \in Nat /\ DOMAIN batch = 1..n /\ \A k \in 1..n : batch[k] \in Commands
  OBVIOUS
<1>2. PICK g : Folded(g, s, batch) /\ ApplyBatch(s, batch) = g[DOMAIN batch]
  BY FoldExists
<1> DEFINE h == [k \in 0..n |-> g[1..k]]
<1>3. h[0] = s /\ g[DOMAIN batch] = h[n]
  <2>1. 1..0 = {} /\ {} \in SUBSET DOMAIN batch
    OBVIOUS
  <2>2. g[{}] = s
    BY <1>2, <2>1 DEF Folded
  <2>3. QED
    BY <1>1, <2>1, <2>2
<1>4. ASSUME NEW k \in 1..n PROVE h[k] = Apply(h[k - 1], batch[k])
  <2>1. k \in Nat /\ k <= n /\ k \in 1..k /\ \A j \in 1..k : j \in 1..n
    BY <1>1
  <2>2. Max(1..k) = k
    <3>1. Max(1..k) \in 1..k /\ \A j \in 1..k : Max(1..k) >= j
      <4>1. 1..k \in SUBSET (1..n) /\ 1..k # {}
        BY <2>1
      <4>2. QED
        BY <1>1, <4>1, MaxIsMember
    <3>2. QED
      BY <2>1, <3>1
  <2>3. (1..k) \ {k} = 1..(k - 1)
    BY <2>1
  <2>4. g[1..k] = Apply(g[1..(k - 1)], batch[k])
    BY <1>1, <1>2, <2>1, <2>2, <2>3 DEF Folded
  <2>5. k \in 0..n /\ k - 1 \in 0..n
    BY <1>1
  <2>6. QED
    BY <2>4, <2>5
<1> HIDE DEF h
<1>5. \A k \in 0..n : h[k] \in V
  <2> DEFINE P == {k \in Nat : k <= n => h[k] \in V}
  <2>1. 0 \in P
    BY <1>3
  <2>2. ASSUME NEW k \in Nat, k \in P PROVE k + 1 \in P
    <3>1. CASE k + 1 <= n
      <4>1. h[k] \in V /\ k + 1 \in 1..n /\ (k + 1) - 1 = k
        BY <1>1, <2>2, <3>1
      <4>2. h[k + 1] = Apply(h[k], batch[k + 1]) /\ batch[k + 1] \in Commands
        BY <1>1, <1>4, <4>1
      <4>3. QED
        BY <4>1, <4>2, ApplyIsState
    <3>2. QED
      BY <3>1
  <2> HIDE DEF P
  <2>3. Nat \subseteq P
    BY <2>1, <2>2, Induction
  <2>4. QED
    BY <1>1, <2>3 DEF P
<1>6. h \in [0..n -> V]
  BY <1>5 DEF h
<1>7. QED
  BY <1>2, <1>3, <1>4, <1>6 DEF Trail

\* A refused command refuses the rest of the batch.
LEMMA TrailStaysRefused ==
  ASSUME NEW s, NEW batch \in Seq(Commands), NEW h, Trail(h, s, batch), h[Len(batch)] # None
  PROVE  \A k \in 0..Len(batch) : h[k] \in States /\ Later(h[k], h[Len(batch)])
<1> DEFINE n == Len(batch)
           P == {j \in Nat : j <= n => /\ h[n - j] \in States
                                       /\ Later(h[n - j], h[n])}
<1>1. n \in Nat /\ \A k \in 1..n : batch[k] \in Commands
  OBVIOUS
<1>2. 0 \in P
  BY <1>1, LaterItself DEF Trail
<1>3. ASSUME NEW j \in Nat, j \in P PROVE j + 1 \in P
  <2> SUFFICES ASSUME j + 1 <= n
               PROVE  h[n - (j + 1)] \in States /\ Later(h[n - (j + 1)], h[n])
    OBVIOUS
  <2> DEFINE k == n - j
  <2>1. k \in 1..n /\ n - (j + 1) = k - 1 /\ k - 1 \in 0..n /\ k \in 0..n
    BY <1>1
  <2>2. h[k] \in States /\ Later(h[k], h[n]) /\ h[n] \in States
    BY <1>1, <1>2, <1>3
  <2>3. h[k] = Apply(h[k - 1], batch[k]) /\ batch[k] \in Commands
    BY <1>1, <2>1 DEF Trail
  <2>4. h[k - 1] \in States \cup {None}
    BY <2>1 DEF Trail
  <2> HIDE DEF k
  <2>5. h[k - 1] \in States
    BY <2>2, <2>3, <2>4, NoneAssumption, ApplyIsState
  <2>6. Later(h[k - 1], h[k])
    BY <2>2, <2>3, <2>5, NoneAssumption, ApplyIsLater
  <2>7. QED
    BY <2>1, <2>2, <2>5, <2>6, LaterYet
<1> HIDE DEF P
<1>4. Nat \subseteq P
  BY <1>2, <1>3, Induction
<1>5. ASSUME NEW k \in 0..n PROVE h[k] \in States /\ Later(h[k], h[n])
  <2>1. n - k \in Nat /\ n - k <= n /\ n - (n - k) = k
    BY <1>1
  <2>2. n - k \in P
    BY <1>4, <2>1
  <2>3. QED
    BY <2>1, <2>2 DEF P
<1>6. QED
  BY <1>5

\* RetryCompletes in one state.
LEMMA BatchRetries ==
  ASSUME NEW s \in States, NEW batch \in Seq(Commands), ApplyBatch(s, batch) # None, NEW tiers
  PROVE  ApplyBatch(Mixed(tiers, ApplyBatch(s, batch), s), batch) = ApplyBatch(s, batch)
<1> DEFINE n == Len(batch)
<1>1. n \in Nat /\ \A k \in 1..n : batch[k] \in Commands
  OBVIOUS
<1>2. PICK h : Trail(h, s, batch) /\ ApplyBatch(s, batch) = h[n]
  BY BatchTrail
<1>3. \A k \in 0..n : h[k] \in States /\ Later(h[k], h[n])
  BY <1>2, TrailStaysRefused
<1>4. h[0] = s /\ h[n] \in States
  BY <1>1, <1>2, <1>3 DEF Trail
<1> DEFINE w == h[n]
           m == Mixed(tiers, w, s)
<1>5. PICK g : Trail(g, m, batch) /\ ApplyBatch(m, batch) = g[n]
  BY <1>4, MixedTyped, BatchTrail
<1> DEFINE P == {k \in Nat : k <= n => g[k] = Mixed(tiers, w, h[k])}
<1>6. 0 \in P
  BY <1>4, <1>5 DEF Trail
<1>7. ASSUME NEW k \in Nat, k \in P PROVE k + 1 \in P
  <2> SUFFICES ASSUME k + 1 <= n PROVE g[k + 1] = Mixed(tiers, w, h[k + 1])
    OBVIOUS
  <2>1. k \in 0..n /\ k + 1 \in 1..n /\ k + 1 \in 0..n /\ (k + 1) - 1 = k
    BY <1>1
  <2>2. g[k] = Mixed(tiers, w, h[k])
    BY <1>1, <1>7
  <2>3. /\ h[k + 1] = Apply(h[k], batch[k + 1]) /\ g[k + 1] = Apply(g[k], batch[k + 1])
        /\ batch[k + 1] \in Commands
    BY <1>1, <1>2, <1>5, <2>1 DEF Trail
  <2>4. h[k] \in States /\ h[k + 1] \in States /\ Later(h[k + 1], w) /\ w \in States
    BY <1>3, <1>4, <2>1
  <2>5. h[k + 1] # None
    BY <2>4, NoneAssumption
  <2>6. QED
    BY <2>2, <2>3, <2>4, <2>5, CommandAmidBatch
<1> HIDE DEF P
<1>8. n \in P
  BY <1>1, <1>6, <1>7, Induction
<1>9. g[n] = Mixed(tiers, w, w)
  BY <1>1, <1>8 DEF P
<1>10. Mixed(tiers, w, w) = w
  BY <1>4 DEF Mixed, States
<1>11. QED
  BY <1>2, <1>5, <1>9, <1>10

-----------------------------------------------------------------------------
(* The states that the repository handles                                   *)

StatesInv ==
  /\ files \in States /\ view \in [Processes -> States]
  /\ state \in [Threads -> States] /\ base \in [Threads -> States]

LEMMA EmptyTyped == Empty \in States
  BY DEF Empty, States

LEMMA EmbedTyped == ASSUME NEW s \in States PROVE Embed(s) \in States
<1>1. ASSUME NEW i \in Ids, s[i] # None PROVE [s[i] EXCEPT !.embedded = TRUE] \in Records
  BY <1>1 DEF States, Records
<1>2. QED
  BY <1>1 DEF Embed, States

LEMMA AddTyped ==
  ASSUME NEW s \in States, NEW i \in Ids, NEW n \in Rounds
  PROVE  [s EXCEPT ![i] = New(n, {})] \in States
<1>1. New(n, {}) \in Records
  BY BatchesAssumption, NewTyped
<1>2. QED
  BY <1>1 DEF States

LEMMA BatchTyped ==
  ASSUME NEW s \in States, NEW batch \in Batches
  PROVE  ApplyBatch(s, batch) \in States \cup {None}
<1>1. batch \in Seq(Commands)
  BY BatchesAssumption
<1>2. PICK h : Trail(h, s, batch) /\ ApplyBatch(s, batch) = h[Len(batch)]
  BY <1>1, BatchTrail
<1>3. Len(batch) \in 0..Len(batch)
  BY <1>1
<1>4. QED
  BY <1>2, <1>3 DEF Trail

LEMMA StatesInitially == Init => StatesInv
  BY EmptyTyped, SeedsAssumption DEF Init, StatesInv

LEMMA DecideCalls ==
  ASSUME NamespaceInv, NEW t \in Threads
  PROVE  /\ call[t].name = "add" => call[t].id \in Ids /\ call[t].round \in Rounds
         /\ call[t].name = "apply" => call[t].commands \in Batches
  BY DEF NamespaceInv, Operations, NoCall

\* Where a thread is with its operation says what its process and the files hold:
\* nobody else writes them.
OutcomeOf(t) ==
  \/ /\ call[t].name = "add" /\ base[t][call[t].id] = None
     /\ state[t] = [base[t] EXCEPT ![call[t].id] = New(call[t].round, {})]
     /\ todo[t] = {TierOf[call[t].id]}
  \/ call[t].name = "apply" /\ state[t] = ApplyBatch(base[t], call[t].commands)
  \/ call[t].name = "retrieve" /\ state[t] = Embed(base[t])
Progress(t) ==
  /\ pc[t] = "work" => view[ProcessOf[t]] = files
  /\ pc[t] = "decide" => /\ call[t].name = "apply"
                         /\ state[t] = files /\ base[t] = files
  /\ pc[t] = "commit" => OutcomeOf(t) /\ base[t] = files
                         /\ todo[t] = ChangedTiers(base[t], state[t])
  /\ pc[t] = "write" => OutcomeOf(t) /\ files = Mixed(todo[t], base[t], state[t])
ProgressInv == \A t \in Threads : Progress(t)
RepositoryInv == DisciplineInv /\ NamespaceInv /\ StatesInv /\ ProgressInv

\* Nothing is written yet: the changed tiers are all to be written.
LEMMA NothingWritten ==
  ASSUME NEW s \in States, NEW u \in States PROVE Mixed(ChangedTiers(s, u), s, u) = s
<1>1. ASSUME NEW i \in Ids, TierOf[i] \notin ChangedTiers(s, u) PROVE s[i] = u[i]
  BY <1>1 DEF ChangedTiers
<1>2. QED
  BY <1>1 DEF Mixed, States

LEMMA AllWritten ==
  ASSUME NEW s, NEW u \in States PROVE Mixed({}, s, u) = u
  BY DEF Mixed, States

LEMMA StatesStep == RepositoryInv /\ [Next]_vars => StatesInv'
<1> SUFFICES ASSUME RepositoryInv, [Next]_vars PROVE StatesInv'
  OBVIOUS
<1> USE ProcessOfAssumption DEF RepositoryInv, StatesInv
<1>1. ASSUME NEW t \in Threads, Add(t) PROVE StatesInv'
  <2>1. call[t].id \in Ids /\ call[t].round \in Rounds
    BY <1>1, DecideCalls DEF Add
  <2>2. Current(t) \in States
    BY DEF Current
  <2>3. QED
    BY <1>1, <2>1, <2>2, AddTyped DEF Add, durable
<1>2. ASSUME NEW t \in Threads, Decide(t) PROVE StatesInv'
  <2>1. call[t].commands \in Batches
    BY <1>2, DecideCalls DEF Decide, ProgressInv, Progress
  <2>2. ApplyBatch(state[t], call[t].commands) \in States \cup {None}
    BY <2>1, BatchTyped
  <2>3. QED
    BY <1>2, <2>2 DEF Decide, durable
<1>3. ASSUME NEW t \in Threads, Retrieve(t) PROVE StatesInv'
  <2>1. Current(t) \in States
    BY DEF Current
  <2>2. QED
    BY <1>3, <2>1, EmbedTyped DEF Retrieve, durable
<1>4. ASSUME NEW t \in Threads, WriteTier(t) PROVE StatesInv'
  BY <1>4, MixedTyped DEF WriteTier
<1>5. ASSUME NEW t \in Threads, LeaveList(t) PROVE StatesInv'
  BY <1>5 DEF LeaveList, Current, durable
<1>6. ASSUME NEW t \in Threads, LeaveLock(t) PROVE StatesInv'
  BY <1>6, EmptyTyped DEF LeaveLock, durable
<1>7. ASSUME NEW t \in Threads, Reload(t) \/ CreateTier(t) PROVE StatesInv'
  BY <1>7, EmptyTyped DEF Reload, Read, CreateTier, durable
<1>8. ASSUME NEW p \in Processes, Crash(p) PROVE StatesInv'
  <2>1. UNCHANGED files
    BY <1>8 DEF Crash, durable
  <2>2. view' = [view EXCEPT ![p] = Empty]
    BY <1>8 DEF Crash
  <2>3. /\ state' = [t \in Threads |-> IF ProcessOf[t] = p THEN Empty ELSE state[t]]
        /\ base' = [t \in Threads |-> IF ProcessOf[t] = p THEN Empty ELSE base[t]]
    BY <1>8 DEF Crash
  <2>4. QED
    BY <2>1, <2>2, <2>3, EmptyTyped
<1>9. ASSUME NEW t \in Threads,
             \/ Call(t) \/ EnterLock(t) \/ AcquireLock(t) \/ FailToLock(t) \/ EnterList(t)
             \/ Open(t) \/ List(t) \/ TakeSnapshot(t) \/ EnterCommit(t)
      PROVE  StatesInv'
  BY <1>9 DEF Call, EnterLock, AcquireLock, FailToLock, EnterList, Open, List, TakeSnapshot,
              EnterCommit, durable
<1>10. CASE UNCHANGED vars
  BY <1>10 DEF vars, durable, program
<1>11. QED
  BY <1>1, <1>2, <1>3, <1>4, <1>5, <1>6, <1>7, <1>8, <1>9, <1>10 DEF Next, Step, Quiescent

\* The others: whoever is inside is the only one who reads and writes files.
LEMMA OthersProgress ==
  ASSUME RepositoryInv, NEW t \in Threads,
         UNCHANGED <<files, view>> \/ stage[t] = "inside",
         NEW u \in Threads \ {t},
         pc'[u] = pc[u] /\ call'[u] = call[u] /\ state'[u] = state[u] /\ base'[u] = base[u]
           /\ todo'[u] = todo[u]
  PROVE  Progress(u)'
<1> USE DEF RepositoryInv, DisciplineInv
<1>1. CASE UNCHANGED <<files, view>>
  BY <1>1 DEF ProgressInv, Progress, OutcomeOf
<1>2. CASE stage[t] = "inside"
  <2>1. stage[u] # "inside"
    BY <1>2, InsideAlone
  <2>2. pc[u] \notin {"work", "decide", "commit", "write"}
    BY <2>1 DEF Stages
  <2>3. QED
    BY <2>2 DEF Progress
<1>3. QED
  BY <1>1, <1>2

\* A step leaves the other threads alone.
LEMMA StepIsOwn ==
  ASSUME RepositoryInv, NEW t \in Threads, Call(t) \/ Step(t), NEW u \in Threads \ {t}
  PROVE  pc'[u] = pc[u] /\ call'[u] = call[u] /\ state'[u] = state[u] /\ base'[u] = base[u]
           /\ todo'[u] = todo[u]
<1> USE DEF RepositoryInv, DisciplineInv, Stages, NamespaceInv, StatesInv, Goto
<1>1. CASE Call(t) \/ EnterLock(t) \/ AcquireLock(t) \/ FailToLock(t) \/ EnterList(t)
  BY <1>1 DEF Call, EnterLock, AcquireLock, FailToLock, EnterList
<1>2. CASE Reload(t) \/ CreateTier(t) \/ Open(t) \/ List(t) \/ TakeSnapshot(t) \/ EnterCommit(t)
  BY <1>2 DEF Reload, CreateTier, Open, List, TakeSnapshot, EnterCommit
<1>3. CASE Add(t) \/ LeaveList(t) \/ Decide(t) \/ Retrieve(t)
  BY <1>3 DEF Add, LeaveList, Decide, Retrieve
<1>4. CASE WriteTier(t) \/ LeaveLock(t)
  BY <1>4 DEF WriteTier, LeaveLock
<1>5. QED
  BY <1>1, <1>2, <1>3, <1>4 DEF Step

LEMMA OwnProgress ==
  ASSUME RepositoryInv, NEW t \in Threads, Call(t) \/ Step(t)
  PROVE  Progress(t)'
<1> USE ProcessOfAssumption DEF RepositoryInv, DisciplineInv, Stages, NamespaceInv, StatesInv, Goto
<1>1. ASSUME pc'[t] \notin {"work", "decide", "commit", "write"} PROVE Progress(t)'
  BY <1>1 DEF Progress
<1>2. CASE Call(t) \/ EnterLock(t) \/ AcquireLock(t) \/ FailToLock(t) \/ EnterList(t)
           \/ Open(t) \/ List(t) \/ TakeSnapshot(t)
  BY <1>1, <1>2 DEF Call, EnterLock, AcquireLock, FailToLock, EnterList, Open, List, TakeSnapshot
<1>3. CASE Reload(t)
  BY <1>3 DEF Reload, Read, Progress, durable
<1>4. CASE CreateTier(t)
  BY <1>4 DEF CreateTier, Progress
<1>5. CASE Add(t)
  <2>1. CASE Current(t)[call[t].id] # None
    BY <1>1, <1>5, <2>1 DEF Add
  <2>2. CASE Current(t)[call[t].id] = None
    <3> DEFINE i == call[t].id
    <3>1. i \in Ids /\ call' = call /\ files' = files
      BY <1>5, DecideCalls DEF Add, durable
    <3>2. Current(t) = files
      BY <1>5 DEF Add, ProgressInv, Progress, Current
    <3>3. /\ base'[t] = files /\ state'[t] = [files EXCEPT ![i] = New(call[t].round, {})]
          /\ todo'[t] = {TierOf[i]} /\ pc'[t] = "write"
      BY <1>5, <2>2, <3>2 DEF Add
    <3>4. OutcomeOf(t)'
      BY <1>5, <2>2, <3>1, <3>2, <3>3 DEF OutcomeOf, Add
    <3>5. Mixed({TierOf[i]}, files, [files EXCEPT ![i] = New(call[t].round, {})]) = files
      BY <3>1 DEF Mixed, States
    <3>6. QED
      BY <3>1, <3>3, <3>4, <3>5 DEF Progress
  <2>3. QED
    BY <2>1, <2>2
<1>6. CASE LeaveList(t)
  BY <1>6 DEF LeaveList, Progress, ProgressInv, Current, durable
<1>7. CASE Decide(t)
  BY <1>1, <1>7 DEF Decide, Progress, ProgressInv, OutcomeOf, durable
<1>8. CASE Retrieve(t)
  BY <1>1, <1>8 DEF Retrieve, Progress, ProgressInv, OutcomeOf, Current, durable
<1>9. CASE EnterCommit(t)
  <2>1. Mixed(ChangedTiers(base[t], state[t]), base[t], state[t]) = base[t]
    BY NothingWritten
  <2>2. QED
    BY <1>9, <2>1 DEF EnterCommit, Progress, ProgressInv, OutcomeOf, durable
<1>10. CASE WriteTier(t)
  <2> DEFINE tier == First(todo[t], IF call[t].name = "apply" THEN Sorted ELSE Declared)
  <2>1. CASE todo[t] = {tier}
    BY <1>1, <1>10, <2>1 DEF WriteTier
  <2>2. CASE todo[t] # {tier}
    <3>1. /\ pc'[t] = "write" /\ todo'[t] = todo[t] \ {tier} /\ UNCHANGED <<call, state, base>>
          /\ files' = Mixed({tier}, state[t], files)
      BY <1>10, <2>2 DEF WriteTier
    <3>2. OutcomeOf(t) /\ files = Mixed(todo[t], base[t], state[t])
      BY <1>10 DEF WriteTier, ProgressInv, Progress
    <3>3. tier \in todo[t] /\ tier \in Tiers
      BY <1>10, FirstIsMember, OrderAssumption DEF WriteTier
    <3> HIDE DEF tier
    <3>4. call[t].name # "add"
      BY <2>2, <3>2, <3>3 DEF OutcomeOf
    <3>5. files' = Mixed(todo'[t], base[t], state[t])
      <4>1. files' = Mixed({tier}, state[t], Mixed(todo[t], base[t], state[t]))
        BY <3>1, <3>2, Zenon
      <4>2. QED
        BY <3>1, <4>1 DEF Mixed
    <3>6. OutcomeOf(t)'
      BY <3>1, <3>2, <3>4 DEF OutcomeOf
    <3>7. base'[t] = base[t] /\ state'[t] = state[t]
      BY <3>1
    <3>8. QED
      BY <3>1, <3>5, <3>6, <3>7 DEF Progress
  <2>3. QED
    BY <2>1, <2>2
<1>11. CASE LeaveLock(t)
  BY <1>1, <1>11 DEF LeaveLock
<1>12. QED
  BY <1>2, <1>3, <1>4, <1>5, <1>6, <1>7, <1>8, <1>9, <1>10, <1>11 DEF Step

LEMMA ProgressStep == RepositoryInv /\ [Next]_vars => ProgressInv'
<1> SUFFICES ASSUME RepositoryInv, [Next]_vars PROVE ProgressInv'
  OBVIOUS
<1> USE ProcessOfAssumption DEF RepositoryInv
<1>1. ASSUME NEW t \in Threads, Call(t) \/ Step(t) PROVE ProgressInv'
  <2>1. UNCHANGED <<files, view>> \/ stage[t] = "inside"
    BY <1>1 DEF Step, Call, EnterLock, AcquireLock, FailToLock, EnterList, Reload, CreateTier,
                Open, List, TakeSnapshot, Add, LeaveList, Decide, EnterCommit, Retrieve,
                WriteTier, LeaveLock, durable, Goto, DisciplineInv, Stages
  <2>2. \A u \in Threads \ {t} : Progress(u)'
    BY <1>1, <2>1, StepIsOwn, OthersProgress
  <2>3. Progress(t)'
    BY <1>1, OwnProgress
  <2>4. QED
    BY <2>2, <2>3 DEF ProgressInv
<1>2. ASSUME NEW p \in Processes, Crash(p) PROVE ProgressInv'
  <2>1. ASSUME NEW u \in Threads, ProcessOf[u] = p PROVE Progress(u)'
    <3>1. pc'[u] = "idle"
      BY <1>2, <2>1 DEF Crash
    <3>2. QED
      BY <3>1 DEF Progress
  <2>2. ASSUME NEW u \in Threads, ProcessOf[u] # p PROVE Progress(u)'
    <3>1. /\ pc'[u] = pc[u] /\ call'[u] = call[u] /\ state'[u] = state[u]
          /\ base'[u] = base[u] /\ todo'[u] = todo[u] /\ files' = files
      BY <1>2, <2>2 DEF Crash, durable
    <3>2. view'[ProcessOf[u]] = view[ProcessOf[u]]
      BY <1>2, <2>2 DEF Crash, StatesInv
    <3>3. QED
      BY <3>1, <3>2 DEF ProgressInv, Progress, OutcomeOf
  <2>3. QED
    BY <2>1, <2>2 DEF ProgressInv
<1>3. CASE UNCHANGED vars
  BY <1>3 DEF vars, durable, program, ProgressInv, Progress, OutcomeOf
<1>4. QED
  BY <1>1, <1>2, <1>3 DEF Next, Quiescent

LEMMA RepositoryInitially == Init => RepositoryInv
<1>1. Init => ProgressInv
  BY DEF Init, ProgressInv, Progress
<1>2. QED
  BY <1>1, DisciplineInitially, NamespaceInitially, StatesInitially DEF RepositoryInv

LEMMA RepositoryStep == RepositoryInv /\ [Next]_vars => RepositoryInv'
  BY DisciplineStep, NamespaceStep, StatesStep, ProgressStep DEF RepositoryInv

\* Maintenance may repeat any batch that a crash cut short, in every state the
\* namespace gets into: whichever tiers had been written, the batch is accepted
\* again and has the effect it would have had at once (apply_batch).
THEOREM RetriesComplete == Spec => []RetryCompletes
<1>1. RepositoryInv => RetryCompletes
  <2>1. ASSUME StatesInv PROVE RetryCompletes
    BY <2>1, BatchRetries, BatchesAssumption DEF StatesInv, RetryCompletes
  <2>2. QED
    BY <2>1 DEF RepositoryInv
<1>2. QED
  BY <1>1, RepositoryInitially, RepositoryStep, PTL DEF Spec

-----------------------------------------------------------------------------
(* Operations happen at once                                                *)

\* Visible in one state and in the next: at most one thread writes.
LEMMA VisibleIs ==
  ASSUME DisciplineInv
  PROVE  /\ \A t \in Threads : pc[t] = "write" => Visible = base[t]
         /\ (\A t \in Threads : pc[t] # "write") => Visible = files
<1>1. ASSUME NEW t \in Threads, pc[t] = "write"
      PROVE  \A u \in Threads : pc[u] = "write" => u = t
  BY <1>1, InsideAlone DEF DisciplineInv, Stages
<1>2. QED
  BY <1>1 DEF Visible

LEMMA VisibleWillBe ==
  ASSUME DisciplineInv'
  PROVE  /\ \A t \in Threads : pc'[t] = "write" => Visible' = base'[t]
         /\ (\A t \in Threads : pc'[t] # "write") => Visible' = files'
<1>1. ASSUME NEW t \in Threads, pc'[t] = "write"
      PROVE  \A u \in Threads : pc'[u] = "write" => u = t
  BY <1>1 DEF DisciplineInv, Stages, LockInv, LockConsistent, MutualExclusion, LockTypeOK
<1>2. QED
  BY <1>1 DEF Visible

\* What is written and by whom stays.
LEMMA VisibleStays ==
  ASSUME DisciplineInv, DisciplineInv', UNCHANGED files,
         \A t \in Threads : pc'[t] = "write" <=> pc[t] = "write",
         \A t \in Threads : pc[t] = "write" => base'[t] = base[t]
  PROVE  Visible' = Visible
  BY VisibleIs, VisibleWillBe

\* The abstract specification has the same states and commands.
LEMMA AtomicStates ==
  /\ Atomic!States = States
  /\ \A n, sources : Atomic!New(n, sources) = New(n, sources)
  /\ \A tiers, s, u : Atomic!Mixed(tiers, s, u) = Mixed(tiers, s, u)
  /\ \A s : Atomic!Embed(s) = Embed(s)
  BY DEF Atomic!States, States, Atomic!Records, Records, Atomic!New, New, Atomic!Mixed, Mixed,
         Atomic!Embed, Embed

LEMMA AtomicBatch == \A s, batch : Atomic!ApplyBatch(s, batch) = ApplyBatch(s, batch)
  BY DEF Atomic!ApplyBatch, ApplyBatch, Atomic!FoldLeft, FoldLeft,
         Atomic!MapThenFoldSet, MapThenFoldSet, Atomic!Max, Max,
         Atomic!Apply, Apply, Atomic!Delete, Delete, Atomic!DeleteAllowed, DeleteAllowed,
         Atomic!ReplayedDelete, ReplayedDelete, Atomic!Retirable, Retirable,
         Atomic!Retire, Retire, Atomic!Merge, Merge, Atomic!MergeAllowed, MergeAllowed,
         Atomic!ReplayedMerge, ReplayedMerge, Atomic!New, New

LEMMA AtomicInitially == Init => Atomic!Init
<1> SUFFICES ASSUME Init PROVE Visible \in States /\ snapshots = {}
  BY AtomicStates DEF Atomic!Init
<1>1. Visible = files
  BY DEF Init, Visible
<1>2. QED
  BY <1>1, StatesInitially DEF Init, StatesInv

Silent == UNCHANGED <<Visible, snapshots>>

LEMMA OthersDoNotWrite ==
  ASSUME DisciplineInv, NEW t \in Threads, pc[t] \notin {"idle", "enter", "acquire"}
  PROVE  \A u \in Threads \ {t} : pc[u] # "write"
  BY InsideAlone DEF DisciplineInv, Stages

\* Entering, reading, deciding and leaving are not seen.
LEMMA ReadingIsSilent ==
  ASSUME RepositoryInv, RepositoryInv', NEW t \in Threads,
         \/ Call(t) \/ EnterLock(t) \/ AcquireLock(t) \/ FailToLock(t) \/ EnterList(t)
         \/ Reload(t) \/ CreateTier(t) \/ Open(t) \/ List(t) \/ LeaveList(t) \/ Decide(t)
         \/ Retrieve(t) \/ LeaveLock(t)
  PROVE  Silent
<1>1. UNCHANGED <<files, snapshots>> /\ pc[t] # "write" /\ pc'[t] # "write"
  BY DEF RepositoryInv, DisciplineInv, Stages, Call, EnterLock, AcquireLock, FailToLock,
         EnterList, Reload, CreateTier, Open, List, LeaveList, Decide, Retrieve, LeaveLock,
         durable, Goto
<1>2. \A u \in Threads \ {t} : pc'[u] = pc[u] /\ base'[u] = base[u]
  BY StepIsOwn DEF Step
<1>3. Visible' = Visible
  BY <1>1, <1>2, VisibleStays DEF RepositoryInv
<1>4. QED
  BY <1>1, <1>3 DEF Silent

\* So is the decision to write: who decided it has not written yet.
LEMMA StartingIsSilent ==
  ASSUME RepositoryInv, RepositoryInv', NEW t \in Threads, Add(t) \/ EnterCommit(t)
  PROVE  Silent
<1> USE DEF RepositoryInv
<1>1. UNCHANGED <<files, snapshots>> /\ pc[t] \in {"work", "commit"}
  BY DEF Add, EnterCommit, durable, Goto
<1>2. \A u \in Threads \ {t} : pc[u] # "write" /\ pc'[u] # "write"
  BY <1>1, OthersDoNotWrite, StepIsOwn DEF Step
<1>3. Visible = files
  BY <1>1, <1>2, VisibleIs
<1>4. pc'[t] = "write" => base'[t] = files
  <2>1. CASE Add(t)
    <3>1. base' = [base EXCEPT ![t] = Current(t)] /\ Current(t) = files
      BY <1>1, <2>1 DEF Add, Current, ProgressInv, Progress, Goto
    <3>2. QED
      BY <3>1 DEF StatesInv
  <2>2. CASE EnterCommit(t)
    BY <2>2 DEF EnterCommit, ProgressInv, Progress, Goto
  <2>3. QED
    BY <2>1, <2>2
<1>5. Visible' = files'
  BY <1>1, <1>2, <1>4, VisibleWillBe
<1>6. QED
  BY <1>1, <1>3, <1>5 DEF Silent

LEMMA SnapshotPublishes ==
  ASSUME RepositoryInv, RepositoryInv', NEW t \in Threads, TakeSnapshot(t)
  PROVE  Atomic!Publish
<1> USE DEF RepositoryInv
<1>1. pc[t] = "work" /\ pc'[t] = "leave" /\ UNCHANGED files
  BY DEF TakeSnapshot, Goto, DisciplineInv, Stages
<1>2. \A u \in Threads : pc[u] # "write" /\ pc'[u] # "write"
  BY <1>1, OthersDoNotWrite, StepIsOwn DEF Step
<1>3. Visible = files /\ Visible' = files
  BY <1>1, <1>2, VisibleIs, VisibleWillBe
<1>4. snapshots' = snapshots \cup {files}
  BY <1>1 DEF TakeSnapshot, Current, ProgressInv, Progress
<1>5. QED
  BY <1>3, <1>4 DEF Atomic!Publish

\* An addition touches one tier: before that is written nothing is.
LEMMA NothingAdded ==
  ASSUME RepositoryInv, NEW t \in Threads, pc[t] = "write", call[t].name = "add"
  PROVE  /\ files = base[t] /\ base[t][call[t].id] = None
         /\ state[t] = [base[t] EXCEPT ![call[t].id] = New(call[t].round, {})]
<1> USE DEF RepositoryInv
<1> DEFINE i == call[t].id
<1>1. /\ base[t] \in States /\ i \in Ids /\ base[t][i] = None
      /\ state[t] = [base[t] EXCEPT ![i] = New(call[t].round, {})] /\ todo[t] = {TierOf[i]}
      /\ files = Mixed(todo[t], base[t], state[t])
  BY DecideCalls DEF StatesInv, ProgressInv, Progress, OutcomeOf
<1>2. Mixed({TierOf[i]}, base[t], [base[t] EXCEPT ![i] = New(call[t].round, {})]) = base[t]
  BY <1>1 DEF Mixed, States
<1>3. QED
  BY <1>1, <1>2

LEMMA OutcomeIsAtomic ==
  ASSUME RepositoryInv, NEW t \in Threads, pc[t] = "write", call[t].name # "add"
  PROVE  state[t] \in Atomic!Outcomes \ {None}
<1> USE DEF RepositoryInv
<1>1. Visible = base[t]
  BY VisibleIs
<1>2. state[t] # None /\ base[t] \in States
  BY NoneAssumption DEF StatesInv
<1>3. OutcomeOf(t)
  BY DEF ProgressInv, Progress
<1>4. CASE call[t].name = "apply"
  <2>1. call[t].commands \in Batches /\ state[t] = ApplyBatch(Visible, call[t].commands)
    BY <1>1, <1>3, <1>4, DecideCalls DEF OutcomeOf
  <2>2. QED
    BY <1>2, <2>1, AtomicBatch DEF Atomic!Outcomes
<1>5. CASE call[t].name = "retrieve"
  <2>1. state[t] = Embed(Visible)
    BY <1>1, <1>3, <1>5 DEF OutcomeOf
  <2>2. QED
    BY <1>2, <2>1, AtomicStates DEF Atomic!Outcomes
<1>6. QED
  BY <1>3, <1>4, <1>5 DEF OutcomeOf

\* The last tier that is written makes the whole operation seen.
LEMMA WritingIsAtomic ==
  ASSUME RepositoryInv, RepositoryInv', NEW t \in Threads, WriteTier(t)
  PROVE  Silent \/ Atomic!Create \/ Atomic!Perform
<1> USE DEF RepositoryInv
<1> DEFINE tier == First(todo[t], IF call[t].name = "apply" THEN Sorted ELSE Declared)
<1>1. /\ pc[t] = "write" /\ UNCHANGED <<snapshots, state, base, call>>
      /\ files' = Mixed({tier}, state[t], files)
      /\ pc' = [pc EXCEPT ![t] = IF todo[t] = {tier} THEN "leave" ELSE "write"]
  BY DEF WriteTier
<1>2. \A u \in Threads \ {t} : pc[u] # "write" /\ pc'[u] # "write"
  BY <1>1, OthersDoNotWrite, StepIsOwn DEF Step
<1>3. Visible = base[t] /\ base[t] \in States /\ state[t] \in States
  BY <1>1, VisibleIs DEF StatesInv
<1>4. CASE todo[t] # {tier}
  <2>1. pc'[t] = "write" /\ base'[t] = base[t]
    BY <1>1, <1>4 DEF DisciplineInv, Stages
  <2>2. Visible' = base[t]
    BY <2>1, VisibleWillBe
  <2>3. QED
    BY <1>1, <1>3, <2>2 DEF Silent
<1>5. CASE todo[t] = {tier}
  <2>1. \A u \in Threads : pc'[u] # "write"
    BY <1>1, <1>2, <1>5 DEF DisciplineInv, Stages
  <2>2. files = Mixed({tier}, base[t], state[t])
    BY <1>1, <1>5 DEF ProgressInv, Progress
  <2>3. files' = state[t]
    BY <1>1, <1>3, <2>2 DEF Mixed, States
  <2>4. Visible' = state[t]
    BY <2>1, <2>3, VisibleWillBe
  <2>5. CASE call[t].name = "add"
    <3>1. call[t].id \in Ids /\ call[t].round \in Rounds
      BY <2>5, DecideCalls
    <3>2. /\ Visible[call[t].id] = None
          /\ Visible' = [Visible EXCEPT ![call[t].id] = New(call[t].round, {})]
      BY <1>1, <1>3, <2>4, <2>5, NothingAdded
    <3>3. QED
      BY <1>1, <3>1, <3>2, AtomicStates DEF Atomic!Create
  <2>6. CASE call[t].name # "add"
    <3>1. state[t] \in Atomic!Outcomes \ {None}
      BY <1>1, <2>6, OutcomeIsAtomic
    <3>2. QED
      BY <1>1, <2>4, <3>1 DEF Atomic!Perform
  <2>7. QED
    BY <2>5, <2>6
<1>6. QED
  BY <1>4, <1>5

\* Whoever dies while it writes leaves some tiers of its operation.
LEMMA CrashTears ==
  ASSUME RepositoryInv, RepositoryInv', NEW p \in Processes, Crash(p)
  PROVE  Silent \/ Atomic!Tear
<1> USE DEF RepositoryInv
<1>1. /\ UNCHANGED <<files, snapshots>>
      /\ \A u \in Threads : ProcessOf[u] # p => pc'[u] = pc[u] /\ base'[u] = base[u]
      /\ \A u \in Threads : ProcessOf[u] = p => pc'[u] = "idle"
  BY DEF Crash, durable
<1>2. CASE \A u \in Threads : ProcessOf[u] = p => pc[u] # "write"
  <2>1. Visible' = Visible
    BY <1>1, <1>2, VisibleStays
  <2>2. QED
    BY <1>1, <2>1 DEF Silent
<1>3. ASSUME NEW t \in Threads, ProcessOf[t] = p, pc[t] = "write" PROVE Silent \/ Atomic!Tear
  <2>1. \A u \in Threads : pc'[u] # "write"
    BY <1>1, <1>3, OthersDoNotWrite
  <2>2. Visible' = files /\ Visible = base[t]
    BY <1>1, <1>3, <2>1, VisibleIs, VisibleWillBe
  <2>3. CASE call[t].name = "add"
    BY <1>1, <1>3, <2>2, <2>3, NothingAdded DEF Silent
  <2>4. CASE call[t].name # "add"
    <3>1. state[t] \in Atomic!Outcomes \ {None} /\ Tiers \ todo[t] \in SUBSET Tiers
      BY <1>3, <2>4, OutcomeIsAtomic
    <3>2. files = Mixed(todo[t], base[t], state[t])
      BY <1>3 DEF ProgressInv, Progress
    <3>3. Mixed(todo[t], base[t], state[t]) = Mixed(Tiers \ todo[t], state[t], base[t])
      BY TierOfAssumption DEF Mixed
    <3>4. Visible' = Atomic!Mixed(Tiers \ todo[t], state[t], Visible)
      BY <2>2, <3>2, <3>3, AtomicStates
    <3>5. QED
      BY <1>1, <3>1, <3>4 DEF Atomic!Tear
  <2>5. QED
    BY <2>3, <2>4
<1>4. QED
  BY <1>2, <1>3

LEMMA AtomicStep ==
  RepositoryInv /\ RepositoryInv' /\ [Next]_vars => [Atomic!Next]_(Atomic!vars)
<1> SUFFICES ASSUME RepositoryInv, RepositoryInv', [Next]_vars PROVE Silent \/ Atomic!Next
  BY DEF Silent, Atomic!vars
<1>1. ASSUME NEW t \in Threads, Call(t) \/ Step(t) PROVE Silent \/ Atomic!Next
  BY <1>1, ReadingIsSilent, StartingIsSilent, SnapshotPublishes, WritingIsAtomic
     DEF Step, Atomic!Next
<1>2. ASSUME NEW p \in Processes, Crash(p) PROVE Silent \/ Atomic!Next
  BY <1>2, CrashTears DEF Atomic!Next
<1>3. CASE UNCHANGED vars
  BY <1>3 DEF vars, durable, program, Silent, Visible
<1>4. QED
  BY <1>1, <1>2, <1>3 DEF Next, Quiescent

\* The repository implements its promise (AtomicRepository): for whoever holds the
\* lock every operation happens at once, whatever threads and processes share the
\* namespace, unless its process dies in it.
THEOREM RepositoryIsAtomic == Spec => ImplementsAtomic
<1>1. QED
  BY AtomicInitially, AtomicStep, RepositoryInitially, RepositoryStep, PTL
     DEF Spec, ImplementsAtomic, Atomic!Spec

-----------------------------------------------------------------------------
(* Operations come to an end: the part of EveryCallReturns that needs no     *)
(* fairness.                                                                 *)

\* How far an operation has to go: the phases that may still come, and within a
\* phase that repeats itself the files to create, the files to replace, or the
\* levels of the lock to leave.
PhaseLeft(t) ==
  CASE pc[t] = "enter" -> 10
    [] pc[t] = "acquire" -> 9
    [] pc[t] = "list" -> 8
    [] pc[t] = "reload" -> 7
    [] pc[t] = "create" -> 6
    [] pc[t] = "work" -> 5
    [] pc[t] = "decide" -> 4
    [] pc[t] = "commit" -> 3
    [] pc[t] = "write" -> 2
    [] pc[t] = "leave" -> 1
    [] OTHER -> 0
RepeatsLeft(t) ==
  CASE pc[t] = "create" -> Cardinality(Tiers \ present)
    [] pc[t] = "write" -> Cardinality(todo[t])
    [] pc[t] = "leave" -> depth[ProcessOf[t]]
    [] OTHER -> 0

Nearer(t) ==
  \/ PhaseLeft(t)' < PhaseLeft(t)
  \/ PhaseLeft(t)' = PhaseLeft(t) /\ RepeatsLeft(t)' < RepeatsLeft(t)
NotMoved(t) == PhaseLeft(t)' = PhaseLeft(t) /\ RepeatsLeft(t)' = RepeatsLeft(t)
LeftIsNat == \A t \in Threads : PhaseLeft(t) \in Nat /\ RepeatsLeft(t) \in Nat

LEMMA LeftCounted == ASSUME RepositoryInv, IsFiniteSet(Tiers) PROVE LeftIsNat
<1> SUFFICES ASSUME NEW t \in Threads PROVE PhaseLeft(t) \in Nat /\ RepeatsLeft(t) \in Nat
  BY DEF LeftIsNat
<1>1. PhaseLeft(t) \in Nat
  BY DEF PhaseLeft
<1>2. todo[t] \subseteq Tiers /\ Tiers \ present \subseteq Tiers /\ depth[ProcessOf[t]] \in Nat
  BY ProcessOfAssumption
     DEF RepositoryInv, NamespaceInv, DisciplineInv, LockInv, LockTypeOK
<1>3. Cardinality(todo[t]) \in Nat /\ Cardinality(Tiers \ present) \in Nat
  BY <1>2, FS_Subset, FS_CardinalityType
<1> QED BY <1>1, <1>2, <1>3 DEF RepeatsLeft

\* Every step of an operation brings it nearer to its end.
LEMMA StepNearer ==
  ASSUME RepositoryInv, IsFiniteSet(Tiers), NEW t \in Threads, Step(t)
  PROVE  Nearer(t)
<1> USE DEF Goto
<1>1. pc \in [Threads -> Phases] /\ todo \in [Threads -> SUBSET Tiers]
  BY DEF RepositoryInv, DisciplineInv, Stages, NamespaceInv
<1>2. CASE \/ EnterLock(t) \/ AcquireLock(t) \/ FailToLock(t) \/ EnterList(t) \/ Reload(t)
           \/ Open(t) \/ List(t) \/ TakeSnapshot(t) \/ Add(t) \/ LeaveList(t) \/ Decide(t)
           \/ EnterCommit(t) \/ Retrieve(t)
  <2>1. \/ pc[t] = "enter" /\ pc'[t] = "acquire"
        \/ pc[t] = "acquire" /\ pc'[t] \in {"idle", "list", "reload"}
        \/ pc[t] = "list" /\ pc'[t] = "reload"
        \/ pc[t] = "reload" /\ pc'[t] \in {"create", "work", "leave"}
        \/ pc[t] = "work" /\ pc'[t] \in {"decide", "commit", "write", "leave"}
        \/ pc[t] = "decide" /\ pc'[t] \in {"commit", "leave"}
        \/ pc[t] = "commit" /\ pc'[t] = "write"
    BY <1>1, <1>2 DEF EnterLock, AcquireLock, FailToLock, EnterList, Reload, Open, List,
                      TakeSnapshot, Add, LeaveList, Decide, EnterCommit, Retrieve
  <2>2. PhaseLeft(t)' < PhaseLeft(t)
    BY <2>1 DEF PhaseLeft
  <2> QED BY <2>2 DEF Nearer
<1>3. ASSUME NEW S \in SUBSET Tiers, NEW x \in S
      PROVE  Cardinality(S \ {x}) < Cardinality(S)
  <2>1. IsFiniteSet(S)
    BY FS_Subset
  <2>2. Cardinality(S) \in Nat /\ Cardinality(S \ {x}) = Cardinality(S) - 1
    BY <2>1, FS_RemoveElement, FS_CardinalityType
  <2> QED BY <2>2
<1>4. CASE CreateTier(t)
  <2> DEFINE tier == First(Tiers \ present, Declared)
  <2>1. pc[t] = "create" /\ present' = present \cup {tier}
    BY <1>4 DEF CreateTier
  <2>2. present # Tiers /\ present \subseteq Tiers
    BY <2>1 DEF RepositoryInv, NamespaceInv
  <2>3. tier \in Tiers \ present
    <3>1. Tiers \ present \in SUBSET Tiers /\ Tiers \ present # {} /\ Declared \in [Tiers -> Nat]
      BY <2>2, OrderAssumption
    <3> QED BY <3>1, FirstIsMember
  <2> HIDE DEF tier
  <2>4. CASE present' = Tiers
    <3>1. pc'[t] = "work"
      BY <1>1, <1>4, <2>4 DEF CreateTier
    <3> QED BY <2>1, <3>1 DEF Nearer, PhaseLeft
  <2>5. CASE present' # Tiers
    <3>1. pc'[t] = "create"
      BY <1>4, <2>1, <2>5 DEF CreateTier
    <3>2. Tiers \ present' = (Tiers \ present) \ {tier}
      BY <2>1
    <3>3. Cardinality(Tiers \ present') < Cardinality(Tiers \ present)
      BY <1>3, <2>3, <3>2
    <3>4. RepeatsLeft(t)' < RepeatsLeft(t) /\ PhaseLeft(t)' = PhaseLeft(t)
      BY <2>1, <3>1, <3>3 DEF RepeatsLeft, PhaseLeft
    <3> QED BY <3>4 DEF Nearer
  <2> QED BY <2>4, <2>5
<1>5. CASE WriteTier(t)
  <2> DEFINE tier == First(todo[t], IF call[t].name = "apply" THEN Sorted ELSE Declared)
  <2>1. pc[t] = "write" /\ pc'[t] \in {"leave", "write"} /\ todo'[t] = todo[t] \ {tier}
    BY <1>1, <1>5 DEF WriteTier
  <2>2. tier \in todo[t]
    BY <1>1, <1>5, FirstIsMember, OrderAssumption DEF WriteTier
  <2> HIDE DEF tier
  <2>3. Cardinality(todo'[t]) < Cardinality(todo[t])
    BY <1>1, <1>3, <2>1, <2>2
  <2>4. CASE pc'[t] = "leave"
    BY <2>1, <2>4 DEF Nearer, PhaseLeft
  <2>5. CASE pc'[t] = "write"
    <3>1. RepeatsLeft(t)' < RepeatsLeft(t) /\ PhaseLeft(t)' = PhaseLeft(t)
      BY <2>1, <2>3, <2>5 DEF RepeatsLeft, PhaseLeft
    <3> QED BY <3>1 DEF Nearer
  <2> QED BY <2>1, <2>4, <2>5
<1>6. CASE LeaveLock(t)
  <2>1. pc[t] = "leave" /\ depth \in [Processes -> Nat] /\ ProcessOf[t] \in Processes
    BY <1>6, ProcessOfAssumption
       DEF LeaveLock, RepositoryInv, DisciplineInv, LockInv, LockTypeOK
  <2>2. CASE depth[ProcessOf[t]] = 1
    <3>1. pc'[t] = "idle"
      BY <1>1, <1>6, <2>2 DEF LeaveLock
    <3> QED BY <2>1, <3>1 DEF Nearer, PhaseLeft
  <2>3. CASE depth[ProcessOf[t]] # 1
    <3>1. pc'[t] = "leave" /\ depth'[ProcessOf[t]] = depth[ProcessOf[t]] - 1
      BY <1>6, <2>1, <2>3 DEF LeaveLock, Exit
    <3>2. RepeatsLeft(t)' < RepeatsLeft(t) /\ PhaseLeft(t)' = PhaseLeft(t)
      BY <2>1, <3>1 DEF RepeatsLeft, PhaseLeft
    <3> QED BY <3>2 DEF Nearer
  <2> QED BY <2>2, <2>3
<1> QED BY <1>2, <1>4, <1>5, <1>6 DEF Step

\* Whoever is not at work keeps what it has to do: the files and the depth it counts
\* with change by the hand of the thread inside only.
LEMMA OthersNotMoved ==
  ASSUME RepositoryInv, NEW t \in Threads, Call(t) \/ Step(t), NEW u \in Threads \ {t}
  PROVE  NotMoved(u)
<1>1. pc'[u] = pc[u] /\ todo'[u] = todo[u]
  BY StepIsOwn
<1>2. PhaseLeft(u)' = PhaseLeft(u)
  BY <1>1 DEF PhaseLeft
<1>3. CASE pc[u] \notin {"create", "leave"}
  BY <1>1, <1>2, <1>3 DEF NotMoved, RepeatsLeft
<1>4. ASSUME pc[u] \in {"create", "leave"} PROVE present' = present /\ depth' = depth
  <2> USE DEF RepositoryInv, DisciplineInv, Stages
  <2>1. stage[u] = "inside" /\ stage[t] # "inside"
    BY <1>4, InsideAlone
  <2>2. pc[t] \in {"idle", "enter", "acquire"}
    BY <2>1
  <2>3. holder = ProcessOf[u] /\ owner[ProcessOf[u]] = u /\ depth[ProcessOf[u]] > 0
    BY <2>1, InsideAlone, ProcessOfAssumption DEF LockInv, LockConsistent
  <2>4. CASE Call(t) \/ FailToLock(t)
    BY <2>4 DEF Call, FailToLock, Fail, lockVars, durable
  <2>5. CASE EnterLock(t)
    <3>1. ProcessOf[t] # ProcessOf[u] /\ stage[t] = "outside"
      BY <2>3, <2>5, NobodyAssumption DEF EnterLock, Enter, Goto, LockInv, LockTypeOK
    <3>2. depth[ProcessOf[t]] = 0
      BY <2>3, <3>1, ProcessOfAssumption DEF LockInv, LockConsistent, LockTypeOK
    <3> QED BY <2>5, <3>2 DEF EnterLock, Enter, durable
  <2>6. CASE AcquireLock(t)
    <3>1. holder = Nobody
      BY <2>6 DEF AcquireLock, Acquire
    <3>2. ProcessOf[u] \in Processes /\ Nobody \notin Processes
      BY ProcessOfAssumption, NobodyAssumption
    <3> QED BY <2>3, <3>1, <3>2
  <2>7. CASE ~(Call(t) \/ FailToLock(t) \/ EnterLock(t) \/ AcquireLock(t))
    <3>1. pc[t] \notin {"idle", "enter", "acquire"}
      BY <2>7 DEF Step, Goto, EnterList, Reload, CreateTier, Open, List, TakeSnapshot, Add,
                  LeaveList, Decide, EnterCommit, Retrieve, WriteTier, LeaveLock
    <3> QED BY <2>2, <3>1
  <2> QED BY <2>4, <2>5, <2>6, <2>7
<1>5. CASE pc[u] \in {"create", "leave"}
  BY <1>1, <1>2, <1>4, <1>5 DEF NotMoved, RepeatsLeft
<1> QED BY <1>3, <1>5

\* The end of a process is the end of its operations and of no other.
LEMMA CrashEnds ==
  ASSUME RepositoryInv, NEW p \in Processes, Crash(p), NEW u \in Threads
  PROVE  IF ProcessOf[u] = p THEN pc'[u] = "idle" ELSE NotMoved(u)
<1>1. CASE ProcessOf[u] = p
  BY <1>1 DEF Crash
<1>2. CASE ProcessOf[u] # p
  <2>1. pc'[u] = pc[u] /\ todo'[u] = todo[u] /\ present' = present
    BY <1>2 DEF Crash, durable
  <2>2. depth'[ProcessOf[u]] = depth[ProcessOf[u]]
    <3>1. depth \in [Processes -> Nat] /\ ProcessOf[u] \in Processes
      BY ProcessOfAssumption DEF RepositoryInv, DisciplineInv, LockInv, LockTypeOK
    <3> QED BY <1>2, <3>1 DEF Crash, Die
  <2> QED BY <1>2, <2>1, <2>2 DEF NotMoved, PhaseLeft, RepeatsLeft
<1> QED BY <1>1, <1>2

\* A call that goes on returns after finitely many steps of its thread: each step
\* leads to a later phase or leaves fewer files or levels of the lock, and no other
\* thread, process or death gives it more to do, also while it waits for the lock
\* (MemoryRepository, ReentrantFileLock).  The exceptions are a new call of a thread
\* that has none, and the end of the calls of a process that dies.
THEOREM CallsComeToAnEnd ==
  ASSUME IsFiniteSet(Tiers)
  PROVE  Spec => /\ []LeftIsNat
                 /\ [][\/ \E t \in Threads :
                            /\ Nearer(t) \/ pc[t] = "idle"
                            /\ \A u \in Threads \ {t} : NotMoved(u)
                       \/ \E p \in Processes : \A u \in Threads :
                            IF ProcessOf[u] = p THEN pc'[u] = "idle" ELSE NotMoved(u)]_vars
<1>1. RepositoryInv => LeftIsNat
  BY LeftCounted
<1>2. RepositoryInv /\ [Next]_vars =>
        [\/ \E t \in Threads :
              /\ Nearer(t) \/ pc[t] = "idle"
              /\ \A u \in Threads \ {t} : NotMoved(u)
         \/ \E p \in Processes : \A u \in Threads :
              IF ProcessOf[u] = p THEN pc'[u] = "idle" ELSE NotMoved(u)]_vars
  <2>1. ASSUME RepositoryInv, NEW t \in Threads, Call(t) \/ Step(t)
        PROVE  Nearer(t) \/ pc[t] = "idle"
    BY <2>1, StepNearer DEF Call, Goto
  <2>2. ASSUME RepositoryInv, NEW t \in Threads, Call(t) \/ Step(t)
        PROVE  \A u \in Threads \ {t} : NotMoved(u)
    BY <2>2, OthersNotMoved
  <2>3. ASSUME RepositoryInv, NEW p \in Processes, Crash(p)
        PROVE  \A u \in Threads : IF ProcessOf[u] = p THEN pc'[u] = "idle" ELSE NotMoved(u)
    BY <2>3, CrashEnds
  <2> QED BY <2>1, <2>2, <2>3 DEF Next, Quiescent
<1> QED BY <1>1, <1>2, RepositoryInitially, RepositoryStep, PTL DEF Spec
=============================================================================
