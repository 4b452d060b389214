-------------------------- MODULE TrainBatchProofs --------------------------
(* Theorems about TrainBatch, for any sets of runs, ids and variants, any    *)
(* batch sizes, maintenance period and write quota.                          *)
EXTENDS TrainBatch, FiniteSetTheorems, SequenceTheorems, TLAPS

-----------------------------------------------------------------------------
(* Values the program computes are of their types.                          *)

LEMMA ProposedIds ==
  ASSUME NEW r \in Runs
  PROVE  Proposed(r) \subseteq Ids
BY DEF Proposed

LEMMA NoDecisionType == NoDecision \in Decisions
BY DEF NoDecision, Decisions

LEMMA NoPlanType ==
  ASSUME NEW r \in Runs
  PROVE  NoPlan(r) \in Plans(r)
<1>1. Cardinality({}) <= WriteQuota
  BY FS_EmptySet, WriteQuotaAssumption
<1>2. {} \in Proposals
  BY <1>1 DEF Proposals
<1> QED BY <1>2 DEF NoPlan, Plans

\* The record AddMemory stores for a proposed id.
LEMMA AddedRecordType ==
  ASSUME TypeOK, NEW r \in Runs, NEW i \in Proposed(r)
  PROVE  New(VariantOf(r, i), gen[r]) \in Records
<1>1. \E v \in Variants : v \in Offered(r, i)
  BY DEF Proposed, Offered
<1>2. VariantOf(r, i) \in Variants
  BY <1>1 DEF VariantOf
<1>3. gen[r] \in Nat
  BY DEF TypeOK
<1> QED BY <1>2, <1>3 DEF Records, New

LEMMA RetiredType ==
  ASSUME memory \in Contents, NEW i \in Active(memory),
         NEW r \in Runs, NextRound(r) \in Nat
  PROVE  Retired(r, i) \in Records \cup {None}
<1>1. i \in Ids /\ memory[i] # None
  BY DEF Active, Known
<1>2. memory[i] \in Records
  BY <1>1 DEF Contents
<1> QED BY <1>2 DEF Retired, Records

-----------------------------------------------------------------------------
(* The schedule of maintenance: rounds 1..n are completed, the due list of a *)
(* run is an interval that starts no later than n + 1, and exactly there     *)
(* while the run holds the scheduler lock.                                   *)

DueFrom(r, n) ==
  \/ due[r] = {} /\ pc[r] \notin HoldsLock
  \/ /\ pc[r] \in HoldsLock \cup {"rounds"}
     /\ \E k \in 1..(n + 1) :
          /\ k <= LatestRound(r)
          /\ due[r] = k..LatestRound(r)
          /\ pc[r] \in HoldsLock => k = n + 1

Frontier(n) == doneRounds = 1..n /\ \A r \in Runs : DueFrom(r, n)
LockExclusive == \A r \in Runs : pc[r] \in HoldsLock <=> lock = r

ScheduleInv == LockExclusive /\ \E n \in Nat : Frontier(n)

\* The first round of a due list that is an interval is its lower end.
LEMMA NextRoundOfInterval ==
  ASSUME NEW r \in Runs, NEW a \in Int, NEW b \in Int, a <= b, due[r] = a..b
  PROVE  NextRound(r) = a
<1>1. \E m \in due[r] : \A k \in due[r] : m <= k
  OBVIOUS
<1>2. NextRound(r) \in due[r] /\ \A k \in due[r] : NextRound(r) <= k
  BY <1>1 DEF NextRound
<1> QED BY <1>2

\* The number of rounds due at the end of a batch is a natural number.
LEMMA LatestRoundNat ==
  ASSUME TypeOK, NEW r \in Runs
  PROVE  LatestRound(r) \in Nat
<1>1. before[r] + BatchSize[r] \in Nat
  BY BatchSizeAssumption DEF TypeOK
<1>2. ASSUME NEW x \in Nat PROVE x \div Period \in Nat
  BY PeriodAssumption
<1> QED BY <1>1, <1>2 DEF LatestRound

\* The round a lock holder works on is the first that is not completed.
LEMMA HolderAtFrontier ==
  ASSUME TypeOK, NEW n \in Nat, Frontier(n), NEW r \in Runs, pc[r] \in HoldsLock
  PROVE  /\ NextRound(r) = n + 1 /\ n + 1 <= LatestRound(r)
         /\ due[r] = (n + 1)..LatestRound(r)
BY NextRoundOfInterval, LatestRoundNat DEF Frontier, DueFrom

-----------------------------------------------------------------------------
(* The typing invariant.  An id still to be added was proposed by the batch, *)
(* or AddMemory would store a record of no proposal.                         *)

TodoProposed ==
  \A r \in Runs :
    /\ pc[r] \in {"resolve", "snapshot", "execute", "discard", "load"} =>
         todo[r] = {} /\ fresh[r] = {}
    /\ pc[r] \in {"validate", "add"} =>
         todo[r] \subseteq Proposed(r) /\ fresh[r] \subseteq Proposed(r)

\* While the plan of a run stands, so do its proposals.
LEMMA ProposedStable ==
  ASSUME plan' = plan, NEW r \in Runs
  PROVE  Proposed(r)' = Proposed(r)
BY DEF Proposed, Offered

LEMMA TypingInit == Init => TypeOK /\ TodoProposed
<1> SUFFICES ASSUME Init PROVE TypeOK /\ TodoProposed
  OBVIOUS
<1>1. \A r \in Runs : NoPlan(r) \in Plans(r)
  BY NoPlanType
<1>2. TypeOK
  BY <1>1, NoDecisionType DEF Init, TypeOK, Contents, Working
<1>3. TodoProposed
  BY DEF Init, TodoProposed
<1> QED BY <1>2, <1>3

LEMMA TypingStep == TypeOK /\ TodoProposed /\ ScheduleInv /\ [Next]_vars => TypeOK'
<1> SUFFICES ASSUME TypeOK, TodoProposed, ScheduleInv, [Next]_vars PROVE TypeOK'
  OBVIOUS
<1>1. CASE UNCHANGED vars
  BY <1>1 DEF vars, durable, local, TypeOK
<1>2. ASSUME NEW r \in Runs, Step(r) \/ Crash(r) PROVE TypeOK'
  <2>1. CASE ReadGeneration(r)
    BY <2>1 DEF ReadGeneration, Goto, TypeOK, durable, Working
  <2>2. CASE TakeInputSnapshot(r)
    <3>1. \E c \in Contents : input' = [input EXCEPT ![r] = c]
      BY <2>2 DEF TakeInputSnapshot, Reloaded, TypeOK
    <3>2. input' \in [Runs -> Contents]
      BY <3>1 DEF TypeOK
    <3>3. pinned' \in [Runs -> BOOLEAN]
      BY <2>2 DEF TakeInputSnapshot, TypeOK
    <3> QED BY <2>2, <3>2, <3>3 DEF TakeInputSnapshot, Goto, TypeOK, durable, Working
  <2>3. CASE Execute(r)
    BY <2>3 DEF Execute, TypeOK, durable, Working
  <2>4. CASE Discard(r)
    BY <2>4 DEF Discard, Goto, TypeOK, durable, Working, Ended
  <2>5. CASE LoadBatchState(r)
    BY <2>5, ProposedIds DEF LoadBatchState, Goto, TypeOK, durable, Working
  <2>6. CASE ValidateId(r)
    BY <2>6 DEF ValidateId, TypeOK, durable, Ended
  <2>7. CASE StartAdding(r)
    BY <2>7 DEF StartAdding, Goto, TypeOK, durable, Working
  <2>8. CASE AddMemory(r)
    <3>1. PICK i \in todo[r] :
            \/ pc' = [pc EXCEPT ![r] = "aborted"] /\ UNCHANGED <<memory, todo, created>>
            \/ /\ memory' = [memory EXCEPT ![i] =
                               New(VariantOf(r, i), gen[r])]
               /\ todo' = [todo EXCEPT ![r] = @ \ {i}]
               /\ created' = [created EXCEPT ![r] = @ \cup {i}]
               /\ UNCHANGED pc
      BY <2>8 DEF AddMemory
    <3>2. i \in Ids /\ New(VariantOf(r, i), gen[r]) \in Records
      BY <2>8, AddedRecordType DEF AddMemory, TodoProposed, TypeOK
    <3>3. memory' \in Contents
      <4>1. memory \in [Ids -> Records \cup {None}]
        BY DEF TypeOK, Contents
      <4> QED BY <3>1, <3>2, <4>1 DEF Contents
    <3>4. todo' \in [Runs -> SUBSET Ids] /\ created' \in [Runs -> SUBSET Ids]
      <4>1. todo \in [Runs -> SUBSET Ids] /\ created \in [Runs -> SUBSET Ids]
        BY DEF TypeOK
      <4> QED BY <3>1, <3>2, <4>1
    <3>5. pc' \in [Runs -> Working \cup Ended]
      BY <3>1 DEF TypeOK, Ended
    <3> QED BY <2>8, <3>3, <3>4, <3>5 DEF AddMemory, TypeOK
  <2>9. CASE ListDueRounds(r)
    <3>1. DueRounds(r) \subseteq Nat \ {0}
      BY LatestRoundNat DEF DueRounds
    <3> QED BY <2>9, <3>1 DEF ListDueRounds, TypeOK, durable, Working, Ended
  <2>10. CASE BeginRound(r)
    BY <2>10 DEF BeginRound, TypeOK, durable, Working
  <2>11. CASE ReviewMemories(r)
    BY <2>11 DEF ReviewMemories, Goto, TypeOK, durable, Working
  <2>12. CASE FailRound(r)
    BY <2>12, NoDecisionType DEF FailRound, TypeOK, durable, Working
  <2>13. CASE ApplyDecision(r)
    <3>0. PICK n \in Nat : Frontier(n)
      BY DEF ScheduleInv
    <3>n. NextRound(r) \in Nat
      BY <2>13, <3>0, HolderAtFrontier DEF ApplyDecision, Goto, HoldsLock
    <3>1. PICK merged \in [decision[r].create -> Variants] :
            memory' = [i \in Ids |->
              IF i \in decision[r].retire THEN Retired(r, i)
              ELSE IF i \in decision[r].create THEN New(merged[i], NextRound(r))
              ELSE memory[i]]
      BY <2>13 DEF ApplyDecision
    <3>2. ASSUME NEW i \in Ids
          PROVE  (IF i \in decision[r].retire THEN Retired(r, i)
                  ELSE IF i \in decision[r].create THEN New(merged[i], NextRound(r))
                  ELSE memory[i]) \in Records \cup {None}
      <4>1. i \in decision[r].retire => i \in Active(memory)
        BY <2>13 DEF ApplyDecision, Applicable
      <4>2. i \in decision[r].retire => Retired(r, i) \in Records \cup {None}
        BY <3>n, <4>1, RetiredType DEF TypeOK
      <4>3. memory[i] \in Records \cup {None}
        BY DEF TypeOK, Contents
      <4> QED BY <3>n, <4>2, <4>3 DEF Records, New
    <3>3. memory' \in Contents
      BY <3>1, <3>2 DEF Contents
    <3> QED BY <2>13, <3>3 DEF ApplyDecision, Goto, TypeOK, local, Working
  <2>14. CASE RecordRound(r)
    <3>1. PICK n \in Nat : Frontier(n)
      BY DEF ScheduleInv
    <3>2. NextRound(r) = n + 1
      BY <2>14, <3>1, HolderAtFrontier DEF RecordRound, Goto, HoldsLock
    <3> QED BY <2>14, <3>2, NoDecisionType DEF RecordRound, Goto, TypeOK, Working
  <2>15. CASE TakeOutputSnapshot(r)
    BY <2>15 DEF TakeOutputSnapshot, Reloaded, TypeOK, durable, Working
  <2>16. CASE CommitState(r)
    BY <2>16, BatchSizeAssumption DEF CommitState, TypeOK, local, Working, Ended
  <2>17. CASE PublishArtifacts(r)
    BY <2>17 DEF PublishArtifacts, Goto, TypeOK, durable, local, Ended
  <2>18. CASE Crash(r)
    <3>1. plan' = plan \/ plan' = [plan EXCEPT ![r] = NoPlan(r)]
      BY <2>18 DEF Crash
    <3>2. DOMAIN plan' = Runs /\ \A s \in Runs : (plan[s] \in Plans(s))'
      BY <3>1, NoPlanType DEF TypeOK
    <3> QED BY <2>18, <3>2, NoDecisionType DEF Crash, TypeOK, durable, Ended
  <2> QED
    BY <1>2, <2>1, <2>2, <2>3, <2>4, <2>5, <2>6, <2>7, <2>8, <2>9, <2>10, <2>11,
       <2>12, <2>13, <2>14, <2>15, <2>16, <2>17, <2>18 DEF Step
<1> QED BY <1>1, <1>2 DEF Next, Quiescent

-----------------------------------------------------------------------------
(* No step disturbs the schedule.                                            *)

\* The due list of a run stands while other runs complete rounds.
LEMMA DueFromKept ==
  ASSUME NEW r \in Runs, NEW n \in Nat, NEW m \in Nat, n <= m, DueFrom(r, n),
         due'[r] = due[r], before'[r] = before[r], pc'[r] = pc[r],
         pc[r] \in HoldsLock => m = n
  PROVE  DueFrom(r, m)'
<1>1. LatestRound(r)' = LatestRound(r)
  BY DEF LatestRound
<1> QED BY <1>1 DEF DueFrom, HoldsLock

\* Outside maintenance a run has no due list to disturb.
LEMMA ScheduleOutside ==
  ASSUME ScheduleInv, NEW r \in Runs,
         pc[r] \notin HoldsLock \cup {"rounds"}, pc'[r] \notin HoldsLock,
         \A s \in Runs \ {r} : pc'[s] = pc[s] /\ before'[s] = before[s],
         UNCHANGED <<doneRounds, lock, due>>
  PROVE  ScheduleInv'
<1>1. PICK n \in Nat : Frontier(n)
  BY DEF ScheduleInv
<1>2. DueFrom(r, n)'
  BY <1>1 DEF Frontier, DueFrom
<1>3. \A s \in Runs \ {r} : DueFrom(s, n)'
  BY <1>1, DueFromKept DEF Frontier
<1>4. Frontier(n)'
  BY <1>1, <1>2, <1>3 DEF Frontier
<1>5. LockExclusive'
  BY DEF ScheduleInv, LockExclusive
<1> QED BY <1>4, <1>5 DEF ScheduleInv

\* Nor does the lock holder until it leaves the round.
LEMMA ScheduleInside ==
  ASSUME ScheduleInv, NEW r \in Runs,
         pc[r] \in HoldsLock, pc'[r] \in HoldsLock,
         \A s \in Runs \ {r} : pc'[s] = pc[s],
         UNCHANGED <<doneRounds, lock, due, before>>
  PROVE  ScheduleInv'
<1>1. PICK n \in Nat : Frontier(n)
  BY DEF ScheduleInv
<1>2. LatestRound(r)' = LatestRound(r)
  BY DEF LatestRound
<1>3. DueFrom(r, n)'
  BY <1>1, <1>2 DEF Frontier, DueFrom
<1>4. \A s \in Runs \ {r} : DueFrom(s, n)'
  BY <1>1, DueFromKept DEF Frontier
<1>5. LockExclusive'
  BY DEF ScheduleInv, LockExclusive
<1> QED BY <1>1, <1>3, <1>4, <1>5 DEF ScheduleInv, Frontier

LEMMA ScheduleStep == TypeOK /\ ScheduleInv /\ [Next]_vars => ScheduleInv'
<1> SUFFICES ASSUME TypeOK, ScheduleInv, [Next]_vars PROVE ScheduleInv'
  OBVIOUS
<1>1. CASE UNCHANGED vars
  BY <1>1 DEF vars, durable, local, ScheduleInv, LockExclusive, Frontier, DueFrom, LatestRound
<1>2. ASSUME NEW r \in Runs, Step(r) \/ Crash(r) PROVE ScheduleInv'
  <2>0. PICK n \in Nat : Frontier(n)
    BY DEF ScheduleInv
  <2> DEFINE L == LatestRound(r)
  <2>n. L \in Nat
    BY LatestRoundNat
  <2>1. CASE ReadGeneration(r)
    BY <2>1, ScheduleOutside DEF ReadGeneration, Goto, TypeOK, durable, local, HoldsLock
  <2>2. CASE TakeInputSnapshot(r)
    BY <2>2, ScheduleOutside DEF TakeInputSnapshot, Goto, TypeOK, durable, local, HoldsLock
  <2>3. CASE Execute(r)
    BY <2>3, ScheduleOutside DEF Execute, TypeOK, durable, local, HoldsLock
  <2>4. CASE Discard(r)
    BY <2>4, ScheduleOutside DEF Discard, Goto, TypeOK, durable, local, HoldsLock
  <2>5. CASE LoadBatchState(r)
    BY <2>5, ScheduleOutside DEF LoadBatchState, Goto, TypeOK, durable, local, HoldsLock
  <2>6. CASE ValidateId(r)
    BY <2>6, ScheduleOutside DEF ValidateId, TypeOK, durable, local, HoldsLock
  <2>7. CASE StartAdding(r)
    BY <2>7, ScheduleOutside DEF StartAdding, Goto, TypeOK, durable, local, HoldsLock
  <2>8. CASE AddMemory(r)
    BY <2>8, ScheduleOutside DEF AddMemory, TypeOK, durable, local, HoldsLock
  <2>9. CASE ListDueRounds(r)
    <3>1. due[r] = {} /\ pc[r] = "add"
      BY <2>0, <2>9 DEF ListDueRounds, Frontier, DueFrom, HoldsLock
    <3>2. DueFrom(r, n)'
      <4>1. CASE due' = due
        BY <3>1, <4>1, <2>9 DEF ListDueRounds, DueFrom, TypeOK, HoldsLock
      <4>2. CASE FutureRounds(L) = {} /\ due' = [due EXCEPT ![r] = DueRounds(r)]
                 /\ pc' = [pc EXCEPT ![r] = "rounds"]
        <5>a. doneRounds = 1..n
          BY <2>0 DEF Frontier
        <5>b. n <= L
          BY <4>2, <5>a, <2>n DEF FutureRounds
        <5>c. DueRounds(r) = (n + 1)..L
          BY <5>a, <5>b, <2>n DEF DueRounds
        <5>1. due'[r] = (n + 1)..L
          BY <4>2, <5>c DEF TypeOK
        <5>2. L' = L
          BY <2>9 DEF ListDueRounds, LatestRound
        <5>3. pc'[r] = "rounds"
          BY <4>2 DEF TypeOK
        <5>4. CASE n = L
          BY <5>1, <5>3, <5>4, <2>n DEF DueFrom, HoldsLock
        <5>5. CASE n < L
          BY <5>1, <5>2, <5>3, <5>5, <2>n DEF DueFrom, HoldsLock
        <5> QED BY <5>b, <5>4, <5>5, <2>n
      <4> QED BY <4>1, <4>2, <2>9 DEF ListDueRounds
    <3>3. \A s \in Runs \ {r} : DueFrom(s, n)'
      BY <2>0, <2>9, DueFromKept DEF ListDueRounds, Frontier, TypeOK
    <3>4. LockExclusive'
      BY <2>9, <3>1 DEF ListDueRounds, ScheduleInv, LockExclusive, TypeOK, HoldsLock
    <3>5. doneRounds' = doneRounds
      BY <2>9 DEF ListDueRounds, durable
    <3> QED BY <2>0, <3>2, <3>3, <3>4, <3>5 DEF ScheduleInv, Frontier
  <2>10. CASE BeginRound(r)
    <3>1. PICK k \in 1..(n + 1) : k <= L /\ due[r] = k..L
      BY <2>0, <2>10 DEF BeginRound, Frontier, DueFrom
    <3>2. NextRound(r) = k
      BY <3>1, <2>n, NextRoundOfInterval
    <3>3. L' = L /\ before' = before /\ doneRounds' = doneRounds
      BY <2>10 DEF BeginRound, LatestRound, durable
    <3>4. DueFrom(r, n)'
      <4>1. CASE due' = [due EXCEPT ![r] = {}] /\ pc' = pc
        BY <4>1, <2>10 DEF BeginRound, DueFrom, TypeOK, HoldsLock
      <4>2. CASE /\ AlreadyCompleted(r) /\ pc' = pc
                 /\ due' = [due EXCEPT ![r] = @ \ {NextRound(r)}]
        <5>1. k <= n /\ due'[r] = (k + 1)..L
          BY <4>2, <2>0, <2>n, <3>1, <3>2 DEF AlreadyCompleted, Frontier, TypeOK
        <5>2. CASE k = L
          BY <4>2, <5>1, <5>2, <2>10, <2>n DEF BeginRound, DueFrom, HoldsLock
        <5>3. CASE k < L
          BY <4>2, <5>1, <5>3, <3>1, <3>3, <2>10, <2>n DEF BeginRound, DueFrom, HoldsLock
        <5> QED BY <5>2, <5>3, <3>1, <2>n
      <4>3. CASE /\ FutureRounds(NextRound(r)) = {} /\ ~AlreadyCompleted(r) /\ due' = due
                 /\ pc' = [pc EXCEPT ![r] = "review"]
        <5>1. k = n + 1
          BY <4>3, <3>1, <3>2, <2>0 DEF FutureRounds, AlreadyCompleted, Frontier
        <5> QED BY <4>3, <5>1, <3>1, <3>3 DEF DueFrom, TypeOK, HoldsLock
      <4> QED BY <4>1, <4>2, <4>3, <2>10 DEF BeginRound
    <3>5. \A s \in Runs \ {r} : DueFrom(s, n)'
      BY <2>0, <2>10, <3>3, DueFromKept DEF BeginRound, Frontier, TypeOK
    <3>6. LockExclusive'
      BY <2>10, NoneAssumption DEF BeginRound, ScheduleInv, LockExclusive, TypeOK, HoldsLock
    <3> QED BY <2>0, <3>3, <3>4, <3>5, <3>6 DEF ScheduleInv, Frontier
  <2>11. CASE ReviewMemories(r)
    BY <2>0, <2>11, ScheduleInside DEF ReviewMemories, Goto, durable, TypeOK, HoldsLock
  <2>12. CASE FailRound(r)
    <3>1. DueFrom(r, n)'
      BY <2>12 DEF FailRound, DueFrom, TypeOK, HoldsLock
    <3>2. \A s \in Runs \ {r} : DueFrom(s, n)'
      BY <2>0, <2>12, DueFromKept DEF FailRound, Frontier, TypeOK
    <3>3. LockExclusive'
      BY <2>12, NoneAssumption DEF FailRound, ScheduleInv, LockExclusive, TypeOK, HoldsLock
    <3> QED BY <2>0, <2>12, <3>1, <3>2, <3>3 DEF FailRound, durable, ScheduleInv, Frontier
  <2>13. CASE ApplyDecision(r)
    BY <2>0, <2>13, ScheduleInside DEF ApplyDecision, Goto, local, TypeOK, HoldsLock
  <2>14. CASE RecordRound(r)
    <3>1. /\ pc[r] \in HoldsLock /\ pc' = [pc EXCEPT ![r] = "rounds"] /\ lock' = None
          /\ doneRounds' = doneRounds \cup {NextRound(r)}
          /\ due' = [due EXCEPT ![r] = @ \ {NextRound(r)}] /\ before' = before
      BY <2>14 DEF RecordRound, Goto, HoldsLock
    <3>2. NextRound(r) = n + 1 /\ n + 1 <= L /\ due[r] = (n + 1)..L
      BY <2>0, <3>1, HolderAtFrontier
    <3>3. doneRounds' = 1..(n + 1)
      BY <2>0, <3>1, <3>2 DEF Frontier
    <3>4. due'[r] = (n + 2)..L /\ L' = L /\ pc'[r] = "rounds"
      BY <3>1, <3>2, <2>n DEF TypeOK, LatestRound
    <3>5. DueFrom(r, n + 1)'
      <4>1. CASE n + 1 = L
        BY <3>4, <4>1, <2>n DEF DueFrom, HoldsLock
      <4>2. CASE n + 1 < L
        BY <3>4, <4>2, <2>n DEF DueFrom, HoldsLock
      <4> QED BY <3>2, <4>1, <4>2, <2>n
    <3>6. ASSUME NEW s \in Runs \ {r} PROVE DueFrom(s, n + 1)'
      <4>1. pc[s] \notin HoldsLock
        BY <3>1 DEF ScheduleInv, LockExclusive
      <4> QED BY <2>0, <3>1, <4>1, DueFromKept DEF Frontier, TypeOK
    <3>7. LockExclusive'
      BY <3>1, NoneAssumption DEF ScheduleInv, LockExclusive, TypeOK, HoldsLock
    <3>8. Frontier(n + 1)'
      BY <3>3, <3>5, <3>6 DEF Frontier
    <3> QED BY <3>7, <3>8 DEF ScheduleInv
  <2>15. CASE TakeOutputSnapshot(r)
    <3>1. DueFrom(r, n)'
      BY <2>15 DEF TakeOutputSnapshot, DueFrom, TypeOK, HoldsLock
    <3>2. \A s \in Runs \ {r} : DueFrom(s, n)'
      BY <2>0, <2>15, DueFromKept DEF TakeOutputSnapshot, Frontier, TypeOK
    <3>3. LockExclusive'
      BY <2>15 DEF TakeOutputSnapshot, ScheduleInv, LockExclusive, TypeOK, HoldsLock
    <3> QED BY <2>0, <2>15, <3>1, <3>2, <3>3 DEF TakeOutputSnapshot, durable, ScheduleInv, Frontier
  <2>16. CASE CommitState(r)
    BY <2>16, ScheduleOutside DEF CommitState, TypeOK, durable, local, HoldsLock
  <2>17. CASE PublishArtifacts(r)
    BY <2>17, ScheduleOutside DEF PublishArtifacts, Goto, TypeOK, durable, local, HoldsLock
  <2>18. CASE Crash(r)
    <3>1. pc'[r] \notin HoldsLock /\ due'[r] = {}
      BY <2>18 DEF Crash, TypeOK, HoldsLock
    <3>2. \A s \in Runs \ {r} : pc'[s] = pc[s] /\ due'[s] = due[s]
      BY <2>18 DEF Crash, TypeOK
    <3>a. DueFrom(r, n)'
      BY <3>1 DEF DueFrom
    <3>b. before' = before
      BY <2>18 DEF Crash
    <3>3. \A s \in Runs \ {r} : DueFrom(s, n)'
      BY <2>0, <3>2, <3>b, DueFromKept DEF Frontier
    <3>4. LockExclusive'
      BY <2>18, <3>1, <3>2, NoneAssumption DEF Crash, ScheduleInv, LockExclusive
    <3> QED BY <2>0, <2>18, <3>a, <3>3, <3>4 DEF Crash, durable, ScheduleInv, Frontier
  <2> QED
    BY <1>2, <2>1, <2>2, <2>3, <2>4, <2>5, <2>6, <2>7, <2>8, <2>9, <2>10, <2>11, <2>12, <2>13,
       <2>14, <2>15, <2>16, <2>17, <2>18 DEF Step
<1> QED BY <1>1, <1>2 DEF Next, Quiescent

LEMMA TodoStep == TypeOK /\ TodoProposed /\ [Next]_vars => TodoProposed'
<1> SUFFICES ASSUME TypeOK, TodoProposed, [Next]_vars PROVE TodoProposed'
  OBVIOUS
<1>1. CASE UNCHANGED vars
  BY <1>1, ProposedStable DEF vars, local, TodoProposed
<1>2. ASSUME NEW r \in Runs, Step(r) \/ Crash(r) PROVE TodoProposed'
  <2>0. \A s \in Runs : plan'[s] = plan[s] => Proposed(s)' = Proposed(s)
    BY DEF Proposed, Offered
  <2>1. CASE ReadGeneration(r)
    BY <2>0, <2>1 DEF ReadGeneration, Goto, TypeOK, TodoProposed, HoldsLock, local
  <2>2. CASE TakeInputSnapshot(r)
    BY <2>0, <2>2 DEF TakeInputSnapshot, Goto, TypeOK, TodoProposed, HoldsLock, local
  <2>3. CASE Execute(r)
    BY <2>0, <2>3 DEF Execute, TypeOK, TodoProposed, HoldsLock, local
  <2>4. CASE Discard(r)
    BY <2>0, <2>4 DEF Discard, Goto, TypeOK, TodoProposed, HoldsLock, local
  <2>5. CASE LoadBatchState(r)
    BY <2>0, <2>5 DEF LoadBatchState, Goto, TypeOK, TodoProposed, HoldsLock, local
  <2>6. CASE ValidateId(r)
    BY <2>0, <2>6 DEF ValidateId, TypeOK, TodoProposed, HoldsLock, local
  <2>7. CASE StartAdding(r)
    BY <2>0, <2>7 DEF StartAdding, Goto, TypeOK, TodoProposed, HoldsLock, local
  <2>8. CASE AddMemory(r)
    BY <2>0, <2>8 DEF AddMemory, TypeOK, TodoProposed, HoldsLock, local
  <2>9. CASE ListDueRounds(r)
    BY <2>0, <2>9 DEF ListDueRounds, TypeOK, TodoProposed, HoldsLock, local
  <2>10. CASE BeginRound(r)
    BY <2>0, <2>10 DEF BeginRound, TypeOK, TodoProposed, HoldsLock, local
  <2>11. CASE ReviewMemories(r)
    BY <2>0, <2>11 DEF ReviewMemories, Goto, TypeOK, TodoProposed, HoldsLock, local
  <2>12. CASE FailRound(r)
    BY <2>0, <2>12 DEF FailRound, TypeOK, TodoProposed, HoldsLock, local
  <2>13. CASE ApplyDecision(r)
    BY <2>0, <2>13 DEF ApplyDecision, Goto, TypeOK, TodoProposed, HoldsLock, local
  <2>14. CASE RecordRound(r)
    BY <2>0, <2>14 DEF RecordRound, Goto, TypeOK, TodoProposed, HoldsLock, local
  <2>15. CASE TakeOutputSnapshot(r)
    BY <2>0, <2>15 DEF TakeOutputSnapshot, TypeOK, TodoProposed, HoldsLock, local
  <2>16. CASE CommitState(r)
    BY <2>0, <2>16 DEF CommitState, TypeOK, TodoProposed, HoldsLock, local
  <2>17. CASE PublishArtifacts(r)
    BY <2>0, <2>17 DEF PublishArtifacts, Goto, TypeOK, TodoProposed, HoldsLock, local
  <2>18. CASE Crash(r)
    BY <2>0, <2>18 DEF Crash, TypeOK, TodoProposed, HoldsLock, local
  <2> QED
    BY <1>2, <2>1, <2>2, <2>3, <2>4, <2>5, <2>6, <2>7, <2>8, <2>9, <2>10, <2>11, <2>12, <2>13,
       <2>14, <2>15, <2>16, <2>17, <2>18 DEF Step
<1> QED BY <1>1, <1>2 DEF Next, Quiescent

-----------------------------------------------------------------------------
(* The invariant of maintenance, and what follows from it.                   *)

ScheduleIInv == TypeOK /\ TodoProposed /\ ScheduleInv

LEMMA ScheduleInit == Init => ScheduleInv
<1> SUFFICES ASSUME Init PROVE ScheduleInv
  OBVIOUS
<1>1. LockExclusive
  BY NoneAssumption DEF Init, LockExclusive, HoldsLock
<1>2. Frontier(0)
  BY DEF Init, Frontier, DueFrom, HoldsLock
<1> QED BY <1>1, <1>2 DEF ScheduleInv

LEMMA ScheduleInvariant == Spec => []ScheduleIInv
<1>1. Init => ScheduleIInv
  BY TypingInit, ScheduleInit DEF ScheduleIInv
<1>2. ScheduleIInv /\ [Next]_vars => ScheduleIInv'
  BY TypingStep, TodoStep, ScheduleStep DEF ScheduleIInv
<1> QED BY <1>1, <1>2, PTL DEF Spec

\* In every reachable state the variables have the values the program can give
\* them.
THEOREM TypeCorrect == Spec => []TypeOK
<1>1. ScheduleIInv => TypeOK
  BY DEF ScheduleIInv
<1> QED BY <1>1, ScheduleInvariant, PTL

\* However many runs work off the schedule, fail or die, the completed rounds
\* leave no gap and only the holder of the scheduler lock is inside a round
\* (fast_loop/maintenance.py).
THEOREM RoundsAreAPrefix == Spec => []RoundsArePrefix
<1>1. ScheduleIInv => RoundsArePrefix
  <2> SUFFICES ASSUME ScheduleIInv PROVE RoundsArePrefix
    OBVIOUS
  <2>1. PICK n \in Nat : doneRounds = 1..n
    BY DEF ScheduleIInv, ScheduleInv, Frontier
  <2>2. Cardinality(1..n) = n
    BY <2>1, FS_Interval
  <2> QED BY <2>1, <2>2 DEF ScheduleIInv, ScheduleInv, LockExclusive, RoundsArePrefix
<1> QED BY <1>1, ScheduleInvariant, PTL

\* No maintenance round that is recorded as completed is applied a second time,
\* whichever run lists it as due.
THEOREM NoRoundTwice == Spec => NoRepeatOfCompletedRound
<1>1. ScheduleIInv /\ [Next]_vars =>
        [\A r \in Runs : pc[r] = "apply" /\ pc'[r] = "record"
           => NextRound(r) \notin doneRounds]_vars
  <2> SUFFICES ASSUME ScheduleIInv, NEW r \in Runs, pc[r] = "apply"
               PROVE  NextRound(r) \notin doneRounds
    OBVIOUS
  <2>1. PICK n \in Nat : Frontier(n)
    BY DEF ScheduleIInv, ScheduleInv
  <2>2. NextRound(r) = n + 1
    BY <2>1, HolderAtFrontier DEF ScheduleIInv, HoldsLock
  <2> QED BY <2>1, <2>2 DEF Frontier
<1> QED BY <1>1, ScheduleInvariant, PTL DEF Spec, NoRepeatOfCompletedRound

-----------------------------------------------------------------------------
(* Generations.                                                              *)

GenerationInv ==
  /\ \A r \in Committed : gen[r] \in 1..batchState.committed
  /\ \A r, s \in Committed : r # s => gen[r] # gen[s]
  /\ IsFiniteSet(Committed) /\ batchState.committed = Cardinality(Committed)

\* The steps other than a successful commit leave the committed runs alone.
NoCommit == Committed' = Committed /\ batchState' = batchState
            /\ \A r \in Committed : gen'[r] = gen[r]

LEMMA StepCommitsOrNot ==
  ASSUME TypeOK, NEW r \in Runs, Step(r) \/ Crash(r)
  PROVE  NoCommit \/ (CommitState(r) /\ ~GenerationMoved(r))
<1>1. CASE ReadGeneration(r)
  BY <1>1 DEF ReadGeneration, Goto, NoCommit, Committed, TypeOK, durable, local
<1>2. CASE TakeInputSnapshot(r)
  BY <1>2 DEF TakeInputSnapshot, Goto, NoCommit, Committed, TypeOK, durable, local
<1>3. CASE Execute(r)
  BY <1>3 DEF Execute, NoCommit, Committed, TypeOK, durable, local
<1>4. CASE Discard(r)
  BY <1>4 DEF Discard, Goto, NoCommit, Committed, TypeOK, durable, local
<1>5. CASE LoadBatchState(r)
  BY <1>5 DEF LoadBatchState, Goto, NoCommit, Committed, TypeOK, durable, local
<1>6. CASE ValidateId(r)
  BY <1>6 DEF ValidateId, NoCommit, Committed, TypeOK, durable, local
<1>7. CASE StartAdding(r)
  BY <1>7 DEF StartAdding, Goto, NoCommit, Committed, TypeOK, durable, local
<1>8. CASE AddMemory(r)
  BY <1>8 DEF AddMemory, NoCommit, Committed, TypeOK, durable, local
<1>9. CASE ListDueRounds(r)
  BY <1>9 DEF ListDueRounds, NoCommit, Committed, TypeOK, durable, local
<1>10. CASE BeginRound(r)
  BY <1>10 DEF BeginRound, NoCommit, Committed, TypeOK, durable, local
<1>11. CASE ReviewMemories(r)
  BY <1>11 DEF ReviewMemories, Goto, NoCommit, Committed, TypeOK, durable, local
<1>12. CASE FailRound(r)
  BY <1>12 DEF FailRound, NoCommit, Committed, TypeOK, durable, local, HoldsLock
<1>13. CASE ApplyDecision(r)
  BY <1>13 DEF ApplyDecision, Goto, NoCommit, Committed, TypeOK, durable, local
<1>14. CASE RecordRound(r)
  BY <1>14 DEF RecordRound, Goto, NoCommit, Committed, TypeOK, durable, local
<1>15. CASE TakeOutputSnapshot(r)
  BY <1>15 DEF TakeOutputSnapshot, NoCommit, Committed, TypeOK, durable, local
<1>16. CASE CommitState(r)
  BY <1>16 DEF CommitState, NoCommit, Committed, TypeOK, local
<1>17. CASE PublishArtifacts(r)
  BY <1>17 DEF PublishArtifacts, Goto, NoCommit, Committed, TypeOK, durable, local
<1>18. CASE Crash(r)
  BY <1>18 DEF Crash, NoCommit, Committed, Working, TypeOK, durable, local
<1> QED BY <1>1, <1>2, <1>3, <1>4, <1>5, <1>6, <1>7, <1>8, <1>9, <1>10, <1>11, <1>12, <1>13,
           <1>14, <1>15, <1>16, <1>17, <1>18 DEF Step

LEMMA GenerationStep == TypeOK /\ GenerationInv /\ [Next]_vars => GenerationInv'
<1> SUFFICES ASSUME TypeOK, GenerationInv, [Next]_vars PROVE GenerationInv'
  OBVIOUS
<1>1. CASE UNCHANGED vars
  BY <1>1 DEF vars, durable, local, GenerationInv, Committed
<1>2. ASSUME NoCommit PROVE GenerationInv'
  BY <1>2 DEF NoCommit, GenerationInv
<1>3. ASSUME NEW r \in Runs, CommitState(r), ~GenerationMoved(r) PROVE GenerationInv'
  <2>1. r \notin Committed /\ Committed' = Committed \cup {r}
    BY <1>3 DEF CommitState, Committed, TypeOK
  <2>2. gen' = gen /\ gen[r] = batchState.committed + 1 /\ batchState'.committed = gen[r]
    BY <1>3 DEF CommitState, GenerationMoved, local, TypeOK
  <2>3. batchState.committed \in Nat
    BY DEF TypeOK
  <2>4. IsFiniteSet(Committed') /\ Cardinality(Committed') = Cardinality(Committed) + 1
    BY <2>1, FS_AddElement DEF GenerationInv
  <2>5. \A s \in Committed : gen[s] # gen[r]
    BY <2>2, <2>3 DEF GenerationInv
  <2> QED BY <2>1, <2>2, <2>3, <2>4, <2>5 DEF GenerationInv
<1> QED BY <1>1, <1>2, <1>3, StepCommitsOrNot DEF Next, Quiescent

LEMMA GenerationInvariant == Spec => []GenerationInv
<1>1. Init => GenerationInv
  <2> SUFFICES ASSUME Init PROVE GenerationInv
    OBVIOUS
  <2>1. Committed = {}
    BY DEF Init, Committed
  <2> QED BY <2>1, FS_EmptySet DEF Init, GenerationInv
<1>2. ScheduleIInv /\ GenerationInv /\ [Next]_vars => GenerationInv'
  BY GenerationStep DEF ScheduleIInv
<1> QED BY <1>1, <1>2, ScheduleInvariant, PTL DEF Spec

\* Whatever runs overlap on a namespace, the committed batches form one
\* sequence: their generations are 1..n, one each (execution/memory_state.py).
THEOREM GenerationsAreSerial == Spec => []SerialGenerations
<1>1. GenerationInv => SerialGenerations
  BY DEF GenerationInv, SerialGenerations
<1> QED BY <1>1, GenerationInvariant, PTL

-----------------------------------------------------------------------------
(* What is stored stays stored.                                              *)

\* No step removes a Memory, rewrites its text, moves its round backwards or
\* revives a retired one.
MemoryKept ==
  \A i \in Known(memory) :
    /\ i \in Known(memory') /\ memory'[i].variant = memory[i].variant
    /\ memory'[i].round >= memory[i].round
    /\ memory[i].status = "retired" => memory'[i] = memory[i]

LEMMA StepKeepsMemory ==
  ASSUME TypeOK, ScheduleInv, NEW r \in Runs, Step(r) \/ Crash(r)
  PROVE  MemoryKept
<1>0. \A i \in Known(memory) : memory[i].round \in Nat
  BY DEF Known, TypeOK, Contents, Records
<1>1. CASE AddMemory(r)
  <2>1. memory' = memory \/ \E j \in todo[r] : /\ j \notin Known(memory)
                                               /\ \E x : memory' = [memory EXCEPT ![j] = x]
    BY <1>1 DEF AddMemory, Duplicate, Known
  <2>2. ASSUME NEW i \in Known(memory) PROVE memory'[i] = memory[i] /\ i \in Known(memory')
    BY <2>1, <2>2 DEF Known, TypeOK, Contents
  <2>3. ASSUME NEW n \in Nat PROVE n >= n
    OBVIOUS
  <2> QED BY <1>0, <2>2, <2>3 DEF MemoryKept
<1>2. CASE ApplyDecision(r)
  <2>1. PICK merged \in [decision[r].create -> Variants] :
          memory' = [i \in Ids |->
            IF i \in decision[r].retire THEN Retired(r, i)
            ELSE IF i \in decision[r].create THEN New(merged[i], NextRound(r))
            ELSE memory[i]]
    BY <1>2 DEF ApplyDecision
  <2>2. SUFFICES ASSUME NEW i \in Known(memory)
                 PROVE  /\ memory'[i] # None /\ memory'[i].variant = memory[i].variant
                        /\ memory'[i].round >= memory[i].round
                        /\ memory[i].status = "retired" => memory'[i] = memory[i]
    BY DEF MemoryKept, Known
  <2>3. i \in Ids /\ memory[i] # None /\ memory[i] \in Records
    BY DEF Known, TypeOK, Contents
  <2>4. CASE i \in decision[r].retire
    <3>1. memory[i].status = "active"
      BY <1>2, <2>4 DEF ApplyDecision, Applicable, Active
    <3>2. memory'[i] = Retired(r, i)
      BY <2>1, <2>3, <2>4
    <3>3. /\ memory'[i].variant = memory[i].variant /\ memory'[i].status = "retired"
          /\ memory'[i].round = NextRound(r)
      BY <2>3, <3>2 DEF Retired, Records
    <3>4. memory[i].round <= NextRound(r)
      BY <1>2, <2>4 DEF ApplyDecision, Applicable
    <3>5. NextRound(r) \in Nat
      BY <1>2, HolderAtFrontier DEF ScheduleInv, ApplyDecision, Goto, HoldsLock
    <3>6. memory'[i] # None
      BY <2>3, <3>2, <3>5, NoneAssumption DEF Retired, Records
    <3> QED BY <3>1, <3>3, <3>4, <3>6
  <2>5. CASE i \notin decision[r].retire
    <3>1. i \notin decision[r].create
      BY <1>2, <2>3 DEF ApplyDecision, Applicable
    <3> QED BY <1>0, <2>1, <2>2, <2>3, <2>5, <3>1
  <2> QED BY <2>4, <2>5
<1>3. CASE memory' = memory
  BY <1>0, <1>3 DEF MemoryKept, Known
<1> QED
  BY <1>1, <1>2, <1>3 DEF Step, durable, ReadGeneration, TakeInputSnapshot, Execute, Discard,
     LoadBatchState, ValidateId, StartAdding, ListDueRounds, BeginRound, ReviewMemories,
     FailRound, RecordRound, TakeOutputSnapshot, CommitState, PublishArtifacts, Crash

\* A namespace never loses an id, revives a retired Memory, or counts back its
\* generations or its completed rounds.
THEOREM NothingEverRegresses == Spec => NothingRegresses
<1> DEFINE Kept == /\ Known(memory) \subseteq Known(memory')
                   /\ \A i \in Known(memory) \ Active(memory) : memory'[i] = memory[i]
                   /\ \A i \in Known(memory) : memory'[i].round >= memory[i].round
                   /\ batchState'.committed >= batchState.committed
                   /\ doneRounds \subseteq doneRounds'
<1>1. TypeOK /\ ScheduleInv /\ [Next]_vars => [Kept]_vars
  <2> SUFFICES ASSUME TypeOK, ScheduleInv, NEW r \in Runs, Step(r) \/ Crash(r) PROVE Kept
    BY DEF Next, Quiescent
  <2>1. Known(memory) \subseteq Known(memory')
    BY StepKeepsMemory DEF MemoryKept
  <2>2. \A i \in Known(memory) \ Active(memory) : memory[i].status = "retired"
    BY NoneAssumption DEF Known, Active, TypeOK, Contents, Records
  <2>3. batchState'.committed >= batchState.committed
    <3>1. CASE NoCommit
      BY <3>1 DEF NoCommit, TypeOK
    <3>2. CASE CommitState(r) /\ ~GenerationMoved(r)
      BY <3>2 DEF CommitState, GenerationMoved, TypeOK
    <3> QED BY <3>1, <3>2, StepCommitsOrNot
  <2>4. doneRounds \subseteq doneRounds'
    BY DEF Step, durable, ReadGeneration, TakeInputSnapshot, Execute, Discard, LoadBatchState,
       ValidateId, StartAdding, AddMemory, ListDueRounds, BeginRound, ReviewMemories, FailRound,
       ApplyDecision, RecordRound, TakeOutputSnapshot, CommitState, PublishArtifacts, Crash
  <2> QED BY <2>1, <2>2, <2>3, <2>4, StepKeepsMemory DEF MemoryKept
<1> QED BY <1>1, ScheduleInvariant, PTL DEF Spec, ScheduleIInv, NothingRegresses

-----------------------------------------------------------------------------
(* The experience of a batch.  Its proposals are validated, then stored, and *)
(* from there on they are in every later state of the tier files.           *)

Stored(r, i) == i \in Known(memory) /\ TextOf[memory[i].variant] = TextOf[VariantOf(r, i)]
Published(r, i) ==
  i \in Known(output[r]) /\ TextOf[output[r][i].variant] = TextOf[VariantOf(r, i)]

Stage(r, i) ==
  /\ pc[r] = "validate" /\ i \notin todo[r] => i \in fresh[r] \/ Stored(r, i)
  /\ pc[r] = "add" /\ i \notin todo[r] => Stored(r, i)
  /\ pc[r] \in HoldsLock \cup {"rounds", "commit", "publish", "done", "lost"} => Stored(r, i)
  /\ pc[r] \in {"commit", "publish", "done", "lost"} => Published(r, i)

ExperienceInv == \A r \in Runs : \A i \in Proposed(r) : Stage(r, i)

LEMMA StoredStays ==
  ASSUME MemoryKept, NEW r, NEW i, VariantOf(r, i)' = VariantOf(r, i), Stored(r, i)
  PROVE  Stored(r, i)'
BY DEF MemoryKept, Stored

\* A run that does not move keeps its stage, whatever the others do.
LEMMA StageOfOthers ==
  ASSUME MemoryKept, NEW r \in Runs, NEW i \in Ids, Stage(r, i),
         pc'[r] = pc[r], plan'[r] = plan[r], todo'[r] = todo[r], fresh'[r] = fresh[r],
         output'[r] = output[r]
  PROVE  Stage(r, i)'
<1>1. VariantOf(r, i)' = VariantOf(r, i)
  BY DEF VariantOf, Offered
<1>2. Stored(r, i) => Stored(r, i)'
  BY <1>1, StoredStays
<1>3. Published(r, i) <=> Published(r, i)'
  BY <1>1 DEF Published, Known
<1> QED BY <1>2, <1>3 DEF Stage, HoldsLock

LEMMA ExperienceStep ==
  TypeOK /\ ScheduleInv /\ ExperienceInv /\ [Next]_vars => ExperienceInv'
<1> SUFFICES ASSUME TypeOK, ScheduleInv, ExperienceInv, [Next]_vars PROVE ExperienceInv'
  OBVIOUS
<1>1. CASE UNCHANGED vars
  <2>1. MemoryKept
    BY <1>1 DEF vars, durable, MemoryKept, Known, TypeOK, Contents, Records
  <2>2. \A r \in Runs : Proposed(r)' = Proposed(r)
    BY <1>1, ProposedStable DEF vars, local
  <2> QED
    BY <1>1, <2>1, <2>2, StageOfOthers, ProposedIds DEF vars, local, ExperienceInv
<1>2. ASSUME NEW r \in Runs, Step(r) \/ Crash(r) PROVE ExperienceInv'
  <2>1. MemoryKept
    BY <1>2, StepKeepsMemory
  <2>2. ASSUME NEW s \in Runs \ {r}, NEW i \in Proposed(s)' PROVE Stage(s, i)'
    <3>1. /\ pc'[s] = pc[s] /\ plan'[s] = plan[s] /\ todo'[s] = todo[s]
          /\ fresh'[s] = fresh[s] /\ output'[s] = output[s]
      BY <1>2 DEF Step, TypeOK, local, Goto, ReadGeneration, TakeInputSnapshot, Execute, Discard,
         LoadBatchState, ValidateId, StartAdding, AddMemory, ListDueRounds, BeginRound,
         ReviewMemories, FailRound, ApplyDecision, RecordRound, TakeOutputSnapshot, CommitState,
         PublishArtifacts, Crash
    <3>2. i \in Proposed(s)
      BY <3>1 DEF Proposed, Offered
    <3> QED BY <2>1, <3>1, <3>2, StageOfOthers, ProposedIds DEF ExperienceInv
  <2>3. ASSUME NEW i \in Proposed(r)' PROVE Stage(r, i)'
    <3>1. i \in Ids
      BY ProposedIds DEF Proposed
    <3>2. ASSUME plan'[r] = plan[r]
          PROVE  /\ i \in Proposed(r) /\ VariantOf(r, i)' = VariantOf(r, i)
                 /\ Stage(r, i) /\ (Stored(r, i) => Stored(r, i)')
                 /\ (output'[r] = output[r] => (Published(r, i) <=> Published(r, i)'))
      <4>1. i \in Proposed(r) /\ VariantOf(r, i)' = VariantOf(r, i)
        BY <3>2 DEF Proposed, Offered, VariantOf
      <4>2. Stored(r, i) => Stored(r, i)'
        BY <2>1, <4>1, StoredStays
      <4> QED BY <4>1, <4>2 DEF ExperienceInv, Published, Known
    <3>3. CASE ReadGeneration(r)
      BY <3>3 DEF ReadGeneration, Goto, Stage, HoldsLock, TypeOK
    <3>4. CASE TakeInputSnapshot(r)
      BY <3>4 DEF TakeInputSnapshot, Goto, Stage, HoldsLock, TypeOK
    <3>5. CASE Execute(r)
      BY <3>5 DEF Execute, Stage, HoldsLock, TypeOK
    <3>6. CASE Discard(r)
      BY <3>6 DEF Discard, Goto, Stage, HoldsLock, TypeOK
    <3>7. CASE LoadBatchState(r)
      <4>1. i \in todo'[r] /\ pc'[r] = "validate"
        BY <3>2, <3>7 DEF LoadBatchState, Goto, TypeOK
      <4> QED BY <4>1 DEF Stage, HoldsLock
    <3>8. CASE ValidateId(r)
      <4>1. plan'[r] = plan[r] /\ memory' = memory /\ pc[r] = "validate"
        BY <3>8 DEF ValidateId, durable
      <4>2. PICK j \in todo[r] :
              IF Conflicting(r, j) THEN pc'[r] = "aborted"
              ELSE /\ todo'[r] = todo[r] \ {j} /\ pc' = pc
                   /\ fresh'[r] = IF memory[j] = None THEN fresh[r] \cup {j} ELSE fresh[r]
        BY <3>8 DEF ValidateId, TypeOK
      <4>3. CASE Conflicting(r, j)
        BY <4>2, <4>3 DEF Stage, HoldsLock
      <4>4. CASE ~Conflicting(r, j)
        <5>1. j \in fresh'[r] \/ (j \in Ids => Stored(r, j))
          BY <4>2, <4>4 DEF Conflicting, Stored, Known
        <5> QED BY <3>1, <3>2, <4>1, <4>2, <4>4, <5>1 DEF Stage, HoldsLock
      <4> QED BY <4>3, <4>4
    <3>9. CASE StartAdding(r)
      <4>1. /\ plan'[r] = plan[r] /\ pc[r] = "validate" /\ pc'[r] = "add"
            /\ todo[r] = {} /\ todo'[r] = fresh[r]
        BY <3>9 DEF StartAdding, Goto, TypeOK
      <4> QED BY <3>2, <4>1 DEF Stage, HoldsLock
    <3>10. CASE AddMemory(r)
      <4>1. plan'[r] = plan[r] /\ pc[r] = "add"
        BY <3>10 DEF AddMemory
      <4>2. PICK j \in todo[r] :
              \/ pc'[r] = "aborted"
              \/ /\ pc'[r] = "add" /\ todo'[r] = todo[r] \ {j}
                 /\ memory' = [memory EXCEPT ![j] =
                                 New(VariantOf(r, j), gen[r])]
        BY <3>10 DEF AddMemory, TypeOK
      <4>3. CASE pc'[r] = "aborted"
        BY <4>3 DEF Stage, HoldsLock
      <4>4. CASE pc'[r] # "aborted"
        <5>1. i = j => Stored(r, i)'
          BY <3>1, <3>2, <4>1, <4>2, <4>4, AddedRecordType, NoneAssumption
          DEF Stored, Known, TypeOK, Contents, New
        <5> QED BY <3>2, <4>1, <4>2, <4>4, <5>1 DEF Stage, HoldsLock
      <4> QED BY <4>3, <4>4
    <3>11. CASE ListDueRounds(r)
      <4>1. /\ plan'[r] = plan[r] /\ pc[r] = "add" /\ todo[r] = {}
            /\ pc'[r] \in {"rounds", "aborted"}
        BY <3>11 DEF ListDueRounds, TypeOK
      <4> QED BY <3>2, <4>1 DEF Stage, HoldsLock
    <3>12. CASE BeginRound(r)
      <4>1. /\ plan'[r] = plan[r] /\ output'[r] = output[r]
            /\ pc[r] \in HoldsLock \cup {"rounds"} /\ pc'[r] \in HoldsLock \cup {"rounds"}
        BY <3>12 DEF BeginRound, local, HoldsLock, TypeOK
      <4> QED BY <3>2, <4>1 DEF Stage, HoldsLock
    <3>13. CASE ReviewMemories(r)
      <4>1. /\ plan'[r] = plan[r] /\ output'[r] = output[r]
            /\ pc[r] \in HoldsLock \cup {"rounds"} /\ pc'[r] \in HoldsLock \cup {"rounds"}
        BY <3>13 DEF ReviewMemories, Goto, local, HoldsLock, TypeOK
      <4> QED BY <3>2, <4>1 DEF Stage, HoldsLock
    <3>14. CASE FailRound(r)
      <4>1. /\ plan'[r] = plan[r] /\ output'[r] = output[r]
            /\ pc[r] \in HoldsLock \cup {"rounds"} /\ pc'[r] \in HoldsLock \cup {"rounds"}
        BY <3>14 DEF FailRound, local, HoldsLock, TypeOK
      <4> QED BY <3>2, <4>1 DEF Stage, HoldsLock
    <3>15. CASE ApplyDecision(r)
      <4>1. /\ plan'[r] = plan[r] /\ output'[r] = output[r]
            /\ pc[r] \in HoldsLock \cup {"rounds"} /\ pc'[r] \in HoldsLock \cup {"rounds"}
        BY <3>15 DEF ApplyDecision, Goto, local, HoldsLock, TypeOK
      <4> QED BY <3>2, <4>1 DEF Stage, HoldsLock
    <3>16. CASE RecordRound(r)
      <4>1. /\ plan'[r] = plan[r] /\ output'[r] = output[r]
            /\ pc[r] \in HoldsLock \cup {"rounds"} /\ pc'[r] \in HoldsLock \cup {"rounds"}
        BY <3>16 DEF RecordRound, Goto, local, HoldsLock, TypeOK
      <4> QED BY <3>2, <4>1 DEF Stage, HoldsLock
    <3>17. CASE TakeOutputSnapshot(r)
      <4>1. /\ plan'[r] = plan[r] /\ pc[r] = "rounds" /\ pc'[r] = "commit"
            /\ output'[r] = memory
        BY <3>17 DEF TakeOutputSnapshot, Reloaded, TypeOK
      <4>2. Stored(r, i)
        BY <3>2, <4>1 DEF Stage
      <4>3. Published(r, i)'
        BY <3>2, <4>1, <4>2 DEF Stored, Published, Known
      <4> QED BY <3>2, <4>1, <4>2, <4>3 DEF Stage, HoldsLock
    <3>18. CASE CommitState(r)
      <4>1. /\ plan'[r] = plan[r] /\ output'[r] = output[r] /\ pc[r] = "commit"
            /\ pc'[r] \in {"aborted", "publish"}
        BY <3>18 DEF CommitState, local, TypeOK
      <4> QED BY <3>2, <4>1 DEF Stage, HoldsLock
    <3>19. CASE PublishArtifacts(r)
      <4>1. /\ plan'[r] = plan[r] /\ output'[r] = output[r] /\ pc[r] = "publish"
            /\ pc'[r] = "done"
        BY <3>19 DEF PublishArtifacts, Goto, local, TypeOK
      <4> QED BY <3>2, <4>1 DEF Stage, HoldsLock
    <3>20. CASE Crash(r)
      <4>1. CASE pc[r] = "publish"
        <5>1. /\ plan'[r] = plan[r] /\ output'[r] = output[r] /\ pc'[r] = "lost"
          BY <3>20, <4>1 DEF Crash, TypeOK
        <5> QED BY <3>2, <4>1, <5>1 DEF Stage, HoldsLock
      <4>2. CASE pc[r] # "publish"
        <5>1. pc'[r] = "crashed"
          BY <3>20, <4>2 DEF Crash, TypeOK
        <5> QED BY <5>1 DEF Stage, HoldsLock
      <4> QED BY <4>1, <4>2
    <3> QED
      BY <1>2, <3>3, <3>4, <3>5, <3>6, <3>7, <3>8, <3>9, <3>10, <3>11, <3>12, <3>13, <3>14, <3>15,
         <3>16, <3>17, <3>18, <3>19, <3>20 DEF Step
  <2> QED BY <2>2, <2>3 DEF ExperienceInv
<1> QED BY <1>1, <1>2 DEF Next, Quiescent

LEMMA ExperienceInvariant == Spec => []ExperienceInv
<1>1. Init => ExperienceInv
  BY DEF Init, ExperienceInv, Stage, HoldsLock
<1>2. ScheduleIInv /\ ExperienceInv /\ [Next]_vars => ExperienceInv'
  BY ExperienceStep DEF ScheduleIInv
<1> QED BY <1>1, <1>2, ScheduleInvariant, PTL DEF Spec

\* What a committed batch proposed is in the tier files and in the snapshot it
\* published, with its text, for as long as the namespace exists
\* (commit_pending_experience and apply_batch).
THEOREM CommittedExperienceIsKept == Spec => []CommittedExperienceKept
<1>1. ExperienceInv => CommittedExperienceKept
  BY DEF ExperienceInv, Stage, Stored, Published, Committed, CommittedExperienceKept
<1> QED BY <1>1, ExperienceInvariant, PTL

-----------------------------------------------------------------------------
(* Who wrote what: what a run found missing when it validated it still has to *)
(* add or has added, and it has added nothing another run added.            *)

Added == HoldsLock \cup {"rounds", "commit", "publish", "done", "lost"}

Writer(r) ==
  /\ pc[r] \in {"resolve", "snapshot", "execute", "discard", "load"} => fresh[r] = {}
  /\ pc[r] \in {"resolve", "snapshot", "execute", "discard", "load", "validate"}
       => created[r] = {}
  /\ pc[r] = "add" => fresh[r] = created[r] \cup todo[r]
  /\ pc[r] \in Added => fresh[r] = created[r]
  /\ pc[r] \in Added \cup {"validate", "add"} => fresh[r] \subseteq Proposed(r)

CreatorInv ==
  /\ \A r \in Runs : Writer(r)
  /\ \A r \in Runs : created[r] \subseteq Known(memory)
  /\ \A r, s \in Runs : r # s => created[r] \cap created[s] = {}

\* Steps add to created only what is not stored, one id at a time.
LEMMA CreatedStep ==
  ASSUME TypeOK, TodoProposed, NEW r \in Runs, Step(r) \/ Crash(r)
  PROVE  \/ created' = created
         \/ \E i \in Ids \ Known(memory) :
              created' = [created EXCEPT ![r] = @ \cup {i}] /\ i \in Known(memory')
<1>1. CASE AddMemory(r)
  <2>1. PICK i \in todo[r] :
          IF Duplicate(i) THEN created' = created
          ELSE /\ memory' = [memory EXCEPT ![i] = New(VariantOf(r, i), gen[r])]
               /\ created' = [created EXCEPT ![r] = @ \cup {i}]
    BY <1>1 DEF AddMemory
  <2>2. CASE ~Duplicate(i)
    <3>1. i \in Ids
      BY <1>1, <2>1 DEF TypeOK
    <3>2. i \notin Known(memory)
      BY <2>2 DEF Duplicate, Known
    <3>3. New(VariantOf(r, i), gen[r]) # None
      BY <1>1, AddedRecordType, NoneAssumption DEF AddMemory, TodoProposed
    <3>4. i \in Known(memory')
      BY <2>1, <2>2, <3>1, <3>3 DEF Known, TypeOK, Contents
    <3> QED BY <2>1, <2>2, <3>1, <3>2, <3>4
  <2> QED BY <2>1, <2>2
<1>2. CASE ~AddMemory(r)
  BY <1>2 DEF Step, local, Goto, ReadGeneration, TakeInputSnapshot, Execute, Discard,
     LoadBatchState, ValidateId, StartAdding, ListDueRounds, BeginRound, ReviewMemories,
     FailRound, ApplyDecision, RecordRound, TakeOutputSnapshot, CommitState, PublishArtifacts, Crash
<1> QED BY <1>1, <1>2

LEMMA WriterStep == TypeOK /\ TodoProposed /\ CreatorInv /\ [Next]_vars => \A r \in Runs : Writer(r)'
<1> SUFFICES ASSUME TypeOK, TodoProposed, CreatorInv, [Next]_vars,
                    NEW s \in Runs
             PROVE  Writer(s)'
  OBVIOUS
<1>1. CASE UNCHANGED vars
  <2>1. Proposed(s)' = Proposed(s)
    BY <1>1, ProposedStable DEF vars, local
  <2> QED BY <1>1, <2>1 DEF vars, local, CreatorInv, Writer
<1>2. ASSUME NEW r \in Runs, Step(r) \/ Crash(r) PROVE Writer(s)'
  <2>0. plan'[s] = plan[s] => Proposed(s)' = Proposed(s)
    BY DEF Proposed, Offered
  <2>1. Writer(s)
    BY DEF CreatorInv
  <2>2. CASE s # r
    <3>1. /\ pc'[s] = pc[s] /\ plan'[s] = plan[s] /\ todo'[s] = todo[s]
          /\ fresh'[s] = fresh[s] /\ created'[s] = created[s]
      BY <1>2, <2>2 DEF Step, TypeOK, local, Goto, ReadGeneration, TakeInputSnapshot, Execute,
         Discard, LoadBatchState, ValidateId, StartAdding, AddMemory, ListDueRounds, BeginRound,
         ReviewMemories, FailRound, ApplyDecision, RecordRound, TakeOutputSnapshot, CommitState,
         PublishArtifacts, Crash
    <3> QED BY <2>0, <2>1, <3>1 DEF Writer
  <2>3. CASE s = r
    <3> USE <2>3
    <3>1. CASE ReadGeneration(r)
      BY <2>0, <2>1, <3>1 DEF ReadGeneration, Goto, Writer, Added, HoldsLock, TypeOK, local
    <3>2. CASE TakeInputSnapshot(r)
      BY <2>0, <2>1, <3>2 DEF TakeInputSnapshot, Goto, Writer, Added, HoldsLock, TypeOK, local
    <3>3. CASE Execute(r)
      BY <2>0, <2>1, <3>3 DEF Execute, Writer, Added, HoldsLock, TypeOK, local
    <3>4. CASE Discard(r)
      BY <2>0, <2>1, <3>4 DEF Discard, Goto, Writer, Added, HoldsLock, TypeOK, local
    <3>5. CASE LoadBatchState(r)
      BY <2>0, <2>1, <3>5 DEF LoadBatchState, Goto, Writer, Added, HoldsLock, TypeOK, local
    <3>6. CASE ValidateId(r)
      <4>1. /\ pc[r] = "validate" /\ created' = created /\ plan' = plan
        BY <3>6 DEF ValidateId
      <4>2. PICK i \in todo[r] :
              IF Conflicting(r, i) THEN pc'[r] = "aborted"
              ELSE /\ pc' = pc
                   /\ fresh'[r] = IF memory[i] = None THEN fresh[r] \cup {i} ELSE fresh[r]
        BY <3>6 DEF ValidateId, TypeOK
      <4>3. i \in Proposed(r)
        BY <4>1 DEF TodoProposed
      <4>4. CASE Conflicting(r, i)
        BY <4>2, <4>4 DEF Writer, Added, HoldsLock
      <4>5. CASE ~Conflicting(r, i)
        BY <2>0, <2>1, <4>1, <4>2, <4>3, <4>5 DEF Writer, Added, HoldsLock
      <4> QED BY <4>4, <4>5
    <3>7. CASE StartAdding(r)
      BY <2>0, <2>1, <3>7 DEF StartAdding, Goto, Writer, Added, HoldsLock, TypeOK, local
    <3>8. CASE AddMemory(r)
      BY <2>0, <2>1, <3>8 DEF AddMemory, Writer, Added, HoldsLock, TypeOK, local
    <3>9. CASE ListDueRounds(r)
      BY <2>0, <2>1, <3>9 DEF ListDueRounds, Writer, Added, HoldsLock, TypeOK, local
    <3>10. CASE BeginRound(r)
      BY <2>0, <2>1, <3>10 DEF BeginRound, Writer, Added, HoldsLock, TypeOK, local
    <3>11. CASE ReviewMemories(r)
      BY <2>0, <2>1, <3>11 DEF ReviewMemories, Goto, Writer, Added, HoldsLock, TypeOK, local
    <3>12. CASE FailRound(r)
      BY <2>0, <2>1, <3>12 DEF FailRound, Writer, Added, HoldsLock, TypeOK, local
    <3>13. CASE ApplyDecision(r)
      BY <2>0, <2>1, <3>13 DEF ApplyDecision, Goto, Writer, Added, HoldsLock, TypeOK, local
    <3>14. CASE RecordRound(r)
      BY <2>0, <2>1, <3>14 DEF RecordRound, Goto, Writer, Added, HoldsLock, TypeOK, local
    <3>15. CASE TakeOutputSnapshot(r)
      BY <2>0, <2>1, <3>15 DEF TakeOutputSnapshot, Writer, Added, HoldsLock, TypeOK, local
    <3>16. CASE CommitState(r)
      BY <2>0, <2>1, <3>16 DEF CommitState, Writer, Added, HoldsLock, TypeOK, local
    <3>17. CASE PublishArtifacts(r)
      BY <2>0, <2>1, <3>17 DEF PublishArtifacts, Goto, Writer, Added, HoldsLock, TypeOK, local
    <3>18. CASE Crash(r)
      BY <2>0, <2>1, <3>18 DEF Crash, Writer, Added, HoldsLock, TypeOK, local
    <3> QED
      BY <1>2, <3>1, <3>2, <3>3, <3>4, <3>5, <3>6, <3>7, <3>8, <3>9, <3>10, <3>11, <3>12, <3>13,
         <3>14, <3>15, <3>16, <3>17, <3>18 DEF Step
  <2> QED BY <2>2, <2>3
<1> QED BY <1>1, <1>2 DEF Next, Quiescent

LEMMA CreatorStep == ScheduleIInv /\ CreatorInv /\ [Next]_vars => CreatorInv'
<1> SUFFICES ASSUME TypeOK, TodoProposed, ScheduleInv, CreatorInv, [Next]_vars
             PROVE  CreatorInv'
  BY DEF ScheduleIInv
<1>1. \A r \in Runs : Writer(r)'
  BY WriterStep
<1>2. CASE UNCHANGED vars
  BY <1>1, <1>2 DEF vars, durable, local, CreatorInv, Known
<1>3. ASSUME NEW r \in Runs, Step(r) \/ Crash(r) PROVE CreatorInv'
  <2>1. Known(memory) \subseteq Known(memory')
    BY <1>3, StepKeepsMemory DEF MemoryKept
  <2>2. CASE created' = created
    BY <1>1, <2>1, <2>2 DEF CreatorInv, Known
  <2>3. CASE \E i \in Ids \ Known(memory) :
               created' = [created EXCEPT ![r] = @ \cup {i}] /\ i \in Known(memory')
    <3>1. PICK i \in Ids \ Known(memory) :
               created' = [created EXCEPT ![r] = @ \cup {i}] /\ i \in Known(memory')
      BY <2>3
    <3>2. \A s \in Runs : i \notin created[s]
      BY <3>1 DEF CreatorInv
    <3>3. \A s \in Runs : created'[s] = IF s = r THEN created[s] \cup {i} ELSE created[s]
      BY <3>1 DEF TypeOK
    <3>4. \A s \in Runs : created'[s] \subseteq Known(memory')
      BY <2>1, <3>1, <3>3 DEF CreatorInv
    <3>5. ASSUME NEW p \in Runs, NEW q \in Runs, p # q
          PROVE  created'[p] \cap created'[q] = {}
      <4>1. created[p] \cap created[q] = {} /\ i \notin created[p] /\ i \notin created[q]
        BY <3>2, <3>5 DEF CreatorInv
      <4>2. created'[p] = IF p = r THEN created[p] \cup {i} ELSE created[p]
        BY <3>3
      <4>3. created'[q] = IF q = r THEN created[q] \cup {i} ELSE created[q]
        BY <3>3
      <4> QED BY <3>5, <4>1, <4>2, <4>3
    <3> QED BY <1>1, <3>4, <3>5 DEF CreatorInv, Known
  <2> QED BY <1>3, <2>2, <2>3, CreatedStep
<1> QED BY <1>2, <1>3 DEF Next, Quiescent

LEMMA CreatorInvariant == Spec => []CreatorInv
<1>1. Init => CreatorInv
  BY DEF Init, CreatorInv, Writer, Added, HoldsLock
<1> QED BY <1>1, CreatorStep, ScheduleInvariant, PTL DEF Spec

\* No Memory has two writers, and a committed batch added exactly what it
\* found missing: MemoryRepository.add refuses whatever appeared since
\* (commit_pending_experience).
THEOREM OneCreatorEach == Spec => []OneCreator
<1>1. CreatorInv => OneCreator
  BY DEF CreatorInv, Writer, Added, Committed, OneCreator
<1> QED BY <1>1, CreatorInvariant, PTL

-----------------------------------------------------------------------------
(* What a batch builds on.  Its generation is read before its snapshot, so   *)
(* whoever commits in between takes that generation away from it.            *)

Snapshotted == Added \cup {"execute", "load", "validate", "add"}

Sees(r) == \A s \in Committed : gen[s] < gen[r] => Proposed(s) \subseteq Known(input[r])

PredecessorInv ==
  \A r \in Runs :
    /\ pc[r] \in Snapshotted \cup {"snapshot"} => gen[r] <= batchState.committed + 1
    /\ pc[r] \in Snapshotted /\ ~pinned[r] => Sees(r)

\* A step of r leaves alone the plans of the committed runs, and what every run
\* q has read, unless it is the reading itself.
OnSnapshot(r, q) ==
  /\ q \in Committed => plan'[q] = plan[q]
  /\ pc'[q] \in Snapshotted =>
       \/ /\ pc[q] \in Snapshotted
          /\ gen'[q] = gen[q] /\ input'[q] = input[q] /\ pinned'[q] = pinned[q]
       \/ /\ pc[q] = "snapshot" /\ gen'[q] = gen[q]
          /\ input'[q] = memory \/ pinned'[q]
  /\ pc'[q] = "snapshot" =>
       \/ gen'[q] = batchState.committed + 1
       \/ pc[q] = "snapshot" /\ gen'[q] = gen[q]

LEMMA StepOnSnapshot ==
  ASSUME TypeOK, NEW r \in Runs, Step(r) \/ Crash(r), NEW q \in Runs
  PROVE  OnSnapshot(r, q)
<1>1. CASE ReadGeneration(r)
  <2>1. /\ plan' = plan /\ input' = input /\ pinned' = pinned
        /\ \A p \in Runs \ {r} : pc'[p] = pc[p] /\ gen'[p] = gen[p]
        /\ pc'[r] = "snapshot" /\ gen'[r] = batchState.committed + 1
    BY <1>1 DEF ReadGeneration, Goto, TypeOK
  <2>2. pc'[r] \notin Snapshotted
    BY <2>1 DEF Snapshotted, Added, HoldsLock
  <2>3. CASE q = r
    <3>1. OnSnapshot(r, r)
      BY <2>1, <2>2 DEF OnSnapshot
    <3> QED BY <2>3, <3>1
  <2>4. CASE q # r
    BY <2>1, <2>4 DEF OnSnapshot
  <2> QED BY <2>3, <2>4
<1>2. CASE TakeInputSnapshot(r)
  BY <1>2 DEF TakeInputSnapshot, Reloaded, OnSnapshot, Snapshotted, Added, HoldsLock, Committed,
     Working, TypeOK, local, Goto
<1>3. CASE Execute(r)
  BY <1>3 DEF Execute, OnSnapshot, Snapshotted, Added, HoldsLock, Committed, Working, TypeOK, local
<1>4. CASE Discard(r)
  BY <1>4 DEF Discard, OnSnapshot, Snapshotted, Added, HoldsLock, Committed, Working, TypeOK,
     local, Goto
<1>5. CASE LoadBatchState(r)
  BY <1>5 DEF LoadBatchState, OnSnapshot, Snapshotted, Added, HoldsLock, Committed, Working,
     TypeOK, local, Goto
<1>6. CASE ValidateId(r)
  BY <1>6 DEF ValidateId, OnSnapshot, Snapshotted, Added, HoldsLock, Committed, Working, TypeOK,
     local
<1>7. CASE StartAdding(r)
  BY <1>7 DEF StartAdding, OnSnapshot, Snapshotted, Added, HoldsLock, Committed, Working, TypeOK,
     local, Goto
<1>8. CASE AddMemory(r)
  BY <1>8 DEF AddMemory, OnSnapshot, Snapshotted, Added, HoldsLock, Committed, Working, TypeOK,
     local
<1>9. CASE ListDueRounds(r)
  BY <1>9 DEF ListDueRounds, OnSnapshot, Snapshotted, Added, HoldsLock, Committed, Working,
     TypeOK, local
<1>10. CASE BeginRound(r)
  BY <1>10 DEF BeginRound, OnSnapshot, Snapshotted, Added, HoldsLock, Committed, Working, TypeOK,
     local
<1>11. CASE ReviewMemories(r)
  BY <1>11 DEF ReviewMemories, OnSnapshot, Snapshotted, Added, HoldsLock, Committed, Working,
     TypeOK, local, Goto
<1>12. CASE FailRound(r)
  BY <1>12 DEF FailRound, OnSnapshot, Snapshotted, Added, HoldsLock, Committed, Working, TypeOK,
     local
<1>13. CASE ApplyDecision(r)
  BY <1>13 DEF ApplyDecision, OnSnapshot, Snapshotted, Added, HoldsLock, Committed, Working,
     TypeOK, local, Goto
<1>14. CASE RecordRound(r)
  BY <1>14 DEF RecordRound, OnSnapshot, Snapshotted, Added, HoldsLock, Committed, Working, TypeOK,
     local, Goto
<1>15. CASE TakeOutputSnapshot(r)
  BY <1>15 DEF TakeOutputSnapshot, OnSnapshot, Snapshotted, Added, HoldsLock, Committed, Working,
     TypeOK, local
<1>16. CASE CommitState(r)
  BY <1>16 DEF CommitState, OnSnapshot, Snapshotted, Added, HoldsLock, Committed, Working, TypeOK,
     local
<1>17. CASE PublishArtifacts(r)
  BY <1>17 DEF PublishArtifacts, OnSnapshot, Snapshotted, Added, HoldsLock, Committed, Working,
     TypeOK, local, Goto
<1>18. CASE Crash(r)
  BY <1>18 DEF Crash, OnSnapshot, Snapshotted, Added, HoldsLock, Committed, Working, TypeOK, local
<1> QED BY <1>1, <1>2, <1>3, <1>4, <1>5, <1>6, <1>7, <1>8, <1>9, <1>10, <1>11, <1>12, <1>13,
           <1>14, <1>15, <1>16, <1>17, <1>18 DEF Step

LEMMA PredecessorStep ==
  TypeOK /\ GenerationInv /\ ExperienceInv /\ PredecessorInv /\ [Next]_vars
    => PredecessorInv'
<1> SUFFICES ASSUME TypeOK, GenerationInv, ExperienceInv, PredecessorInv, [Next]_vars,
                    NEW q \in Runs
             PROVE  /\ pc'[q] \in Snapshotted \cup {"snapshot"}
                         => gen'[q] <= batchState'.committed + 1
                    /\ pc'[q] \in Snapshotted /\ ~pinned'[q] => Sees(q)'
  BY DEF PredecessorInv
<1>1. CASE UNCHANGED vars
  <2>1. Committed' = Committed /\ \A s \in Runs : Proposed(s)' = Proposed(s)
    BY <1>1, ProposedStable DEF vars, local, Committed
  <2>2. /\ pc' = pc /\ gen' = gen /\ input' = input /\ pinned' = pinned
        /\ batchState' = batchState
    BY <1>1 DEF vars, durable, local
  <2>3. Sees(q) => Sees(q)'
    BY <2>1, <2>2 DEF Sees, Known, Committed
  <2> QED BY <2>2, <2>3 DEF PredecessorInv
<1>2. ASSUME NEW r \in Runs, Step(r) \/ Crash(r)
      PROVE  /\ pc'[q] \in Snapshotted \cup {"snapshot"}
                  => gen'[q] <= batchState'.committed + 1
             /\ pc'[q] \in Snapshotted /\ ~pinned'[q] => Sees(q)'
  <2>1. \A s \in Runs : OnSnapshot(r, s)
    BY <1>2, StepOnSnapshot
  <2>2. \A s \in Committed : Proposed(s)' = Proposed(s)
    <3>1. \A s \in Runs : plan'[s] = plan[s] => Proposed(s)' = Proposed(s)
      BY DEF Proposed, Offered
    <3> QED BY <2>1, <3>1 DEF OnSnapshot, Committed
  <2>3. \A s \in Committed : gen[s] \in Nat /\ gen[s] <= batchState.committed
    BY DEF GenerationInv, TypeOK
  <2>4. gen[q] \in Nat /\ batchState.committed \in Nat
    BY DEF TypeOK
  <2>5. CASE NoCommit
    <3>1. pc'[q] \in Snapshotted \cup {"snapshot"} => gen'[q] <= batchState'.committed + 1
      BY <2>1, <2>4, <2>5 DEF OnSnapshot, NoCommit, PredecessorInv
    <3>2. ASSUME pc'[q] \in Snapshotted, ~pinned'[q], NEW s \in Committed',
                 gen'[s] < gen'[q]
          PROVE  Proposed(s)' \subseteq Known(input[q])'
      <4>1. s \in Committed /\ gen'[s] = gen[s] /\ Proposed(s)' = Proposed(s)
        BY <2>2, <2>5 DEF NoCommit
      <4>2. CASE pc[q] \in Snapshotted /\ gen'[q] = gen[q] /\ input'[q] = input[q]
                 /\ pinned'[q] = pinned[q]
        BY <3>2, <4>1, <4>2 DEF PredecessorInv, Sees, Known
      <4>3. CASE input'[q] = memory
        <5>1. \A i \in Proposed(s) : i \in Known(memory)
          BY <4>1 DEF ExperienceInv, Stage, Stored, Committed
        <5> QED BY <4>1, <4>3, <5>1 DEF Known
      <4> QED BY <2>1, <3>2, <4>2, <4>3 DEF OnSnapshot
    <3> QED BY <3>1, <3>2 DEF Sees
  <2>6. CASE CommitState(r) /\ ~GenerationMoved(r)
    <3>1. /\ Committed' = Committed \cup {r} /\ gen' = gen /\ input' = input
          /\ pinned' = pinned /\ gen[r] = batchState.committed + 1
          /\ batchState'.committed = batchState.committed + 1
      BY <2>6 DEF CommitState, GenerationMoved, Committed, local, TypeOK
    <3>2. /\ pc'[q] \in Snapshotted => pc[q] \in Snapshotted
          /\ pc'[q] = "snapshot" => pc[q] = "snapshot"
      BY <2>6 DEF CommitState, Snapshotted, Added, HoldsLock, TypeOK
    <3>3. pc'[q] \in Snapshotted \cup {"snapshot"} => gen[q] <= batchState.committed + 1
      BY <3>2 DEF PredecessorInv
    <3>4. ASSUME pc'[q] \in Snapshotted, ~pinned[q], NEW s \in Committed, gen[s] < gen[q]
          PROVE  Proposed(s)' \subseteq Known(input[q])'
      BY <2>2, <3>1, <3>2, <3>4 DEF PredecessorInv, Sees, Known
    <3>5. pc'[q] \in Snapshotted => ~(gen[r] < gen[q])
      BY <2>4, <3>1, <3>3
    <3> QED BY <2>4, <3>1, <3>3, <3>4, <3>5 DEF Sees
  <2> QED BY <1>2, <2>5, <2>6, StepCommitsOrNot
<1> QED BY <1>1, <1>2 DEF Next, Quiescent

LEMMA PredecessorInvariant == Spec => []PredecessorInv
<1>1. Init => PredecessorInv
  BY DEF Init, PredecessorInv, Snapshotted, Added, HoldsLock
<1>2. ScheduleIInv /\ GenerationInv /\ ExperienceInv /\ PredecessorInv /\ [Next]_vars
        => PredecessorInv'
  BY PredecessorStep DEF ScheduleIInv
<1> QED
  BY <1>1, <1>2, ScheduleInvariant, GenerationInvariant, ExperienceInvariant, PTL DEF Spec

\* A batch ran on the experience of all generations before its own, unless the
\* operator pinned another snapshot (resolve_memory, commit_memory_state).
THEOREM BatchesBuildOnPredecessors == Spec => []BuiltOnPredecessors
<1>1. PredecessorInv => BuiltOnPredecessors
  BY DEF PredecessorInv, Sees, Snapshotted, Added, Committed, BuiltOnPredecessors
<1> QED BY <1>1, PredecessorInvariant, PTL

-----------------------------------------------------------------------------
(* The runs implement the ledger of batches.  The output snapshot of a batch *)
(* holds the Memory of every generation before its own: it is taken after    *)
(* the generation was read, so whoever commits in between makes this batch   *)
(* lose its generation instead of publishing without that Memory.            *)

Publishing == {"commit", "publish", "done", "lost"}

LedgerInv ==
  /\ \A g \in 1..batchState.committed : \E s \in Committed : gen[s] = g
  /\ \A r \in Runs : pc[r] \in Publishing =>
       /\ Known(output[r]) \subseteq Known(memory)
       /\ \A s \in Committed :
            gen[s] < gen[r] => Known(output[s]) \subseteq Known(output[r])

\* A run that publishes after a step did so before and keeps its output and its
\* generation, or has just taken its output snapshot.
StepOnOutput(r, q) ==
  pc'[q] \in Publishing =>
    /\ gen'[q] = gen[q]
    /\ \/ pc[q] \in Publishing /\ output'[q] = output[q]
       \/ pc[q] = "rounds" /\ output'[q] = memory /\ memory' = memory

LEMMA OutputStep ==
  ASSUME TypeOK, NEW r \in Runs, Step(r) \/ Crash(r), NEW q \in Runs
  PROVE  StepOnOutput(r, q)
<1>1. CASE ReadGeneration(r)
  BY <1>1 DEF ReadGeneration, Goto, StepOnOutput, Publishing, TypeOK, local
<1>2. CASE TakeInputSnapshot(r)
  BY <1>2 DEF TakeInputSnapshot, Goto, StepOnOutput, Publishing, TypeOK, local
<1>3. CASE Execute(r)
  BY <1>3 DEF Execute, StepOnOutput, Publishing, TypeOK, local
<1>4. CASE Discard(r)
  BY <1>4 DEF Discard, Goto, StepOnOutput, Publishing, TypeOK, local
<1>5. CASE LoadBatchState(r)
  BY <1>5 DEF LoadBatchState, Goto, StepOnOutput, Publishing, TypeOK, local
<1>6. CASE ValidateId(r)
  BY <1>6 DEF ValidateId, StepOnOutput, Publishing, TypeOK, local
<1>7. CASE StartAdding(r)
  BY <1>7 DEF StartAdding, Goto, StepOnOutput, Publishing, TypeOK, local
<1>8. CASE AddMemory(r)
  BY <1>8 DEF AddMemory, StepOnOutput, Publishing, TypeOK, local
<1>9. CASE ListDueRounds(r)
  BY <1>9 DEF ListDueRounds, StepOnOutput, Publishing, TypeOK, local
<1>10. CASE BeginRound(r)
  BY <1>10 DEF BeginRound, StepOnOutput, Publishing, TypeOK, local
<1>11. CASE ReviewMemories(r)
  BY <1>11 DEF ReviewMemories, Goto, StepOnOutput, Publishing, TypeOK, local
<1>12. CASE FailRound(r)
  BY <1>12 DEF FailRound, StepOnOutput, Publishing, TypeOK, local
<1>13. CASE ApplyDecision(r)
  BY <1>13 DEF ApplyDecision, Goto, StepOnOutput, Publishing, TypeOK, local
<1>14. CASE RecordRound(r)
  BY <1>14 DEF RecordRound, Goto, StepOnOutput, Publishing, TypeOK, local
<1>15. CASE TakeOutputSnapshot(r)
  BY <1>15 DEF TakeOutputSnapshot, Reloaded, StepOnOutput, Publishing, TypeOK, local, durable
<1>16. CASE CommitState(r)
  BY <1>16 DEF CommitState, StepOnOutput, Publishing, TypeOK, local
<1>17. CASE PublishArtifacts(r)
  BY <1>17 DEF PublishArtifacts, Goto, StepOnOutput, Publishing, TypeOK, local
<1>18. CASE Crash(r)
  BY <1>18 DEF Crash, StepOnOutput, Publishing, TypeOK, local
<1> QED BY <1>1, <1>2, <1>3, <1>4, <1>5, <1>6, <1>7, <1>8, <1>9, <1>10, <1>11, <1>12, <1>13,
           <1>14, <1>15, <1>16, <1>17, <1>18 DEF Step

LEMMA LedgerStep ==
  ScheduleIInv /\ GenerationInv /\ PredecessorInv /\ LedgerInv /\ [Next]_vars => LedgerInv'
<1> SUFFICES ASSUME TypeOK, ScheduleInv, GenerationInv, PredecessorInv, LedgerInv, [Next]_vars
             PROVE  LedgerInv'
  BY DEF ScheduleIInv
<1>1. CASE UNCHANGED vars
  BY <1>1 DEF vars, durable, local, LedgerInv, Committed, Known
<1>2. ASSUME NEW r \in Runs, Step(r) \/ Crash(r) PROVE LedgerInv'
  <2>1. Known(memory) \subseteq Known(memory)'
    BY <1>2, StepKeepsMemory DEF MemoryKept, Known
  <2>2. \A q \in Runs : StepOnOutput(r, q)
    BY <1>2, OutputStep
  <2>3. NoCommit \/ (CommitState(r) /\ ~GenerationMoved(r))
    BY <1>2, StepCommitsOrNot
  <2>4. \A s \in Committed : s \in Runs /\ pc[s] \in Publishing
    BY DEF Committed, Publishing
  <2>5. ASSUME NEW q \in Runs, pc'[q] \in Publishing
        PROVE  /\ gen'[q] = gen[q]
               /\ Known(output[q])' \subseteq Known(memory)'
               /\ \A s \in Committed :
                    gen[s] < gen[q] => Known(output[s]) \subseteq Known(output[q])'
    <3>1. CASE pc[q] \in Publishing /\ output'[q] = output[q]
      BY <2>1, <2>2, <2>5, <3>1 DEF StepOnOutput, LedgerInv, Known
    <3>2. CASE output'[q] = memory /\ memory' = memory
      BY <2>2, <2>4, <2>5, <3>2 DEF StepOnOutput, LedgerInv, Known
    <3> QED BY <2>2, <2>5, <3>1, <3>2 DEF StepOnOutput
  <2>6. CASE NoCommit
    <3>1. ASSUME NEW s \in Committed' PROVE output'[s] = output[s] /\ gen'[s] = gen[s]
      <4>1. s \in Runs /\ pc[s] \in {"publish", "done", "lost"} /\ pc'[s] \in Publishing
        BY <2>6, <3>1 DEF NoCommit, Committed, Publishing
      <4> QED BY <2>2, <4>1 DEF StepOnOutput
    <3> QED BY <2>5, <2>6, <3>1 DEF NoCommit, LedgerInv, Known
  <2>7. CASE CommitState(r) /\ ~GenerationMoved(r)
    <3>1. /\ Committed' = Committed \cup {r} /\ gen' = gen /\ output' = output
          /\ gen[r] = batchState.committed + 1 /\ batchState'.committed = gen[r]
      BY <2>7 DEF CommitState, GenerationMoved, Committed, local, TypeOK
    <3>2. batchState.committed \in Nat
      BY DEF TypeOK
    <3>3. \A g \in 1..batchState'.committed : \E s \in Committed' : gen'[s] = g
      BY <3>1, <3>2 DEF LedgerInv
    <3>4. ASSUME NEW q \in Runs, pc'[q] \in Publishing PROVE ~(gen[r] < gen[q])
      <4>1. pc[q] \in Snapshotted
        BY <2>7, <3>4 DEF CommitState, Publishing, Snapshotted, Added, HoldsLock, TypeOK
      <4>2. gen[q] <= batchState.committed + 1 /\ gen[q] \in Nat
        BY <4>1 DEF PredecessorInv, TypeOK
      <4> QED BY <3>1, <3>2, <4>2
    <3> QED BY <2>5, <3>1, <3>3, <3>4 DEF LedgerInv, Known
  <2> QED BY <2>3, <2>6, <2>7
<1> QED BY <1>1, <1>2 DEF Next, Quiescent

LEMMA LedgerInvariant == Spec => []LedgerInv
<1>1. Init => LedgerInv
  BY DEF Init, LedgerInv, Publishing
<1> QED
  BY <1>1, LedgerStep, ScheduleInvariant, GenerationInvariant, PredecessorInvariant, PTL DEF Spec

\* A function on 1..n is a sequence, and one that agrees with it and has one more
\* value is that sequence with the value appended.
LEMMA AppendedFunction ==
  ASSUME NEW S, NEW n \in Nat, NEW f \in [1..n -> S], NEW h \in [1..(n + 1) -> S],
         \A i \in 1..n : h[i] = f[i]
  PROVE  /\ f \in Seq(S) /\ Len(f) = n /\ h = Append(f, h[n + 1])
         /\ n = 0 <=> f = <<>>
<1>1. f \in Seq(S) /\ Len(f) = n
  OBVIOUS
<1>2. h \in Seq(S) /\ Len(h) = n + 1 /\ h[n + 1] \in S
  OBVIOUS
<1>3. /\ Append(f, h[n + 1]) \in Seq(S) /\ Len(Append(f, h[n + 1])) = n + 1
      /\ \A i \in 1..n : Append(f, h[n + 1])[i] = f[i]
      /\ Append(f, h[n + 1])[n + 1] = h[n + 1]
  BY <1>1, <1>2, AppendProperties
<1>4. \A i \in 1..(n + 1) : h[i] = Append(f, h[n + 1])[i]
  <2>1. \A i \in 1..(n + 1) : i \in 1..n \/ i = n + 1
    OBVIOUS
  <2> QED BY <1>3, <2>1
<1>5. h = Append(f, h[n + 1])
  BY <1>2, <1>3, <1>4
<1> QED BY <1>1, <1>5

\* A committed batch is the batch of its generation.
LEMMA BatchOfItsGeneration ==
  ASSUME GenerationInv, NEW s \in Committed
  PROVE  BatchOf(gen[s]) = s
BY DEF GenerationInv, BatchOf

\* What the ledger holds of a batch.
Entry(r, content) == [tasks |-> BatchSize[r], known |-> Known(content)]
Entries == [g \in 1..batchState.committed |-> Entry(BatchOf(g), output[BatchOf(g)])]

LEMMA EntriesTyped ==
  ASSUME TypeOK, LedgerInv
  PROVE  Entries \in [1..batchState.committed -> [tasks : Nat, known : SUBSET Ids]]
<1>1. ASSUME NEW g \in 1..batchState.committed PROVE BatchOf(g) \in Runs
  BY <1>1 DEF LedgerInv, BatchOf, Committed
<1>2. \A r \in Runs : Entry(r, output[r]) \in [tasks : Nat, known : SUBSET Ids]
  BY BatchSizeAssumption DEF Entry, Known
<1> QED BY <1>1, <1>2 DEF Entries

LEMMA InitIsEmptyLedger == Init => Ledger!Init
<1> SUFFICES ASSUME Init PROVE Ledger!Init
  OBVIOUS
<1>1. batchState.committed = 0 /\ batchState.completed = 0 /\ doneRounds = {}
  BY DEF Init
<1>2. Cardinality(doneRounds) = 0
  BY <1>1, FS_EmptySet
<1> QED BY <1>1, <1>2 DEF Ledger!Init

\* The commit of a batch appends its entry to the ledger.
LEMMA CommitAppends ==
  ASSUME TypeOK, TypeOK', GenerationInv, GenerationInv', LedgerInv, LedgerInv',
         NEW r \in Runs, CommitState(r), ~GenerationMoved(r)
  PROVE  Ledger!CommitBatch
<1>0. PICK n \in Nat : batchState.committed = n
  BY DEF TypeOK
<1>1. /\ gen[r] = n + 1 /\ batchState'.committed = n + 1
      /\ batchState'.completed = batchState.completed + BatchSize[r]
      /\ gen' = gen /\ output' = output /\ doneRounds' = doneRounds
      /\ Committed' = Committed \cup {r} /\ pc[r] = "commit"
  BY <1>0 DEF CommitState, GenerationMoved, Committed, local, TypeOK
<1>2. ASSUME NEW g, NEW s \in Committed', gen[s] = g PROVE BatchOf(g)' = s
  BY <1>1, <1>2 DEF GenerationInv, BatchOf
<1>3. ASSUME NEW g \in 1..n PROVE BatchOf(g)' = BatchOf(g) /\ BatchOf(g) \in Committed
  <2>1. PICK s \in Committed : gen[s] = g
    BY <1>0, <1>3 DEF LedgerInv
  <2>2. BatchOf(g) = s
    BY <2>1, BatchOfItsGeneration
  <2>3. BatchOf(g)' = s
    BY <1>1, <1>2, <2>1
  <2> QED BY <2>1, <2>2, <2>3
<1>4. BatchOf(n + 1)' = r
  BY <1>1, <1>2
<1>5. Entries \in [1..n -> [tasks : Nat, known : SUBSET Ids]]
  BY <1>0, EntriesTyped
<1>6. /\ Entries' = [g \in 1..(n + 1) |-> Entry(BatchOf(g)', output[BatchOf(g)'])]
      /\ Entries = [g \in 1..n |-> Entry(BatchOf(g), output[BatchOf(g)])]
  BY <1>0, <1>1 DEF Entries
<1>7. \A g \in 1..n : g \in 1..(n + 1) /\ Entries'[g] = Entries[g]
  BY <1>3, <1>6
<1>8. Entries'[n + 1] = Entry(r, output[r])
  BY <1>4, <1>6
<1>9. /\ Entries' = Append(Entries, Entry(r, output[r])) /\ Len(Entries) = n
      /\ n = 0 <=> Entries = <<>>
  <2>1. Entry(r, output[r]) \in [tasks : Nat, known : SUBSET Ids]
    BY BatchSizeAssumption DEF Entry, Known
  <2>2. \A g \in 1..(n + 1) : g \in 1..n \/ g = n + 1
    OBVIOUS
  <2>3. \A g \in 1..(n + 1) : Entries'[g] \in [tasks : Nat, known : SUBSET Ids]
    BY <1>5, <1>7, <1>8, <2>1, <2>2
  <2>4. Entries' \in [1..(n + 1) -> [tasks : Nat, known : SUBSET Ids]]
    BY <1>6, <2>3
  <2> QED BY <1>5, <1>7, <1>8, <2>4, AppendedFunction
<1>10. n # 0 => Entries[n].known \subseteq Known(output[r])
  <2> SUFFICES ASSUME n # 0 PROVE Known(output[BatchOf(n)]) \subseteq Known(output[r])
    BY <1>0 DEF Entries, Entry
  <2>1. PICK s \in Committed : gen[s] = n
    BY <1>0 DEF LedgerInv
  <2>2. BatchOf(n) = s
    BY <2>1, BatchOfItsGeneration
  <2> QED BY <1>1, <2>1, <2>2 DEF LedgerInv, Publishing
<1>11. /\ BatchSize[r] \in {BatchSize[q] : q \in Runs}
       /\ Known(output[r]) \in SUBSET Ids
  BY DEF Known
<1> QED BY <1>1, <1>9, <1>10, <1>11 DEF Ledger!CommitBatch, Entries, Entry

\* Steps that commit nothing leave every entry as it is.
LEMMA EntriesKept ==
  ASSUME TypeOK, GenerationInv, GenerationInv', LedgerInv, NoCommit,
         \A s \in Committed : output'[s] = output[s]
  PROVE  Entries' = Entries
<1>1. \A g \in 1..batchState.committed :
        BatchOf(g)' = BatchOf(g) /\ output'[BatchOf(g)] = output[BatchOf(g)]
  <2>1. SUFFICES ASSUME NEW g, g \in 1..batchState.committed
                 PROVE  BatchOf(g)' = BatchOf(g) /\ output'[BatchOf(g)] = output[BatchOf(g)]
    OBVIOUS
  <2>2. PICK s \in Committed : gen[s] = g
    BY <2>1 DEF LedgerInv
  <2>3. BatchOf(g) = s
    BY <2>2, BatchOfItsGeneration
  <2>4. s \in Committed' /\ gen'[s] = g
    BY <2>2 DEF NoCommit
  <2>5. BatchOf(g)' = s
    BY <2>4 DEF GenerationInv, BatchOf
  <2> QED BY <2>2, <2>3, <2>5
<1>2. batchState' = batchState
  BY DEF NoCommit
<1> QED BY <1>1, <1>2 DEF Entries

\* Every step of a run is a step of the ledger or leaves the ledger alone.
LEMMA StepMapsToLedger ==
  ASSUME TypeOK, TypeOK', ScheduleInv, GenerationInv, GenerationInv', LedgerInv, LedgerInv',
         NEW r \in Runs, Step(r) \/ Crash(r)
  PROVE  Ledger!Next \/ UNCHANGED Ledger!vars
<1>1. CASE CommitState(r) /\ ~GenerationMoved(r)
  BY <1>1, CommitAppends DEF Ledger!Next
<1>2. CASE NoCommit
  <2>1. \A s \in Committed : output'[s] = output[s]
    <3> SUFFICES ASSUME NEW s \in Committed PROVE output'[s] = output[s]
      OBVIOUS
    <3>1. /\ s \in Runs /\ pc'[s] \in Publishing /\ pc[s] # "rounds"
      BY <1>2 DEF NoCommit, Committed, Publishing
    <3> QED BY <3>1, OutputStep DEF StepOnOutput
  <2>2. Entries' = Entries /\ batchState' = batchState
    BY <1>2, <2>1, EntriesKept DEF NoCommit
  <2>3. CASE RecordRound(r)
    <3>1. PICK n \in Nat : Frontier(n)
      BY DEF ScheduleInv
    <3>2. NextRound(r) = n + 1
      BY <2>3, <3>1, HolderAtFrontier DEF ScheduleInv, RecordRound, Goto, HoldsLock
    <3>3. doneRounds = 1..n /\ doneRounds' = 1..(n + 1)
      BY <2>3, <3>1, <3>2 DEF RecordRound, Frontier
    <3>4. Cardinality(1..n) = n /\ Cardinality(1..(n + 1)) = n + 1
      BY FS_Interval
    <3>5. Cardinality(doneRounds)' = Cardinality(doneRounds) + 1
      BY <3>3, <3>4
    <3> QED BY <2>2, <3>5 DEF Ledger!Next, Ledger!CompleteRound, Entries, Entry
  <2>4. CASE ~RecordRound(r)
    <3>1. doneRounds' = doneRounds
      BY <2>4 DEF Step, durable, ReadGeneration, TakeInputSnapshot, Execute, Discard,
         LoadBatchState, ValidateId, StartAdding, AddMemory, ListDueRounds, BeginRound,
         ReviewMemories, FailRound, ApplyDecision, TakeOutputSnapshot, CommitState,
         PublishArtifacts, Crash
    <3> QED BY <2>2, <3>1 DEF Ledger!vars, Entries, Entry
  <2> QED BY <2>3, <2>4
<1> QED BY <1>1, <1>2, StepCommitsOrNot

\* However the runs of a namespace overlap, abort and die, to its users it is an
\* append-only ledger: a batch commits at the end of it and publishes all ids
\* the batch before it published, and maintenance completes round by round
\* (commit_memory_state, resolve_memory, complete_maintenance_round).
THEOREM RunsImplementLedger == Spec => ImplementsLedger
<1> DEFINE Inv == TypeOK /\ ScheduleInv /\ GenerationInv /\ LedgerInv
<1>1. Spec => []Inv
  <2>1. ScheduleIInv /\ GenerationInv /\ LedgerInv => Inv
    BY DEF ScheduleIInv
  <2> QED BY <2>1, ScheduleInvariant, GenerationInvariant, LedgerInvariant, PTL
<1>2. Inv /\ Inv' /\ [Next]_vars => [Ledger!Next]_(Ledger!vars)
  <2> SUFFICES ASSUME Inv, Inv', [Next]_vars PROVE Ledger!Next \/ UNCHANGED Ledger!vars
    OBVIOUS
  <2>1. CASE UNCHANGED vars
    <3>1. NoCommit
      BY <2>1 DEF vars, durable, local, NoCommit, Committed
    <3>2. Entries' = Entries
      BY <2>1, <3>1, EntriesKept DEF vars, local
    <3> QED BY <2>1, <3>2 DEF vars, durable, Ledger!vars, Entries, Entry
  <2>2. ASSUME NEW r \in Runs, Step(r) \/ Crash(r) PROVE Ledger!Next \/ UNCHANGED Ledger!vars
    BY <2>2, StepMapsToLedger
  <2> QED BY <2>1, <2>2 DEF Next, Quiescent
<1> QED
  BY <1>1, <1>2, InitIsEmptyLedger, PTL DEF Spec, ImplementsLedger, Ledger!Spec

-----------------------------------------------------------------------------
(* Runs come to an end: the part of EveryRunEnds that needs no fairness.     *)

\* How far the program still has to go, and what is left to do where it is.
StageLeft(r) ==
  CASE pc[r] \in Ended -> 0
    [] pc[r] = "publish" -> 1
    [] pc[r] = "commit" -> 2
    [] pc[r] \in HoldsLock \cup {"rounds"} -> 3
    [] pc[r] = "add" -> 4
    [] pc[r] = "validate" -> 5
    [] pc[r] \in {"load", "discard"} -> 6
    [] pc[r] = "execute" -> 7
    [] pc[r] = "snapshot" -> 8
    [] OTHER -> 9

WorkLeft(r) ==
  CASE pc[r] \in {"validate", "add"} -> Cardinality(todo[r])
    [] pc[r] = "rounds" -> 4 * Cardinality(due[r]) + 3
    [] pc[r] = "review" -> 4 * Cardinality(due[r]) + 2
    [] pc[r] = "apply" -> 4 * Cardinality(due[r]) + 1
    [] pc[r] = "record" -> 4 * Cardinality(due[r])
    [] OTHER -> 0

\* What is left is a natural number, and less than before at the same stage.
Nearer(r) ==
  /\ StageLeft(r)' \in Nat /\ StageLeft(r) \in Nat /\ WorkLeft(r) \in Nat /\ WorkLeft(r)' \in Nat
  /\ StageLeft(r)' < StageLeft(r) \/ (StageLeft(r)' = StageLeft(r) /\ WorkLeft(r)' < WorkLeft(r))

NotMoved(q) == StageLeft(q)' = StageLeft(q) /\ WorkLeft(q)' = WorkLeft(q)

\* The list of due rounds is finite: it is an interval.
LEMMA DueFinite ==
  ASSUME TypeOK, ScheduleInv, NEW r \in Runs
  PROVE  IsFiniteSet(due[r])
<1>1. PICK n \in Nat : DueFrom(r, n)
  BY DEF ScheduleInv, Frontier
<1>2. \A k \in Int : IsFiniteSet(k..LatestRound(r))
  BY LatestRoundNat, FS_Interval
<1>3. due[r] = {} \/ \E k \in Int : due[r] = k..LatestRound(r)
  BY <1>1 DEF DueFrom
<1>4. IsFiniteSet({})
  BY FS_EmptySet
<1> QED BY <1>2, <1>3, <1>4

\* What is left can be counted.
LEMMA LeftIsNat ==
  ASSUME IsFiniteSet(Ids), TypeOK, ScheduleInv, NEW r \in Runs
  PROVE  /\ StageLeft(r) \in Nat /\ WorkLeft(r) \in Nat
         /\ IsFiniteSet(todo[r]) /\ Cardinality(todo[r]) \in Nat
         /\ IsFiniteSet(due[r]) /\ Cardinality(due[r]) \in Nat
<1>1. IsFiniteSet(todo[r]) /\ Cardinality(todo[r]) \in Nat
  BY FS_Subset, FS_CardinalityType DEF TypeOK
<1>2. IsFiniteSet(due[r]) /\ Cardinality(due[r]) \in Nat
  BY DueFinite, FS_CardinalityType
<1>3. StageLeft(r) \in Nat
  BY DEF StageLeft
<1>4. WorkLeft(r) \in Nat
  BY <1>1, <1>2 DEF WorkLeft
<1> QED BY <1>1, <1>2, <1>3, <1>4

\* Each action of a run brings it nearer to its end, one case per action.
LEMMA StepNearer ==
  ASSUME IsFiniteSet(Ids), TypeOK, ScheduleInv, NEW r \in Runs, Step(r) \/ Crash(r)
  PROVE  \/ StageLeft(r)' < StageLeft(r)
         \/ StageLeft(r)' = StageLeft(r) /\ WorkLeft(r)' < WorkLeft(r)
<1> USE DEF Ended, HoldsLock
<1>0. /\ IsFiniteSet(todo[r]) /\ Cardinality(todo[r]) \in Nat
      /\ IsFiniteSet(due[r]) /\ Cardinality(due[r]) \in Nat
  BY LeftIsNat
<1>a. ASSUME NEW S, IsFiniteSet(S), NEW x \in S PROVE Cardinality(S \ {x}) = Cardinality(S) - 1
  BY <1>a, FS_RemoveElement
<1>b. Cardinality({}) = 0
  BY FS_EmptySet
<1>1. CASE ReadGeneration(r)
  BY <1>1 DEF ReadGeneration, Goto, StageLeft, TypeOK, local
<1>2. CASE TakeInputSnapshot(r)
  BY <1>2 DEF TakeInputSnapshot, Goto, StageLeft, TypeOK, local
<1>3. CASE Execute(r)
  BY <1>3 DEF Execute, StageLeft, TypeOK, local
<1>4. CASE Discard(r)
  BY <1>4 DEF Discard, Goto, StageLeft, TypeOK, local
<1>5. CASE LoadBatchState(r)
  BY <1>5 DEF LoadBatchState, Goto, StageLeft, TypeOK, local
<1>6. CASE ValidateId(r)
  <2>1. PICK i \in todo[r] :
          IF Conflicting(r, i) THEN pc' = [pc EXCEPT ![r] = "aborted"]
          ELSE pc' = pc /\ todo' = [todo EXCEPT ![r] = @ \ {i}]
    BY <1>6 DEF ValidateId
  <2>2. pc[r] = "validate"
    BY <1>6 DEF ValidateId
  <2>3. CASE pc'[r] = "aborted"
    BY <2>2, <2>3 DEF StageLeft
  <2>4. CASE pc'[r] = "validate" /\ todo'[r] = todo[r] \ {i}
    <3>1. Cardinality(todo'[r]) = Cardinality(todo[r]) - 1
      BY <1>0, <1>a, <2>4
    <3> QED BY <1>0, <2>2, <2>4, <3>1 DEF StageLeft, WorkLeft
  <2> QED BY <2>1, <2>2, <2>3, <2>4 DEF TypeOK
<1>7. CASE StartAdding(r)
  BY <1>7 DEF StartAdding, Goto, StageLeft, TypeOK, local
<1>8. CASE AddMemory(r)
  <2>1. PICK i \in todo[r] :
          IF Duplicate(i) THEN pc' = [pc EXCEPT ![r] = "aborted"]
          ELSE pc' = pc /\ todo' = [todo EXCEPT ![r] = @ \ {i}]
    BY <1>8 DEF AddMemory
  <2>2. pc[r] = "add"
    BY <1>8 DEF AddMemory
  <2>3. CASE pc'[r] = "aborted"
    BY <2>2, <2>3 DEF StageLeft
  <2>4. CASE pc'[r] = "add" /\ todo'[r] = todo[r] \ {i}
    <3>1. Cardinality(todo'[r]) = Cardinality(todo[r]) - 1
      BY <1>0, <1>a, <2>4
    <3> QED BY <1>0, <2>2, <2>4, <3>1 DEF StageLeft, WorkLeft
  <2> QED BY <2>1, <2>2, <2>3, <2>4 DEF TypeOK
<1>9. CASE ListDueRounds(r)
  BY <1>9 DEF ListDueRounds, StageLeft, TypeOK, local
<1>10. CASE BeginRound(r)
  <2>1. pc[r] = "rounds" /\ due[r] # {}
    BY <1>10 DEF BeginRound
  <2>2. CASE pc'[r] = "review" /\ due'[r] = due[r]
    BY <1>0, <2>1, <2>2 DEF StageLeft, WorkLeft
  <2>3. CASE pc'[r] = "rounds" /\ due'[r] = {}
    <3>1. Cardinality(due[r]) # 0
      BY <1>0, <2>1, FS_EmptySet
    <3> QED BY <1>0, <1>b, <2>1, <2>3, <3>1 DEF StageLeft, WorkLeft
  <2>4. CASE pc'[r] = "rounds" /\ due'[r] = due[r] \ {NextRound(r)}
    <3>1. NextRound(r) \in due[r]
      <4>1. PICK n \in Nat : Frontier(n)
        BY DEF ScheduleInv
      <4>2. PICK k \in 1..(n + 1) : k <= LatestRound(r) /\ due[r] = k..LatestRound(r)
        BY <2>1, <4>1 DEF Frontier, DueFrom
      <4>3. LatestRound(r) \in Nat /\ k \in due[r]
        BY <4>2, LatestRoundNat
      <4> QED BY <4>2, <4>3, NextRoundOfInterval
    <3>2. Cardinality(due'[r]) = Cardinality(due[r]) - 1
      BY <1>0, <1>a, <2>4, <3>1
    <3> QED BY <1>0, <2>1, <2>4, <3>2 DEF StageLeft, WorkLeft
  <2> QED BY <1>10, <2>2, <2>3, <2>4 DEF BeginRound, TypeOK
<1>11. CASE ReviewMemories(r)
  <2>1. pc[r] = "review" /\ pc'[r] = "apply" /\ due'[r] = due[r]
    BY <1>11 DEF ReviewMemories, Goto, TypeOK
  <2> QED BY <1>0, <2>1 DEF StageLeft, WorkLeft
<1>12. CASE FailRound(r)
  <2>1. pc[r] \in HoldsLock /\ pc'[r] = "rounds" /\ due'[r] = {}
    BY <1>12 DEF FailRound, TypeOK
  <2>2. due[r] # {}
    <3>1. PICK n \in Nat : Frontier(n)
      BY DEF ScheduleInv
    <3>2. n + 1 <= LatestRound(r) /\ due[r] = (n + 1)..LatestRound(r)
      BY <2>1, <3>1, HolderAtFrontier
    <3> QED BY <3>2, LatestRoundNat
  <2>3. Cardinality(due[r]) # 0
    BY <1>0, <2>2, FS_EmptySet
  <2> QED BY <1>0, <1>b, <2>1, <2>3 DEF StageLeft, WorkLeft
<1>13. CASE ApplyDecision(r)
  <2>1. pc[r] = "apply" /\ pc'[r] = "record" /\ due'[r] = due[r]
    BY <1>13 DEF ApplyDecision, Goto, local, TypeOK
  <2> QED BY <1>0, <2>1 DEF StageLeft, WorkLeft
<1>14. CASE RecordRound(r)
  <2>1. pc[r] = "record" /\ pc'[r] = "rounds" /\ due'[r] = due[r] \ {NextRound(r)}
    BY <1>14 DEF RecordRound, Goto, TypeOK
  <2>2. NextRound(r) \in due[r]
    <3>1. PICK n \in Nat : Frontier(n)
      BY DEF ScheduleInv
    <3>2. NextRound(r) = n + 1 /\ n + 1 <= LatestRound(r) /\ due[r] = (n + 1)..LatestRound(r)
      BY <2>1, <3>1, HolderAtFrontier
    <3> QED BY <3>2, LatestRoundNat
  <2>3. Cardinality(due'[r]) = Cardinality(due[r]) - 1
    BY <1>0, <1>a, <2>1, <2>2
  <2> QED BY <1>0, <2>1, <2>3 DEF StageLeft, WorkLeft
<1>15. CASE TakeOutputSnapshot(r)
  BY <1>15 DEF TakeOutputSnapshot, StageLeft, TypeOK, local
<1>16. CASE CommitState(r)
  BY <1>16 DEF CommitState, StageLeft, TypeOK, local
<1>17. CASE PublishArtifacts(r)
  BY <1>17 DEF PublishArtifacts, Goto, StageLeft, TypeOK, local
<1>18. CASE Crash(r)
  <2>1. pc[r] \in Working /\ pc'[r] \in {"lost", "crashed"}
    BY <1>18 DEF Crash, TypeOK
  <2> QED BY <2>1 DEF Working, StageLeft
<1> QED BY <1>1, <1>2, <1>3, <1>4, <1>5, <1>6, <1>7, <1>8, <1>9, <1>10, <1>11, <1>12, <1>13,
           <1>14, <1>15, <1>16, <1>17, <1>18 DEF Step

\* Left to itself, a run ends after finitely many steps: each one leads to a later
\* stage of run_batch or leaves less to do at this one, however long the lists of
\* Memories and of due rounds are, whatever fails, and whatever the other runs do,
\* which leave alone what this one has to do.
THEOREM RunsComeToAnEnd ==
  ASSUME IsFiniteSet(Ids)
  PROVE  Spec => [][\E r \in Runs : Nearer(r) /\ \A q \in Runs \ {r} : NotMoved(q)]_vars
<1> DEFINE Counted == \A r \in Runs : StageLeft(r) \in Nat /\ WorkLeft(r) \in Nat
<1>1. Spec => [](ScheduleIInv /\ Counted)
  <2>1. ScheduleIInv => Counted
    BY LeftIsNat DEF ScheduleIInv
  <2> HIDE DEF Counted
  <2> QED BY <2>1, ScheduleInvariant, PTL
<1>2. ScheduleIInv /\ Counted /\ Counted' /\ [Next]_vars
        => [\E r \in Runs : Nearer(r) /\ \A q \in Runs \ {r} : NotMoved(q)]_vars
  <2> SUFFICES ASSUME ScheduleIInv, Counted, Counted', NEW r \in Runs, Step(r) \/ Crash(r)
               PROVE  Nearer(r) /\ \A q \in Runs \ {r} : NotMoved(q)
    BY DEF Next, Quiescent
  <2>1. Nearer(r)
    BY StepNearer DEF Nearer, ScheduleIInv
  <2>2. ASSUME NEW q \in Runs \ {r} PROVE NotMoved(q)
    <3>1. pc'[q] = pc[q] /\ todo'[q] = todo[q] /\ due'[q] = due[q]
      BY DEF ScheduleIInv, Step, TypeOK, local, Goto, ReadGeneration, TakeInputSnapshot, Execute,
         Discard, LoadBatchState, ValidateId, StartAdding, AddMemory, ListDueRounds, BeginRound,
         ReviewMemories, FailRound, ApplyDecision, RecordRound, TakeOutputSnapshot, CommitState,
         PublishArtifacts, Crash
    <3> QED BY <3>1 DEF NotMoved, StageLeft, WorkLeft
  <2> QED BY <2>1, <2>2
<1> HIDE DEF Counted
<1> QED BY <1>1, <1>2, PTL DEF Spec
=============================================================================
