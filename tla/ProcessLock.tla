----------------------------- MODULE ProcessLock -----------------------------
(***************************************************************************)
(* The reentrant lock that threads of several processes share             *)
(* (src/tau3_evolver/persistence/locking.py).                              *)
(*                                                                         *)
(* A process has one ReentrantFileLock per resource: an RLock that its     *)
(* threads take first, a depth, and an open file that carries the lock of  *)
(* the operating system while the depth is not 0.  The operating system    *)
(* drops the lock of a process that dies.                                  *)
(***************************************************************************)
EXTENDS Integers

CONSTANTS
  Threads,    \* threads that use the lock
  Processes,  \* the processes they belong to
  ProcessOf,  \* ProcessOf[t]: the process of the thread t
  Nobody      \* no owner, no holder

ASSUME ProcessOfAssumption == ProcessOf \in [Threads -> Processes]
ASSUME NobodyAssumption == Nobody \notin Threads \cup Processes

VARIABLES
  owner,   \* owner[p]: thread that holds the RLock of the process p
  depth,   \* depth[p]: _depth of its ReentrantFileLock
  holder,  \* process that holds the lock of the operating system
  stage    \* stage[t]: "outside", "acquiring" (owns the RLock and opens or
           \* waits for the file lock) or "inside"

lockVars == <<owner, depth, holder, stage>>

LockInit ==
  /\ owner = [p \in Processes |-> Nobody]
  /\ depth = [p \in Processes |-> 0]
  /\ holder = Nobody
  /\ stage = [t \in Threads |-> "outside"]

\* __enter__: the RLock first.  The outermost entry goes on to the file lock, a
\* nested one only counts.
Enter(t) ==
  LET p == ProcessOf[t] IN
  /\ stage[t] # "acquiring"
  /\ owner[p] \in {Nobody, t}
  /\ owner' = [owner EXCEPT ![p] = t]
  /\ IF depth[p] = 0
     THEN stage' = [stage EXCEPT ![t] = "acquiring"] /\ UNCHANGED depth
     ELSE depth' = [depth EXCEPT ![p] = @ + 1] /\ UNCHANGED stage
  /\ UNCHANGED holder

\* The file lock is granted to one process at a time.
Acquire(t) ==
  /\ stage[t] = "acquiring" /\ holder = Nobody
  /\ holder' = ProcessOf[t]
  /\ depth' = [depth EXCEPT ![ProcessOf[t]] = @ + 1]
  /\ stage' = [stage EXCEPT ![t] = "inside"]
  /\ UNCHANGED owner

\* (mutant: the RLock stays with a thread that could not get the file lock)
FailKeepingThreadLock(t) ==
  /\ stage[t] = "acquiring"
  /\ stage' = [stage EXCEPT ![t] = "outside"]
  /\ UNCHANGED <<owner, depth, holder>>

\* The lock file cannot be opened, or the wait is interrupted: the RLock is
\* given back before the exception leaves __enter__.
Fail(t) ==
  /\ stage[t] = "acquiring"
  /\ stage' = [stage EXCEPT ![t] = "outside"]
  /\ owner' = [owner EXCEPT ![ProcessOf[t]] = Nobody]
  /\ UNCHANGED <<depth, holder>>

\* (mutant: every exit releases the file lock)
ExitReleasing(t) ==
  LET p == ProcessOf[t] IN
  /\ stage[t] = "inside"
  /\ depth' = [depth EXCEPT ![p] = @ - 1]
  /\ holder' = Nobody
  /\ IF depth[p] = 1
     THEN /\ stage' = [stage EXCEPT ![t] = "outside"]
          /\ owner' = [owner EXCEPT ![p] = Nobody]
     ELSE UNCHANGED <<owner, stage>>

\* __exit__: the outermost exit releases the file lock and then the RLock.
Exit(t) ==
  LET p == ProcessOf[t] IN
  /\ stage[t] = "inside"
  /\ depth' = [depth EXCEPT ![p] = @ - 1]
  /\ IF depth[p] = 1
     THEN /\ holder' = Nobody
          /\ stage' = [stage EXCEPT ![t] = "outside"]
          /\ owner' = [owner EXCEPT ![p] = Nobody]
     ELSE UNCHANGED <<owner, holder, stage>>

\* The process dies with all its threads.
Die(p) ==
  /\ owner' = [owner EXCEPT ![p] = Nobody]
  /\ depth' = [depth EXCEPT ![p] = 0]
  /\ holder' = IF holder = p THEN Nobody ELSE holder
  /\ stage' = [t \in Threads |-> IF ProcessOf[t] = p THEN "outside" ELSE stage[t]]

LockNext ==
  \/ \E t \in Threads : Enter(t) \/ Acquire(t) \/ Fail(t) \/ Exit(t)
  \/ \E p \in Processes : Die(p)

LockSpec == LockInit /\ [][LockNext]_lockVars

-----------------------------------------------------------------------------
LockTypeOK ==
  /\ owner \in [Processes -> Threads \cup {Nobody}]
  /\ depth \in [Processes -> Nat]
  /\ holder \in Processes \cup {Nobody}
  /\ stage \in [Threads -> {"outside", "acquiring", "inside"}]

\* What the lock is for: never two threads inside, of whatever processes, also
\* after nested exits, failed acquisitions and deaths.
MutualExclusion ==
  \A t, u \in Threads : stage[t] = "inside" /\ stage[u] = "inside" => t = u

\* The bookkeeping agrees: a process has a depth exactly while it holds the file
\* lock, one of its threads owns it then, and nobody else is inside.
LockConsistent ==
  /\ \A p \in Processes : depth[p] > 0 <=> holder = p
  /\ \A p \in Processes : holder = p => owner[p] # Nobody /\ stage[owner[p]] = "inside"
  /\ \A t \in Threads : stage[t] # "outside" <=> owner[ProcessOf[t]] = t
  /\ \A t \in Threads : stage[t] = "inside" => holder = ProcessOf[t]
=============================================================================
