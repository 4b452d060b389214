--------------------------- MODULE EpisodesProofs ---------------------------
(* Theorems about Episodes, for any batches, models, limits and failures. *)
EXTENDS Episodes, Recursion

-----------------------------------------------------------------------------
(* The write quota *)

\* Of each tier no more drafts are kept than the quota (apply_write_quotas).
LEMMA QuotaBounds ==
  ASSUME NEW drafts \in Seq(Memories), NEW tier \in Tiers
  PROVE  Cardinality({i \in Kept(drafts) : Tier[drafts[i]] = tier}) <= WriteQuota[tier]
<1> DEFINE K == {i \in Kept(drafts) : Tier[drafts[i]] = tier}
           Earlier(i) == {j \in 1..(i - 1) : Tier[drafts[j]] = tier}
<1>1. K \in SUBSET (1..Len(drafts)) /\ Len(drafts) \in Nat
  BY DEF Kept
<1>2. \A i \in K : Cardinality(Earlier(i)) < WriteQuota[tier]
  BY DEF Kept
<1>3. \A i, j \in K : j < i => j \in Earlier(i)
  BY <1>1
<1>4. WriteQuota[tier] \in Nat
  BY LimitAssumption
<1>5. \A i \in Nat : IsFiniteSet(Earlier(i)) /\ Cardinality(Earlier(i)) \in Nat
  <2>1. TAKE i \in Nat
  <2>2. IsFiniteSet(1..(i - 1))
    BY FS_Interval
  <2>3. IsFiniteSet(Earlier(i))
    BY <2>2, FS_Subset
  <2> QED BY <2>3, FS_CardinalityType
<1> HIDE DEF K, Earlier
<1>6. CASE K = {}
  <2>1. Cardinality(K) = 0
    BY <1>6, FS_EmptySet
  <2>2. Cardinality(K) <= WriteQuota[tier]
    BY <1>4, <2>1
  <2> QED BY <2>2 DEF K
<1>7. CASE K # {}
  <2>1. PICK last \in K : \A i \in K : i <= last
    BY <1>1, <1>7, LastPosition
  <2>2. last \in Nat /\ K \ {last} \subseteq Earlier(last)
    BY <1>1, <1>3, <2>1
  <2>3. /\ IsFiniteSet(K \ {last})
        /\ Cardinality(K \ {last}) <= Cardinality(Earlier(last))
    BY <1>5, <2>2, FS_Subset
  <2>4. Cardinality(K) = Cardinality(K \ {last}) + 1
    <3>1. K = (K \ {last}) \cup {last} /\ last \notin K \ {last}
      BY <2>1
    <3> QED BY <2>3, <3>1, FS_AddElement
  <2>5. Cardinality(K \ {last}) \in Nat
    BY <2>3, FS_CardinalityType
  <2>6. /\ Cardinality(Earlier(last)) \in Nat
        /\ Cardinality(Earlier(last)) < WriteQuota[tier]
    BY <1>2, <1>5, <2>1, <2>2
  <2>7. Cardinality(K) <= WriteQuota[tier]
    BY <1>4, <2>3, <2>4, <2>5, <2>6
  <2> QED BY <2>7 DEF K
<1> QED BY <1>6, <1>7

-----------------------------------------------------------------------------
(* The invariant *)

Pcs == Deciding \cup {"waiting", "retry", "world", "turn", "ended"}
Markers == [ranks : SUBSET Nat, ids : SUBSET Memories, audit : Audits, attempt : Nat]
Turns == [audit : Audits, attempt : Nat]

AgentStates ==
  [pc : Pcs, started : BOOLEAN, stopped : BOOLEAN, start : Markers \cup {None},
   first : Usages, decisions : Seq(Turns)]

Typed ==
  /\ setting \in Instances
  /\ agent \in [Tasks -> AgentStates]
  /\ attempts \in [Tasks -> 0..(Retries + 1)]
  /\ DOMAIN simulation = Tasks
  /\ holder \in Tasks \cup {None}
  /\ phase \in {"running", "finalizing", "returned", "raised"}
  /\ writer \in [pc : {"idle", "write", "rewrite"}, first : Usages]

\* What the first decision of an attempt carries is what was offered and chosen in it.
Marked(t) ==
  /\ agent[t].start.attempt = attempts[t]
  /\ agent[t].start.ranks = Compatible(t)
  /\ agent[t].start.ids \subseteq Offered(t)

\* The agent of a task, its lock and its simulation.
Sound(t) ==
  /\ agent[t].pc = "retry" => attempts[t] <= Retries
  /\ agent[t].pc = "waiting" => attempts[t] = 0
  /\ IF agent[t].pc = "ended" THEN simulation[t] \in Simulations ELSE simulation[t] = None
  /\ holder = t <=> agent[t].pc = "retrieve"
  /\ Len(agent[t].decisions) <= MaxSteps
  /\ agent[t].pc \in Deciding => Len(agent[t].decisions) < MaxSteps
  /\ \A i \in DOMAIN agent[t].decisions : agent[t].decisions[i].attempt = attempts[t]
  /\ agent[t].decisions # <<>> \/ agent[t].pc \in {"act", "react"} => agent[t].started
  /\ IF setting.memory THEN agent[t].started => Marked(t) ELSE agent[t].start = None
  /\ agent[t].pc \in {"lock", "retrieve", "select", "reselect"} => setting.memory

\* Drafts of a run that proposes experience, as the outcome of a task allows them.
Permitted(propose, class, drafts) ==
  /\ drafts \in Seq(Memories)
  /\ drafts # <<>> => propose
  /\ \A i \in DOMAIN drafts : Tier[drafts[i]] \in AllowedTiers(class)

EpisodeFits(t, o, propose, a, sim, truncated, class) ==
  /\ o.kind = "episode" /\ o.task = t
  /\ o.start = a.start /\ o.decisions = a.decisions
  /\ o.reward = sim.reward /\ o.truncated = truncated
  /\ sim.reward # None /\ a.decisions # <<>>
  /\ \E drafts : Permitted(propose, class, drafts) /\ o.learned = Learned(drafts)

FailureFits(t, o, propose, a, sim, truncated) ==
  /\ o.kind = "failure" /\ o.task = t
  /\ \/ o.stage = "run_domain" /\ sim.reward = None
     \/ /\ o.stage = "finalize"
        /\ \/ a.decisions = <<>>
           \/ propose /\ ~truncated

Fits(t, o, propose, a, sim, truncated, class) ==
  \/ EpisodeFits(t, o, propose, a, sim, truncated, class)
  \/ FailureFits(t, o, propose, a, sim, truncated)

\* The outcome is the one of the task, of its agent and its simulation.
Answer(t, o) ==
  Fits(t, o, setting.propose, agent[t], simulation[t], Truncated(t), Class(t))

Answered ==
  /\ \E S : outcomes \in Seq(S)
  /\ Len(outcomes) <= Len(Request)
  /\ \A i \in DOMAIN outcomes : Answer(Request[i], outcomes[i])

\* A task the model is asked to write about: it has a reward and decisions.
Writable(t) ==
  /\ setting.propose /\ Class(t) # "incomplete"
  /\ simulation[t].reward # None /\ agent[t].decisions # <<>>

Staged ==
  /\ phase = "running" => outcomes = <<>> /\ writer = Idle
  /\ phase # "running" => \A t \in Tasks : agent[t].pc = "ended"
  /\ phase = "returned" => Len(outcomes) = Len(Request)
  /\ phase = "raised" => \E t \in Tasks : simulation[t].reason = "omitted"
  /\ writer # Idle => Finalizing /\ Writable(Current)

IInv == Typed /\ (\A t \in Tasks : Sound(t)) /\ Answered /\ Staged

LEMMA CurrentIsTask ==
  ASSUME Finalizing, Answered
  PROVE  Current \in Tasks /\ Current = Request[Len(outcomes) + 1]
BY RequestAssumption DEF Finalizing, Answered, Current

LEMMA Initially == ASSUME Init PROVE IInv
<1>1. Typed
  <2>1. /\ agent \in [Tasks -> AgentStates]
        /\ writer \in [pc : {"idle", "write", "rewrite"}, first : Usages]
    BY DEF Init, FreshAgent, AgentStates, Pcs, Idle, Usages
  <2>2. 0 \in 0..(Retries + 1)
    BY BoundAssumption
  <2> QED BY <2>1, <2>2 DEF Init, Typed
<1>2. \A t \in Tasks : Sound(t)
  BY TaskAssumption, BoundAssumption DEF Init, Sound, FreshAgent, Deciding
<1>3. Answered
  BY RequestAssumption DEF Init, Answered
<1>4. Staged
  BY DEF Init, Staged
<1> QED BY <1>1, <1>2, <1>3, <1>4 DEF IInv

-----------------------------------------------------------------------------
(* Steps of an agent *)

\* A step that touches one task and its lock, while the batch runs.
Touches(t) ==
  /\ phase = "running"
  /\ UNCHANGED <<setting, phase, writer, outcomes>>
  /\ agent' \in [Tasks -> AgentStates]
  /\ attempts' \in [Tasks -> 0..(Retries + 1)]
  /\ DOMAIN simulation' = Tasks
  /\ \A u \in Tasks \ {t} :
       /\ agent'[u] = agent[u] /\ attempts'[u] = attempts[u]
       /\ simulation'[u] = simulation[u]
       /\ holder' = u <=> holder = u
  /\ holder' \in Tasks \cup {None}

LEMMA SoundElsewhere ==
  ASSUME NEW t \in Tasks, IInv, Touches(t), Sound(t)'
  PROVE  IInv'
<1>1. Typed'
  BY DEF IInv, Typed, Touches
<1>2. \A u \in Tasks \ {t} : Sound(u)'
  <2>1. TAKE u \in Tasks \ {t}
  <2>2. Sound(u)
    BY DEF IInv
  <2>3. Compatible(u)' = Compatible(u) /\ Offered(u)' = Offered(u)
    BY DEF Touches, Compatible, Offered
  <2>4. Marked(u)' = Marked(u)
    BY <2>3 DEF Touches, Marked
  <2> QED BY <2>2, <2>4 DEF Sound, Touches
<1>3. Answered'
  BY RequestAssumption DEF IInv, Staged, Touches, Answered
<1>4. Staged'
  BY DEF IInv, Staged, Touches
<1> QED BY <1>1, <1>2, <1>3, <1>4 DEF IInv

\* A task that has not ended is worked on while the batch runs.
LEMMA NotEndedRuns ==
  ASSUME NEW t \in Tasks, IInv, agent[t].pc # "ended"
  PROVE  phase = "running"
BY DEF IInv, Staged

LEMMA ResponsesAreTyped ==
  ASSUME NEW t \in Tasks
  PROVE  /\ \A r \in SelectionResponses[t] :
              r.output.ids \in SUBSET Memories /\ r.usage \in Usages
         /\ \A r \in ActionResponses[t] : r.output.stop \in BOOLEAN /\ r.usage \in Usages
         /\ \A r \in WritingResponses[t] :
              r.output.drafts \in Seq(Memories) /\ r.usage \in Usages
BY ResponseAssumption DEF Selections, Actions, Writings

LEMMA AuditsAreTyped ==
  ASSUME NEW u \in Usages, NEW v \in Usages
  PROVE  Plain(u) \in Audits /\ Repaired(u, v) \in Audits
BY DEF Plain, Repaired, Sum, Audits, Usages

LEMMA BeginKeeps ==
  ASSUME NEW t \in Tasks, IInv, Begin(t) PROVE IInv'
<1>1. Typed /\ Sound(t)
  BY DEF IInv
<1>2. phase = "running"
  BY NotEndedRuns DEF Begin
<1>3. attempts[t] + 1 \in 0..(Retries + 1)
  BY <1>1, BoundAssumption DEF Begin, Sound, Typed
<1>4. FreshAgent("world") \in AgentStates
  BY DEF FreshAgent, AgentStates, Pcs, Usages
<1>5. Touches(t)
  BY <1>1, <1>2, <1>3, <1>4 DEF Begin, Touches, Typed
<1>6. Sound(t)'
  BY <1>1, <1>3, BoundAssumption DEF Begin, Sound, Typed, FreshAgent, Deciding, AgentStates
<1> QED BY <1>5, <1>6, SoundElsewhere

\* Only the program counter of an agent moves.
LEMMA Moved ==
  ASSUME NEW t \in Tasks, Typed, NEW p \in Pcs, agent' = [agent EXCEPT ![t].pc = p]
  PROVE  /\ agent' \in [Tasks -> AgentStates]
         /\ agent'[t].pc = p
         /\ agent'[t].started = agent[t].started /\ agent'[t].start = agent[t].start
         /\ agent'[t].decisions = agent[t].decisions
         /\ \A u \in Tasks \ {t} : agent'[u] = agent[u]
<1>1. agent \in [Tasks -> AgentStates] /\ agent[t] \in AgentStates
  BY DEF Typed
<1>2. agent'[t] = [agent[t] EXCEPT !.pc = p]
  BY <1>1
<1>3. agent'[t] \in AgentStates
  BY <1>1, <1>2 DEF AgentStates
<1>4. \A u \in Tasks \ {t} : agent'[u] = agent[u]
  BY <1>1
<1>5. DOMAIN agent' = Tasks /\ agent' = [u \in Tasks |-> agent'[u]]
  BY <1>1
<1>6. agent' \in [Tasks -> AgentStates]
  BY <1>1, <1>3, <1>4, <1>5
<1> QED BY <1>1, <1>2, <1>4, <1>6 DEF AgentStates

\* The attempt is given up, and the lock with it if the task holds it.
LEMMA AbandonKeeps ==
  ASSUME NEW t \in Tasks, IInv, agent[t].pc \in Deciding \cup {"world"}, Abandon(t),
         UNCHANGED <<setting, attempts, phase, writer, outcomes>>,
         holder' = IF agent[t].pc = "retrieve" THEN None ELSE holder
  PROVE  IInv'
<1>1. Typed /\ Sound(t)
  BY DEF IInv
<1>2. phase = "running"
  BY NotEndedRuns DEF Deciding
<1>3. PICK p \in {"retry", "ended"} :
         /\ agent' = [agent EXCEPT ![t].pc = p]
         /\ p = "retry" => attempts[t] <= Retries /\ simulation' = simulation
         /\ p = "ended" => \E reason \in Lost :
              simulation' = [simulation EXCEPT ![t] = [reason |-> reason, reward |-> None]]
  BY DEF Abandon
<1>4. p \in Pcs /\ p \notin Deciding
  BY DEF Pcs, Deciding
<1>5. /\ agent' \in [Tasks -> AgentStates]
      /\ agent'[t].pc = p
      /\ agent'[t].started = agent[t].started /\ agent'[t].start = agent[t].start
      /\ agent'[t].decisions = agent[t].decisions
      /\ \A u \in Tasks \ {t} : agent'[u] = agent[u]
  BY <1>1, <1>3, <1>4, Moved
<1>6. /\ \A u \in Tasks \ {t} : simulation'[u] = simulation[u]
      /\ DOMAIN simulation' = Tasks
      /\ p = "ended" => simulation'[t] \in Simulations
      /\ p = "retry" => simulation'[t] = None
  BY <1>1, <1>3 DEF Typed, Simulations, Sound, Deciding
<1>7. /\ holder' \in Tasks \cup {None} /\ holder' # t
      /\ \A u \in Tasks \ {t} : holder' = u <=> holder = u
  BY <1>1, TaskAssumption DEF Typed, Sound
<1>8. Touches(t)
  BY <1>1, <1>2, <1>5, <1>6, <1>7 DEF Touches, Typed
<1>9. Compatible(t)' = Compatible(t) /\ Offered(t)' = Offered(t)
  BY DEF Compatible, Offered
<1>10. Marked(t)' <=> Marked(t)
  BY <1>5, <1>9 DEF Marked
<1>11. p # "waiting" /\ p # "retrieve" /\ p \notin {"act", "react", "lock", "select", "reselect"}
  OBVIOUS
<1>12. Sound(t)'
  BY <1>1, <1>3, <1>4, <1>5, <1>6, <1>7, <1>10, <1>11 DEF Sound
<1> QED BY <1>8, <1>12, SoundElsewhere

LEMMA LosingKeeps ==
  ASSUME NEW t \in Tasks, IInv,
         \/ WorldFails(t) \/ RetrieveFails(t) \/ CallFails(t)
         \/ \E r \in SelectionResponses[t] : RefuseSelection(t, r)
         \/ \E r \in ActionResponses[t] : RefuseAction(t, r)
  PROVE  IInv'
BY AbandonKeeps DEF WorldFails, RetrieveFails, CallFails, RefuseSelection, RefuseAction, Deciding

\* The whole record of an agent is replaced.
LEMMA Replaced ==
  ASSUME NEW t \in Tasks, Typed, NEW a \in AgentStates, agent' = [agent EXCEPT ![t] = a]
  PROVE  /\ agent' \in [Tasks -> AgentStates] /\ agent'[t] = a
         /\ \A u \in Tasks \ {t} : agent'[u] = agent[u]
BY DEF Typed

\* A step of an agent that has nothing to do with the lock or the simulation.
LEMMA ReplacedKeeps ==
  ASSUME NEW t \in Tasks, IInv, NEW a \in AgentStates, agent' = [agent EXCEPT ![t] = a],
         agent[t].pc \notin {"ended", "retrieve"},
         a.pc \notin {"ended", "retrieve", "retry", "waiting"},
         UNCHANGED <<setting, attempts, simulation, holder, phase, writer, outcomes>>,
         Len(a.decisions) <= MaxSteps,
         a.pc \in Deciding => Len(a.decisions) < MaxSteps,
         \A i \in DOMAIN a.decisions : a.decisions[i].attempt = attempts[t],
         a.decisions # <<>> \/ a.pc \in {"act", "react"} => a.started,
         IF setting.memory
         THEN a.started => /\ a.start.attempt = attempts[t]
                           /\ a.start.ranks = Compatible(t)
                           /\ a.start.ids \subseteq Offered(t)
         ELSE a.start = None,
         a.pc \in {"lock", "select", "reselect"} => setting.memory
  PROVE  IInv'
<1>1. Typed /\ Sound(t)
  BY DEF IInv
<1>2. phase = "running"
  BY NotEndedRuns
<1>3. /\ agent' \in [Tasks -> AgentStates] /\ agent'[t] = a
      /\ \A u \in Tasks \ {t} : agent'[u] = agent[u]
  BY <1>1, Replaced
<1>4. Touches(t)
  BY <1>1, <1>2, <1>3 DEF Touches, Typed
<1>5. Compatible(t)' = Compatible(t) /\ Offered(t)' = Offered(t)
  BY DEF Compatible, Offered
<1>6. IF setting.memory THEN agent'[t].started => Marked(t)' ELSE agent'[t].start = None
  BY <1>3, <1>5 DEF Marked
<1>7. Sound(t)'
  BY <1>1, <1>3, <1>6 DEF Sound
<1> QED BY <1>4, <1>7, SoundElsewhere

LEMMA WorldRepliesKeeps ==
  ASSUME NEW t \in Tasks, IInv, WorldReplies(t) PROVE IInv'
<1> DEFINE a == [agent[t] EXCEPT !.pc = "turn"]
<1>1. Typed /\ Sound(t) /\ agent[t] \in AgentStates
  BY DEF IInv, Typed
<1>2. /\ a \in AgentStates /\ a.pc = "turn" /\ a.decisions = agent[t].decisions
      /\ a.started = agent[t].started /\ a.start = agent[t].start
  BY <1>1 DEF AgentStates, Pcs
<1>3. agent' = [agent EXCEPT ![t] = a]
  BY <1>1 DEF WorldReplies, Typed
<1>4. /\ agent[t].pc \notin {"ended", "retrieve"} /\ a.pc \notin Deciding
      /\ UNCHANGED <<setting, attempts, simulation, holder, phase, writer, outcomes>>
  BY <1>2 DEF WorldReplies, Deciding
<1>5. /\ Len(a.decisions) <= MaxSteps
      /\ \A i \in DOMAIN a.decisions : a.decisions[i].attempt = attempts[t]
      /\ a.decisions # <<>> => a.started
      /\ IF setting.memory
         THEN a.started => /\ a.start.attempt = attempts[t]
                           /\ a.start.ranks = Compatible(t)
                           /\ a.start.ids \subseteq Offered(t)
         ELSE a.start = None
  BY <1>1, <1>2 DEF Sound, Marked
<1> HIDE DEF a
<1> QED BY <1>2, <1>3, <1>4, <1>5, ReplacedKeeps DEF Deciding

LEMMA SayStopKeeps ==
  ASSUME NEW t \in Tasks, IInv, SayStop(t) PROVE IInv'
<1> DEFINE a == [agent[t] EXCEPT !.pc = "world", !.stopped = TRUE]
<1>1. Typed /\ Sound(t) /\ agent[t] \in AgentStates
  BY DEF IInv, Typed
<1>2. /\ a \in AgentStates /\ a.pc = "world" /\ a.decisions = agent[t].decisions
      /\ a.started = agent[t].started /\ a.start = agent[t].start
  BY <1>1 DEF AgentStates, Pcs
<1>3. agent' = [agent EXCEPT ![t] = a]
  BY <1>1 DEF SayStop, Typed
<1>4. /\ agent[t].pc \notin {"ended", "retrieve"} /\ a.pc \notin Deciding
      /\ UNCHANGED <<setting, attempts, simulation, holder, phase, writer, outcomes>>
  BY <1>2 DEF SayStop, Deciding
<1>5. /\ Len(a.decisions) <= MaxSteps
      /\ \A i \in DOMAIN a.decisions : a.decisions[i].attempt = attempts[t]
      /\ a.decisions # <<>> => a.started
      /\ IF setting.memory
         THEN a.started => /\ a.start.attempt = attempts[t]
                           /\ a.start.ranks = Compatible(t)
                           /\ a.start.ids \subseteq Offered(t)
         ELSE a.start = None
  BY <1>1, <1>2 DEF Sound, Marked
<1> HIDE DEF a
<1> QED BY <1>2, <1>3, <1>4, <1>5, ReplacedKeeps DEF Deciding

LEMMA TakeTurnKeeps ==
  ASSUME NEW t \in Tasks, IInv, TakeTurn(t) PROVE IInv'
<1> DEFINE p == IF agent[t].started \/ ~setting.memory THEN "act" ELSE "lock"
           a == [agent[t] EXCEPT !.pc = p, !.started = @ \/ ~setting.memory]
<1>1. Typed /\ Sound(t) /\ agent[t] \in AgentStates /\ setting.memory \in BOOLEAN
  BY InstanceAssumption DEF IInv, Typed
<1>2. p \in {"act", "lock"} /\ p \in Pcs
  BY DEF Pcs, Deciding
<1>3. /\ a \in AgentStates /\ a.pc = p /\ a.decisions = agent[t].decisions
      /\ a.started = (agent[t].started \/ ~setting.memory) /\ a.start = agent[t].start
  BY <1>1, <1>2 DEF AgentStates
<1>4. agent' = [agent EXCEPT ![t] = a]
  BY <1>1 DEF TakeTurn, Typed
<1>5. (p = "act" => a.started) /\ (p = "lock" => setting.memory)
  BY <1>3
<1>6. setting.memory => a.started = agent[t].started
  BY <1>1, <1>3 DEF AgentStates
<1>7. a.decisions # <<>> => a.started
  BY <1>1, <1>3 DEF Sound
<1>8. /\ agent[t].pc \notin {"ended", "retrieve"} /\ Len(a.decisions) < MaxSteps
      /\ UNCHANGED <<setting, attempts, simulation, holder, phase, writer, outcomes>>
  BY <1>3 DEF TakeTurn
<1>9. /\ Len(a.decisions) <= MaxSteps
      /\ \A i \in DOMAIN a.decisions : a.decisions[i].attempt = attempts[t]
      /\ IF setting.memory
         THEN a.started => /\ a.start.attempt = attempts[t]
                           /\ a.start.ranks = Compatible(t)
                           /\ a.start.ids \subseteq Offered(t)
         ELSE a.start = None
  BY <1>1, <1>3, <1>6 DEF Sound, Marked
<1> HIDE DEF a, p
<1> QED BY <1>2, <1>3, <1>4, <1>5, <1>7, <1>8, <1>9, ReplacedKeeps

LEMMA WorldEndsKeeps ==
  ASSUME NEW t \in Tasks, IInv, NEW end \in Evaluations[t], WorldEnds(t, end) PROVE IInv'
<1>1. Typed /\ Sound(t)
  BY DEF IInv
<1>2. phase = "running"
  BY NotEndedRuns DEF WorldEnds
<1>3. /\ agent' \in [Tasks -> AgentStates]
      /\ agent'[t].pc = "ended"
      /\ agent'[t].started = agent[t].started /\ agent'[t].start = agent[t].start
      /\ agent'[t].decisions = agent[t].decisions
      /\ \A u \in Tasks \ {t} : agent'[u] = agent[u]
  <2>1. "ended" \in Pcs
    BY DEF Pcs
  <2> QED BY <1>1, <2>1, Moved DEF WorldEnds
<1>4. end \in Simulations
  BY EvaluationAssumption DEF Simulations
<1>5. /\ simulation'[t] \in Simulations /\ DOMAIN simulation' = Tasks
      /\ \A u \in Tasks \ {t} : simulation'[u] = simulation[u]
  BY <1>1, <1>4 DEF WorldEnds, Typed
<1>6. Touches(t)
  BY <1>1, <1>2, <1>3, <1>5 DEF Touches, WorldEnds, Typed
<1>7. Compatible(t)' = Compatible(t) /\ Offered(t)' = Offered(t)
  BY DEF WorldEnds, Compatible, Offered
<1>8. Marked(t)' <=> Marked(t)
  BY <1>3, <1>7 DEF WorldEnds, Marked
<1>9. Sound(t)'
  BY <1>1, <1>3, <1>5, <1>8 DEF WorldEnds, Sound, Deciding
<1> QED BY <1>6, <1>9, SoundElsewhere

LEMMA LockKeeps ==
  ASSUME NEW t \in Tasks, IInv, Lock(t) \/ Retrieve(t) PROVE IInv'
<1>1. Typed /\ Sound(t)
  BY DEF IInv
<1>2. phase = "running"
  BY NotEndedRuns DEF Lock, Retrieve
<1>3. PICK p \in {"retrieve", "select"} :
        /\ agent' = [agent EXCEPT ![t].pc = p]
        /\ p = "retrieve" => agent[t].pc = "lock" /\ holder = None /\ holder' = t
        /\ p = "select" => agent[t].pc = "retrieve" /\ holder' = None
  BY DEF Lock, Retrieve
<1>4. /\ agent' \in [Tasks -> AgentStates]
      /\ agent'[t].pc = p
      /\ agent'[t].started = agent[t].started /\ agent'[t].start = agent[t].start
      /\ agent'[t].decisions = agent[t].decisions
      /\ \A u \in Tasks \ {t} : agent'[u] = agent[u]
  <2>1. p \in Pcs
    BY DEF Pcs, Deciding
  <2> QED BY <1>1, <1>3, <2>1, Moved
<1>5. UNCHANGED <<setting, attempts, simulation, phase, writer, outcomes>>
  BY DEF Lock, Retrieve
<1>6. /\ holder' \in Tasks \cup {None} /\ (holder' = t <=> p = "retrieve")
      /\ \A u \in Tasks \ {t} : holder' = u <=> holder = u
  BY <1>1, <1>3, TaskAssumption DEF Typed, Sound
<1>7. Touches(t)
  BY <1>1, <1>2, <1>4, <1>5, <1>6 DEF Touches, Typed
<1>8. Compatible(t)' = Compatible(t) /\ Offered(t)' = Offered(t)
  BY <1>5 DEF Compatible, Offered
<1>9. Marked(t)' <=> Marked(t)
  BY <1>4, <1>5, <1>8 DEF Marked
<1>10. Sound(t)'
  BY <1>1, <1>3, <1>4, <1>5, <1>6, <1>9 DEF Sound, Deciding
<1> QED BY <1>7, <1>10, SoundElsewhere

\* A choice among what was offered starts the attempt.
LEMMA StartKeeps ==
  ASSUME NEW t \in Tasks, IInv, agent[t].pc \in {"select", "reselect"},
         NEW ids \in SUBSET Memories, ids \subseteq Offered(t),
         NEW audit \in Audits, NEW f \in Usages,
         agent' = [agent EXCEPT ![t] = [agent[t] EXCEPT !.pc = "act", !.started = TRUE,
                                  !.start = StartMarker(t, ids, audit), !.first = f]],
         UNCHANGED <<setting, attempts, simulation, holder, phase, writer, outcomes>>
  PROVE  IInv'
<1> DEFINE a == [agent[t] EXCEPT !.pc = "act", !.started = TRUE,
                   !.start = StartMarker(t, ids, audit), !.first = f]
<1>1. Typed /\ Sound(t) /\ agent[t] \in AgentStates
  BY DEF IInv, Typed
<1>2. setting.offers[t] \in Seq(Memories) /\ attempts[t] \in Nat
  BY <1>1, InstanceAssumption, BoundAssumption DEF Typed
<1>3. Compatible(t) \in SUBSET Nat
  BY <1>2 DEF Compatible
<1>4. StartMarker(t, ids, audit) \in Markers
  BY <1>2, <1>3 DEF StartMarker, Markers
<1>5. /\ a \in AgentStates /\ a.pc = "act" /\ a.decisions = agent[t].decisions
      /\ a.started /\ a.start = StartMarker(t, ids, audit)
  BY <1>1, <1>4 DEF AgentStates, Pcs, Deciding
<1>6. /\ Len(a.decisions) < MaxSteps /\ setting.memory
      /\ \A i \in DOMAIN a.decisions : a.decisions[i].attempt = attempts[t]
  BY <1>1, <1>5 DEF Sound, Deciding
<1>7. Len(a.decisions) <= MaxSteps
  BY <1>1, <1>5 DEF Sound
<1>8. /\ a.start.attempt = attempts[t] /\ a.start.ranks = Compatible(t)
      /\ a.start.ids \subseteq Offered(t)
  BY <1>5 DEF StartMarker
<1>9. agent' = [agent EXCEPT ![t] = a]
  OBVIOUS
<1> HIDE DEF a
<1> QED BY <1>5, <1>6, <1>7, <1>8, <1>9, ReplacedKeeps

\* The first response is not valid and is asked for again.
LEMMA RepairKeeps ==
  ASSUME NEW t \in Tasks, IInv, NEW p \in {"reselect", "react"},
         agent[t].pc = IF p = "reselect" THEN "select" ELSE "act", NEW f \in Usages,
         agent' = [agent EXCEPT ![t] = [agent[t] EXCEPT !.pc = p, !.first = f]],
         UNCHANGED <<setting, attempts, simulation, holder, phase, writer, outcomes>>
  PROVE  IInv'
<1> DEFINE a == [agent[t] EXCEPT !.pc = p, !.first = f]
<1>1. Typed /\ Sound(t) /\ agent[t] \in AgentStates
  BY DEF IInv, Typed
<1>2. /\ a \in AgentStates /\ a.pc = p /\ a.decisions = agent[t].decisions
      /\ a.started = agent[t].started /\ a.start = agent[t].start
  BY <1>1 DEF AgentStates, Pcs, Deciding
<1>3. /\ Len(a.decisions) < MaxSteps /\ (p = "reselect" => setting.memory)
      /\ \A i \in DOMAIN a.decisions : a.decisions[i].attempt = attempts[t]
      /\ (a.decisions # <<>> \/ p = "react" => a.started)
  BY <1>1, <1>2 DEF Sound, Deciding
<1>4. /\ Len(a.decisions) <= MaxSteps
      /\ IF setting.memory
         THEN a.started => /\ a.start.attempt = attempts[t]
                           /\ a.start.ranks = Compatible(t)
                           /\ a.start.ids \subseteq Offered(t)
         ELSE a.start = None
  BY <1>1, <1>2 DEF Sound, Marked
<1>5. agent' = [agent EXCEPT ![t] = a] /\ agent[t].pc \notin {"ended", "retrieve"}
  OBVIOUS
<1> HIDE DEF a
<1> QED BY <1>2, <1>3, <1>4, <1>5, ReplacedKeeps

\* An action is decided.
LEMMA DecideKeeps ==
  ASSUME NEW t \in Tasks, IInv, agent[t].pc \in {"act", "react"},
         NEW stop \in BOOLEAN, NEW audit \in Audits, NEW f \in Usages,
         agent' = [agent EXCEPT ![t] = [agent[t] EXCEPT !.pc = "world", !.stopped = stop,
                                  !.first = f, !.decisions = Decided(t, audit)]],
         UNCHANGED <<setting, attempts, simulation, holder, phase, writer, outcomes>>
  PROVE  IInv'
<1> DEFINE d == Decided(t, audit)
           a == [agent[t] EXCEPT !.pc = "world", !.stopped = stop, !.first = f,
                   !.decisions = d]
<1>1. Typed /\ Sound(t) /\ agent[t] \in AgentStates /\ attempts[t] \in Nat
  BY BoundAssumption DEF IInv, Typed
<1>2. agent[t].decisions \in Seq(Turns) /\ [audit |-> audit, attempt |-> attempts[t]] \in Turns
  BY <1>1 DEF AgentStates, Turns
<1>3. /\ d \in Seq(Turns) /\ Len(d) = Len(agent[t].decisions) + 1 /\ d # <<>>
      /\ \A i \in DOMAIN d :
           \/ i \in DOMAIN agent[t].decisions /\ d[i] = agent[t].decisions[i]
           \/ d[i] = [audit |-> audit, attempt |-> attempts[t]]
  BY <1>2 DEF Decided
<1>4. /\ a \in AgentStates /\ a.pc = "world" /\ a.decisions = d
      /\ a.started = agent[t].started /\ a.start = agent[t].start
  <2> HIDE DEF d
  <2> QED BY <1>1, <1>3 DEF AgentStates, Pcs
<1>5. Len(a.decisions) <= MaxSteps
  BY <1>1, <1>2, <1>3, <1>4, BoundAssumption DEF Sound, Deciding
<1>6. \A i \in DOMAIN a.decisions : a.decisions[i].attempt = attempts[t]
  BY <1>1, <1>3, <1>4 DEF Sound
<1>7. /\ a.started
      /\ IF setting.memory
         THEN a.started => /\ a.start.attempt = attempts[t]
                           /\ a.start.ranks = Compatible(t)
                           /\ a.start.ids \subseteq Offered(t)
         ELSE a.start = None
  BY <1>1, <1>4 DEF Sound, Marked
<1>8. agent' = [agent EXCEPT ![t] = a] /\ agent[t].pc \notin {"ended", "retrieve"}
  OBVIOUS
<1> HIDE DEF a
<1> QED BY <1>4, <1>5, <1>6, <1>7, <1>8, ReplacedKeeps DEF Deciding

LEMMA ChoiceKeeps ==
  ASSUME NEW t \in Tasks, IInv,
         \/ \E r \in SelectionResponses[t] : Select(t, r) \/ Reselect(t, r)
         \/ \E r \in ActionResponses[t] : Act(t, r) \/ React(t, r)
  PROVE  IInv'
<1>1. Typed /\ agent[t] \in AgentStates /\ agent[t].first \in Usages
  BY DEF IInv, Typed, AgentStates
<1>2. None \in Usages
  BY DEF Usages
<1>3. CASE \E r \in SelectionResponses[t] : Select(t, r)
  <2>1. PICK r \in SelectionResponses[t] : Select(t, r)
    BY <1>3
  <2>2. r.usage \in Usages /\ r.output.ids \in SUBSET Memories /\ Plain(r.usage) \in Audits
    BY ResponsesAreTyped, AuditsAreTyped
  <2>3. CASE ValidSelection(r.output, Offered(t))
    <3>1. agent' = [agent EXCEPT ![t] = [agent[t] EXCEPT !.pc = "act", !.started = TRUE,
                      !.start = StartMarker(t, r.output.ids, Plain(r.usage)),
                      !.first = agent[t].first]]
      BY <1>1, <2>1, <2>3 DEF Select, Typed, AgentStates
    <3>2. r.output.ids \subseteq Offered(t)
      BY <2>3 DEF ValidSelection
    <3>3. agent[t].pc \in {"select", "reselect"} /\ UNCHANGED <<setting, attempts, simulation, holder, phase, writer, outcomes>>
      BY <2>1 DEF Select
    <3> QED BY <1>1, <2>2, <3>1, <3>2, <3>3, StartKeeps
  <2>4. CASE ~ValidSelection(r.output, Offered(t))
    <3>1. agent' = [agent EXCEPT ![t] = [agent[t] EXCEPT !.pc = "reselect", !.first = r.usage]]
      BY <1>1, <2>1, <2>4 DEF Select, Typed
    <3> QED BY <2>1, <2>2, <3>1, RepairKeeps DEF Select
  <2> QED BY <2>3, <2>4
<1>4. CASE \E r \in SelectionResponses[t] : Reselect(t, r)
  <2>1. PICK r \in SelectionResponses[t] : Reselect(t, r)
    BY <1>4
  <2> DEFINE audit == Repaired(agent[t].first, r.usage)
  <2>2. r.output.ids \in SUBSET Memories /\ audit \in Audits
    BY <1>1, ResponsesAreTyped, AuditsAreTyped
  <2>3. agent' = [agent EXCEPT ![t] = [agent[t] EXCEPT !.pc = "act", !.started = TRUE,
                    !.start = StartMarker(t, r.output.ids, audit), !.first = None]]
    BY <1>1, <2>1 DEF Reselect, Typed
  <2>4. r.output.ids \subseteq Offered(t)
    BY <2>1 DEF Reselect, ValidSelection
  <2> HIDE DEF audit
  <2>5. agent[t].pc \in {"select", "reselect"} /\ UNCHANGED <<setting, attempts, simulation, holder, phase, writer, outcomes>>
    BY <2>1 DEF Reselect
  <2> QED BY <1>2, <2>2, <2>3, <2>4, <2>5, StartKeeps
<1>5. CASE \E r \in ActionResponses[t] : Act(t, r)
  <2>1. PICK r \in ActionResponses[t] : Act(t, r)
    BY <1>5
  <2>2. r.usage \in Usages /\ r.output.stop \in BOOLEAN /\ Plain(r.usage) \in Audits
    BY ResponsesAreTyped, AuditsAreTyped
  <2>3. CASE ValidAction(r.output)
    <3>1. agent' = [agent EXCEPT ![t] = [agent[t] EXCEPT !.pc = "world",
                      !.stopped = r.output.stop, !.first = agent[t].first,
                      !.decisions = Decided(t, Plain(r.usage))]]
      BY <1>1, <2>1, <2>3 DEF Act, Typed, AgentStates
    <3>2. agent[t].pc \in {"act", "react"} /\ UNCHANGED <<setting, attempts, simulation, holder, phase, writer, outcomes>>
      BY <2>1 DEF Act
    <3> QED BY <1>1, <2>2, <3>1, <3>2, DecideKeeps
  <2>4. CASE ~ValidAction(r.output)
    <3>1. agent' = [agent EXCEPT ![t] = [agent[t] EXCEPT !.pc = "react", !.first = r.usage]]
      BY <1>1, <2>1, <2>4 DEF Act, Typed
    <3> QED BY <2>1, <2>2, <3>1, RepairKeeps DEF Act
  <2> QED BY <2>3, <2>4
<1>6. CASE \E r \in ActionResponses[t] : React(t, r)
  <2>1. PICK r \in ActionResponses[t] : React(t, r)
    BY <1>6
  <2> DEFINE audit == Repaired(agent[t].first, r.usage)
  <2>2. r.output.stop \in BOOLEAN /\ audit \in Audits
    BY <1>1, ResponsesAreTyped, AuditsAreTyped
  <2>3. agent' = [agent EXCEPT ![t] = [agent[t] EXCEPT !.pc = "world",
                    !.stopped = r.output.stop, !.first = None,
                    !.decisions = Decided(t, audit)]]
    BY <1>1, <2>1 DEF React, Typed
  <2> HIDE DEF audit
  <2>4. agent[t].pc \in {"act", "react"} /\ UNCHANGED <<setting, attempts, simulation, holder, phase, writer, outcomes>>
    BY <2>1 DEF React
  <2> QED BY <1>2, <2>2, <2>3, <2>4, DecideKeeps
<1> QED BY <1>3, <1>4, <1>5, <1>6

-----------------------------------------------------------------------------
(* Steps of the executor *)

\* The executor changes no agent.
LEMMA AgentsStand ==
  ASSUME IInv, UNCHANGED <<setting, agent, attempts, simulation, holder>>
  PROVE  \A t \in Tasks : Sound(t)'
<1>1. TAKE t \in Tasks
<1>2. Sound(t)
  BY DEF IInv
<1>3. Marked(t)' <=> Marked(t)
  BY DEF Marked, Compatible, Offered
<1> QED BY <1>2, <1>3 DEF Sound

\* One more task is answered for.
LEMMA OneMore ==
  ASSUME IInv, UNCHANGED <<setting, agent, attempts, simulation, holder, phase>>, Finalizing,
         NEW o, outcomes' = Append(outcomes, o), Answer(Current, o), writer' = Idle
  PROVE  IInv'
<1>1. Answered /\ Typed /\ Staged
  BY DEF IInv
<1>2. PICK S : outcomes \in Seq(S)
  BY <1>1 DEF Answered
<1>3. /\ outcomes' \in Seq(S \cup {o}) /\ Len(outcomes') = Len(outcomes) + 1
      /\ \A i \in DOMAIN outcomes' :
           \/ i \in DOMAIN outcomes /\ outcomes'[i] = outcomes[i]
           \/ i = Len(outcomes) + 1 /\ outcomes'[i] = o
  BY <1>2
<1>4. Len(outcomes) + 1 <= Len(Request)
  BY <1>2, RequestAssumption DEF Finalizing
<1>5. \A i \in DOMAIN outcomes' : Answer(Request[i], outcomes'[i])
  BY <1>1, <1>3 DEF Answered, Current
<1>6. \A i \in DOMAIN outcomes' : Answer(Request[i], outcomes[i])'
  BY <1>5 DEF Answer, Class, Truncated
<1>7. Answered'
  BY <1>3, <1>4, <1>6 DEF Answered
<1>8. Typed'
  BY <1>1 DEF Typed, Idle, Usages
<1>9. Staged'
  BY <1>1 DEF Staged, Finalizing
<1> QED BY <1>7, <1>8, <1>9, AgentsStand DEF IInv

LEMMA EndedSimulations ==
  ASSUME IInv, Finalizing
  PROVE  /\ Current \in Tasks /\ simulation[Current] \in Simulations
         /\ \A t \in Tasks : agent[t].pc = "ended"
<1>1. Current \in Tasks
  BY CurrentIsTask DEF IInv
<1>2. \A t \in Tasks : agent[t].pc = "ended"
  BY DEF IInv, Staged, Finalizing
<1> QED BY <1>1, <1>2 DEF IInv, Sound

LEMMA FailuresKeep ==
  ASSUME IInv, FailInfrastructure \/ FailEmpty
  PROVE  IInv'
<1>1. PICK stage \in {"run_domain", "finalize"} :
        /\ outcomes' = Append(outcomes, Failure(stage))
        /\ stage = "run_domain" => InfrastructureFailure(Current)
        /\ stage = "finalize" => agent[Current].decisions = <<>>
  BY DEF FailInfrastructure, FailEmpty, Fail
<1>2. /\ Finalizing /\ writer' = Idle
      /\ UNCHANGED <<setting, agent, attempts, simulation, holder, phase>>
  BY DEF FailInfrastructure, FailEmpty
<1>3. simulation[Current] \in Simulations
  BY <1>2, EndedSimulations
<1>4. InfrastructureFailure(Current) => simulation[Current].reward = None
  BY <1>3 DEF InfrastructureFailure, Simulations
<1>5. Answer(Current, Failure(stage))
  BY <1>1, <1>4 DEF Answer, Fits, FailureFits, Failure
<1> QED BY <1>1, <1>2, <1>5, OneMore

\* An episode of what was drafted answers for its task.
LEMMA EpisodeAnswers ==
  ASSUME NEW t, NEW writing, NEW drafts, Permitted(setting.propose, Class(t), drafts),
         simulation[t].reward # None, agent[t].decisions # <<>>
  PROVE  Answer(t, Episode(t, writing, Learned(drafts)))
BY DEF Answer, Fits, EpisodeFits, Episode

LEMMA FinishWithoutWritingKeeps ==
  ASSUME IInv, FinishWithoutWriting PROVE IInv'
<1>1. /\ Finalizing /\ writer' = Idle
      /\ UNCHANGED <<setting, agent, attempts, simulation, holder, phase>>
      /\ simulation[Current].reward # None /\ agent[Current].decisions # <<>>
      /\ outcomes' = Append(outcomes, Episode(Current, {}, Learned(<<>>)))
  BY DEF FinishWithoutWriting, Evaluated, InfrastructureFailure, NothingLearned
<1>2. Permitted(setting.propose, Class(Current), <<>>)
  BY DEF Permitted
<1>3. Answer(Current, Episode(Current, {}, Learned(<<>>)))
  BY <1>1, <1>2, EpisodeAnswers
<1> QED BY <1>1, <1>3, OneMore

\* The writer moves on within the same task.
LEMMA WriterKeeps ==
  ASSUME IInv, UNCHANGED <<setting, agent, attempts, simulation, holder, phase, outcomes>>,
         Finalizing, Writable(Current),
         writer' \in [pc : {"idle", "write", "rewrite"}, first : Usages]
  PROVE  IInv'
<1>1. Typed'
  BY DEF IInv, Typed
<1>2. Answered'
  <2>1. Answered
    BY DEF IInv
  <2>2. \A i \in DOMAIN outcomes : Answer(Request[i], outcomes[i])'
    BY <2>1 DEF Answered, Answer, Class, Truncated
  <2> QED BY <2>1, <2>2 DEF Answered
<1>3. Staged'
  <2>1. Writable(Current)' /\ Finalizing'
    BY DEF Writable, Current, Class, Truncated, Finalizing
  <2> QED BY <2>1 DEF IInv, Staged, Finalizing
<1> QED BY <1>1, <1>2, <1>3, AgentsStand DEF IInv

LEMMA AskWriterKeeps ==
  ASSUME IInv, AskWriter PROVE IInv'
<1>1. Finalizing /\ Writable(Current)
  BY DEF AskWriter, Evaluated, Writable, InfrastructureFailure
<1>2. writer' \in [pc : {"idle", "write", "rewrite"}, first : Usages]
  BY DEF AskWriter, Idle, Usages
<1> QED BY <1>1, <1>2, WriterKeeps DEF AskWriter

\* While the writer is at work the task can be written about.
LEMMA AtWork ==
  ASSUME IInv, writer.pc # "idle"
  PROVE  /\ Finalizing /\ Writable(Current) /\ Current \in Tasks
         /\ Answer(Current, Failure("finalize"))
<1>1. Finalizing /\ Writable(Current)
  BY DEF IInv, Staged, Idle
<1>2. ~Truncated(Current)
  BY <1>1 DEF Writable, Class, OutcomeClass
<1>3. Answer(Current, Failure("finalize"))
  BY <1>1, <1>2 DEF Answer, Fits, FailureFits, Failure, Writable
<1> QED BY <1>1, <1>3, EndedSimulations

\* A valid output, or the empty decision that stands in for an invalid one.
LEMMA FinishKeeps ==
  ASSUME IInv, writer.pc # "idle", NEW audit, NEW drafts \in Seq(Memories),
         \A i \in DOMAIN drafts : Tier[drafts[i]] \in AllowedTiers(Class(Current)),
         Finish(audit, drafts),
         UNCHANGED <<setting, agent, attempts, simulation, holder, phase>>
  PROVE  IInv'
<1>1. Finalizing /\ Writable(Current)
  BY AtWork
<1>2. Permitted(setting.propose, Class(Current), drafts)
  BY <1>1 DEF Permitted, Writable
<1>3. Answer(Current, Episode(Current, {audit}, Learned(drafts)))
  BY <1>1, <1>2, EpisodeAnswers DEF Writable
<1>4. outcomes' = Append(outcomes, Episode(Current, {audit}, Learned(drafts))) /\ writer' = Idle
  BY DEF Finish
<1> QED BY <1>1, <1>3, <1>4, OneMore

LEMMA WritingKeeps ==
  ASSUME IInv, Writing PROVE IInv'
<1>1. CASE WriterFails
  <2>1. Finalizing /\ Answer(Current, Failure("finalize"))
    BY <1>1, AtWork DEF WriterFails
  <2>2. outcomes' = Append(outcomes, Failure("finalize")) /\ writer' = Idle
        /\ UNCHANGED <<setting, agent, attempts, simulation, holder, phase>>
    BY <1>1 DEF WriterFails, Fail
  <2> QED BY <2>1, <2>2, OneMore
<1>2. CASE writer # Idle /\ \E r \in WritingResponses[Current] :
             Write(r) \/ Rewrite(r) \/ FallBack(r) \/ RefuseTainted(r)
  <2>1. PICK r \in WritingResponses[Current] :
          Write(r) \/ Rewrite(r) \/ FallBack(r) \/ RefuseTainted(r)
    BY <1>2
  <2>2. writer.pc # "idle" /\ UNCHANGED <<setting, agent, attempts, simulation, holder, phase>>
    BY <2>1 DEF Write, Rewrite, FallBack, RefuseTainted
  <2>3. Finalizing /\ Writable(Current) /\ Current \in Tasks
        /\ Answer(Current, Failure("finalize"))
    BY <2>2, AtWork
  <2>4. r.output.drafts \in Seq(Memories) /\ r.usage \in Usages
    BY <2>3, ResponsesAreTyped
  <2>5. ValidWriting(r.output, Class(Current)) =>
          \A i \in DOMAIN r.output.drafts :
            Tier[r.output.drafts[i]] \in AllowedTiers(Class(Current))
    BY DEF ValidWriting
  <2>6. CASE Write(r) /\ ~ValidWriting(r.output, Class(Current))
    <3>1. writer' \in [pc : {"idle", "write", "rewrite"}, first : Usages] /\ UNCHANGED outcomes
      BY <2>4, <2>6 DEF Write
    <3> QED BY <2>2, <2>3, <3>1, WriterKeeps
  <2>7. CASE (Write(r) \/ Rewrite(r)) /\ ValidWriting(r.output, Class(Current))
    <3>1. \E audit : Finish(audit, r.output.drafts)
      BY <2>7 DEF Write, Rewrite
    <3> QED BY <2>2, <2>4, <2>5, <2>7, <3>1, FinishKeeps
  <2>8. CASE FallBack(r)
    <3>1. Finish(FellBack(writer.first, r.usage), <<>>)
      BY <2>8 DEF FallBack
    <3>2. <<>> \in Seq(Memories) /\ DOMAIN <<>> = {}
      OBVIOUS
    <3> QED BY <2>2, <3>1, <3>2, FinishKeeps
  <2>9. CASE RefuseTainted(r)
    <3>1. outcomes' = Append(outcomes, Failure("finalize")) /\ writer' = Idle
      BY <2>9 DEF RefuseTainted, Fail
    <3> QED BY <2>2, <2>3, <3>1, OneMore
  <2> QED BY <2>1, <2>6, <2>7, <2>8, <2>9 DEF Rewrite
<1> QED BY <1>1, <1>2 DEF Writing

LEMMA TurnsKeep ==
  ASSUME IInv, Collect \/ Return PROVE IInv'
<1>1. Typed /\ Answered /\ Staged
  BY DEF IInv
<1>2. UNCHANGED <<setting, agent, attempts, simulation, holder, writer, outcomes>>
  BY DEF Collect, Return
<1>3. Typed'
  BY <1>1, <1>2 DEF Typed, Collect, Return
<1>4. Answered'
  <2>1. \A i \in DOMAIN outcomes : Answer(Request[i], outcomes[i])'
    BY <1>1, <1>2 DEF Answered, Answer, Class, Truncated
  <2> QED BY <1>1, <1>2, <2>1 DEF Answered
<1>5. writer = Idle
  BY <1>1 DEF Staged, Collect, Return, Finalizing
<1>6. CASE Collect
  <2>1. /\ \A t \in Tasks : agent'[t].pc = "ended"
        /\ phase' \in {"finalizing", "raised"}
        /\ phase' = "raised" => \E t \in Tasks : simulation'[t].reason = "omitted"
    BY <1>2, <1>6 DEF Collect
  <2>2. Staged'
    BY <1>2, <1>5, <2>1 DEF Staged
  <2> QED BY <1>2, <1>3, <1>4, <2>2, AgentsStand DEF IInv
<1>7. CASE Return
  <2>1. /\ \A t \in Tasks : agent'[t].pc = "ended"
        /\ phase' = "returned" /\ Len(outcomes') = Len(Request)
    BY <1>1, <1>2, <1>7 DEF Return, Staged
  <2>2. Staged'
    BY <1>2, <1>5, <2>1 DEF Staged
  <2> QED BY <1>2, <1>3, <1>4, <2>2, AgentsStand DEF IInv
<1> QED BY <1>6, <1>7

-----------------------------------------------------------------------------
(* The theorems *)

LEMMA StepKeeps == ASSUME IInv, [Next]_vars PROVE IInv'
<1>1. CASE Execute
  BY <1>1, TurnsKeep, FailuresKeep, FinishWithoutWritingKeeps, AskWriterKeeps, WritingKeeps
     DEF Execute
<1>2. CASE \E t \in Tasks : Run(t)
  <2>1. PICK t \in Tasks : Run(t)
    BY <1>2
  <2>2. CASE Begin(t)
    BY <2>2, BeginKeeps
  <2>3. CASE SayStop(t)
    BY <2>3, SayStopKeeps
  <2>4. CASE TakeTurn(t)
    BY <2>4, TakeTurnKeeps
  <2>5. CASE World(t)
    BY <2>5, WorldRepliesKeeps, WorldEndsKeeps, LosingKeeps DEF World
  <2>6. CASE Retrieval(t)
    BY <2>6, LockKeeps, LosingKeeps DEF Retrieval
  <2>7. CASE Choice(t)
    BY <2>7, ChoiceKeeps, LosingKeeps DEF Choice
  <2> QED BY <2>1, <2>2, <2>3, <2>4, <2>5, <2>6, <2>7 DEF Run
<1>3. CASE UNCHANGED vars
  <2>1. UNCHANGED <<setting, agent, attempts, simulation, holder, phase, writer, outcomes>>
    BY <1>3 DEF vars
  <2>2. Typed' /\ Answered'
    <3>1. Typed /\ Answered
      BY DEF IInv
    <3>2. Typed'
      BY <2>1, <3>1 DEF Typed
    <3>3. \A i \in DOMAIN outcomes : Answer(Request[i], outcomes[i])'
      BY <2>1, <3>1 DEF Answered, Answer, Class, Truncated
    <3> QED BY <2>1, <3>1, <3>2, <3>3 DEF Answered
  <2>3. Staged'
    <3>1. Staged
      BY DEF IInv
    <3>2. (Writable(Current)' <=> Writable(Current)) /\ (Finalizing' <=> Finalizing)
      BY <2>1 DEF Writable, Current, Class, Truncated, Finalizing
    <3> QED BY <2>1, <3>1, <3>2 DEF Staged
  <2> QED BY <2>1, <2>2, <2>3, AgentsStand DEF IInv
<1> QED BY <1>1, <1>2, <1>3 DEF Next

LEMMA Invariance == Spec => []IInv
BY Initially, StepKeeps, PTL DEF Spec

LEMMA Implied ==
  ASSUME IInv
  PROVE  /\ TypeOK /\ AnswersForEveryTask /\ EpisodeIsOneAttempt
         /\ LearnsWithinPolicy
<1>1. Typed /\ Answered /\ Staged /\ \A t \in Tasks : Sound(t)
  BY DEF IInv
<1>2. TypeOK
  BY <1>1 DEF TypeOK, Typed, Sound, AgentStates, Pcs
<1>3. \A i \in DOMAIN outcomes :
        /\ Request[i] \in Tasks /\ outcomes[i].task = Request[i]
        /\ \/ EpisodeFits(Request[i], outcomes[i], setting.propose, agent[Request[i]],
                          simulation[Request[i]], Truncated(Request[i]), Class(Request[i]))
           \/ FailureFits(Request[i], outcomes[i], setting.propose, agent[Request[i]],
                          simulation[Request[i]], Truncated(Request[i]))
  <2>1. \A i \in DOMAIN outcomes : i \in DOMAIN Request
    BY <1>1, RequestAssumption DEF Answered
  <2>2. \A i \in DOMAIN Request : Request[i] \in Tasks
    BY RequestAssumption
  <2> QED BY <1>1, <2>1, <2>2 DEF Answered, Answer, Fits, EpisodeFits, FailureFits
<1>4. AnswersForEveryTask
  BY <1>1, <1>3 DEF AnswersForEveryTask, EpisodeFits, FailureFits, Staged
<1>5. \A e \in EpisodesOf :
        /\ e.task \in Tasks /\ Sound(e.task)
        /\ EpisodeFits(e.task, e, setting.propose, agent[e.task],
                       simulation[e.task], Truncated(e.task), Class(e.task))
  BY <1>1, <1>3 DEF EpisodesOf, Range, FailureFits
<1>6. EpisodeIsOneAttempt
  <2>1. SUFFICES ASSUME NEW e \in EpisodesOf
        PROVE  /\ Len(e.decisions) \in 1..MaxSteps
               /\ \A i \in DOMAIN e.decisions : e.decisions[i].attempt = attempts[e.task]
               /\ IF setting.memory
                  THEN /\ e.start.attempt = attempts[e.task]
                       /\ e.start.ids \subseteq
                            {setting.offers[e.task][k] : k \in e.start.ranks}
                  ELSE e.start = None
    BY DEF EpisodeIsOneAttempt
  <2>2. e.start = agent[e.task].start /\ e.decisions = agent[e.task].decisions
        /\ agent[e.task].decisions # <<>> /\ agent[e.task].decisions \in Seq(Turns)
    BY <1>1, <1>5 DEF EpisodeFits, Typed, AgentStates
  <2>3. Len(e.decisions) \in 1..MaxSteps
    BY <1>5, <2>2, BoundAssumption DEF Sound
  <2> QED BY <1>5, <2>2, <2>3 DEF Sound, Marked, Offered
<1>7. LearnsWithinPolicy
  <2>1. SUFFICES ASSUME NEW e \in EpisodesOf
        PROVE  /\ e.learned # NothingLearned => setting.propose
               /\ \A i \in DOMAIN e.learned :
                    Tier[e.learned[i]] \in AllowedTiers(OutcomeClass(e.reward, e.truncated))
               /\ \A tier \in Tiers :
                    Cardinality({i \in DOMAIN e.learned : Tier[e.learned[i]] = tier})
                      <= WriteQuota[tier]
    BY DEF LearnsWithinPolicy
  <2>2. PICK drafts :
          Permitted(setting.propose, Class(e.task), drafts) /\ e.learned = Learned(drafts)
    BY <1>5 DEF EpisodeFits
  <2>3. /\ DOMAIN e.learned = Kept(drafts) /\ Kept(drafts) \subseteq DOMAIN drafts
        /\ \A i \in Kept(drafts) : e.learned[i] = drafts[i]
    BY <2>2 DEF Learned, Kept
  <2>4. Class(e.task) = OutcomeClass(e.reward, e.truncated)
    BY <1>5 DEF EpisodeFits, Class
  <2>5. e.learned # NothingLearned => setting.propose
    BY <2>2 DEF Permitted, NothingLearned
  <2>6. \A i \in DOMAIN e.learned :
          Tier[e.learned[i]] \in AllowedTiers(OutcomeClass(e.reward, e.truncated))
    BY <2>2, <2>3, <2>4 DEF Permitted
  <2>7. ASSUME NEW tier \in Tiers
        PROVE  Cardinality({i \in DOMAIN e.learned : Tier[e.learned[i]] = tier})
                 <= WriteQuota[tier]
    <3>1. {i \in DOMAIN e.learned : Tier[e.learned[i]] = tier}
            = {i \in Kept(drafts) : Tier[drafts[i]] = tier}
      BY <2>3
    <3> QED BY <2>2, <3>1, QuotaBounds DEF Permitted
  <2> QED BY <2>5, <2>6, <2>7
<1> QED BY <1>2, <1>4, <1>6, <1>7

\* Lock, attempts and simulations keep together (Tau3Agent._start, run_domain), for
\* any number of tasks, threads and retries.
THEOREM TypeCorrect == Spec => []TypeOK
BY Invariance, Implied, PTL

\* The executor answers for every task, in order and from its last attempt, however
\* many attempts fail (Tau2BenchmarkExecutor.execute).
THEOREM EveryTaskAnswered == Spec => []AnswersForEveryTask
BY Invariance, Implied, PTL

\* No episode mixes attempts, or exceeds the budget of steps (Tau3AgentState).
THEOREM EpisodesAreOneAttempt == Spec => []EpisodeIsOneAttempt
BY Invariance, Implied, PTL

\* Whatever a model writes, an episode teaches what its outcome and the quota allow
\* (validate_write_decision, apply_write_quotas).
THEOREM LearningWithinPolicy == Spec => []LearnsWithinPolicy
BY Invariance, Implied, PTL

-----------------------------------------------------------------------------
(* What an episode reports of its responses *)

\* The books of a set of audits, and of one more response: heard is kept so.
Repairs(audits) == {a \in audits : a[1].repaired}
Tally(audits) ==
  [count |-> Cardinality(audits) + Cardinality(Repairs(audits)),
   bad |-> Cardinality(Repairs(audits)), usage |-> TotalUsage(audits)]
Hears(h, valid, usage) ==
  [count |-> h.count + 1, bad |-> h.bad + IF valid THEN 0 ELSE 1, usage |-> Sum(h.usage, usage)]

\* The audits of an agent so far.
AuditsBy(a) ==
  (IF setting.memory /\ a.started THEN {<<a.start.audit, 0>>} ELSE {})
  \cup {<<a.decisions[i].audit, i>> : i \in DOMAIN a.decisions}

\* heard has the responses behind the audits, and the one that waits for its repair.
Counted(t) ==
  heard[t] = IF agent[t].pc \in {"reselect", "react"}
             THEN Hears(Tally(AuditsBy(agent[t])), FALSE, agent[t].first)
             ELSE Tally(AuditsBy(agent[t]))

\* So it stays when the conversation is over, until the task is answered for.
Told(t) ==
  heard[t] = IF writer.pc = "rewrite" /\ t = Current
             THEN Hears(Tally(AuditsBy(agent[t])), FALSE, writer.first)
             ELSE Tally(AuditsBy(agent[t]))

Accounts(e, h) ==
  e.usage = h.usage /\ e.errors = h.bad /\ e.responses + e.errors = h.count

HeardOf(t) ==
  /\ setting.memory /\ agent[t].started => agent[t].start \in Markers
  /\ agent[t].pc \in {"lock", "retrieve", "select", "reselect"} => ~agent[t].started
  /\ agent[t].pc \in Deciding \cup {"world", "turn"} => Counted(t)
  /\ agent[t].pc = "ended" /\ simulation[t].reward # None
       /\ (\A i \in DOMAIN outcomes : Request[i] # t) => Told(t)
HeardInv ==
  /\ DOMAIN heard = Tasks
  /\ \A t \in Tasks : HeardOf(t)
  /\ \A i \in DOMAIN outcomes :
       outcomes[i].kind = "episode" => Accounts(outcomes[i], heard[Request[i]])

\* TotalUsage adds up the usages, if they are all known.
LEMMA TotalIsSum ==
  ASSUME NEW A \in SUBSET (Audits \X Nat), IsFiniteSet(A), \A a \in A : a[1].usage # None
  PROVE  LET w == [a \in A |-> a[1].usage]
         IN  \E g : IsSum(g, w, A) /\ TotalUsage(A) = g[A]
<1> DEFINE w == [a \in A |-> a[1].usage]
           Folds(g) ==
             g = [T \in SUBSET A |->
                    IF T = {} THEN 0
                    ELSE (CHOOSE x \in T : TRUE)[1].usage + g[T \ {CHOOSE x \in T : TRUE}]]
<1>1. w \in [A -> Int]
  BY DEF Audits, Usages
<1>2. ASSUME NEW g PROVE SumsUp(g, w, A) <=> Folds(g)
  <2>1. \A T \in SUBSET A : T # {} => w[CHOOSE x \in T : TRUE] = (CHOOSE x \in T : TRUE)[1].usage
    OBVIOUS
  <2> HIDE DEF w
  <2> QED BY <2>1 DEF SumsUp
<1>3. \E g : Folds(g)
  <2> HIDE DEF w, Folds
  <2> QED BY <1>1, <1>2, SumsExist DEF IsSum
<1>4. Folds(CHOOSE g : Folds(g))
  BY <1>3
<1>5. TotalUsage(A) = (CHOOSE g : Folds(g))[A]
  BY DEF TotalUsage, MapThenSumSet, MapThenFoldSet
<1> HIDE DEF Folds, w
<1>6. IsSum(CHOOSE g : Folds(g), w, A)
  BY <1>1, <1>2, <1>4, SumsAreSums
<1> QED BY <1>5, <1>6 DEF w

\* One more audit.
LEMMA UsageOfOneMore ==
  ASSUME NEW A \in SUBSET (Audits \X Nat), IsFiniteSet(A), NEW a \in Audits \X Nat, a \notin A
  PROVE  /\ TotalUsage(A \cup {a}) = Sum(TotalUsage(A), a[1].usage)
         /\ TotalUsage(A) \in Usages
<1> DEFINE R == A \cup {a}
           w == [x \in R |-> x[1].usage]
           v == [x \in A |-> x[1].usage]
<1>1. R \in SUBSET (Audits \X Nat) /\ IsFiniteSet(R)
  BY FS_AddElement
<1>2. \A x \in R : x[1].usage \in Usages
  BY DEF Audits
<1>3. CASE \E x \in A : x[1].usage = None
  BY <1>3 DEF TotalUsage, Sum, Usages
<1>4. CASE \A x \in A : x[1].usage # None
  <2>1. PICK h : IsSum(h, v, A) /\ TotalUsage(A) = h[A]
    BY <1>4, TotalIsSum
  <2>2. TotalUsage(A) \in Nat
    <3>1. \A x \in A : v[x] \in Nat
      BY <1>2, <1>4 DEF Usages
    <3> HIDE DEF v
    <3> QED BY <2>1, <3>1, SumOfNats
  <2>3. CASE a[1].usage = None
    BY <2>2, <2>3 DEF TotalUsage, Sum, Usages
  <2>4. CASE a[1].usage # None
    <3>1. PICK g : IsSum(g, w, R) /\ TotalUsage(R) = g[R]
      BY <1>1, <1>4, <2>4, TotalIsSum
    <3>2. (\A x \in A : w[x] = v[x]) /\ w[a] = a[1].usage
      OBVIOUS
    <3>3. g[R] = w[a] + h[A]
      <4> HIDE DEF w, v
      <4> QED BY <2>1, <3>1, <3>2, SumAdds
    <3>4. a[1].usage \in Nat
      BY <1>2, <2>4 DEF Usages
    <3> QED BY <2>1, <2>2, <2>4, <3>1, <3>2, <3>3, <3>4, NoneIsNoUsage DEF Sum, Usages
  <2> QED BY <2>3, <2>4
<1> QED BY <1>3, <1>4

LEMMA NoUsage == TotalUsage({}) = 0
<1>1. {} \in SUBSET (Audits \X Nat) /\ IsFiniteSet({})
  BY FS_EmptySet
<1>2. PICK g : IsSum(g, [a \in {} |-> a[1].usage], {}) /\ TotalUsage({}) = g[{}]
  BY <1>1, TotalIsSum
<1> QED BY <1>2 DEF IsSum, SumsUp

\* One more response, or a response and its repair.
LEMMA TallyOfOneMore ==
  ASSUME NEW A \in SUBSET (Audits \X Nat), IsFiniteSet(A), NEW a \in Audits \X Nat, a \notin A
  PROVE  /\ Tally(A).count \in Nat /\ Tally(A).bad \in Nat /\ Tally(A).usage \in Usages
         /\ Tally(A \cup {a}) =
              [count |-> Tally(A).count + IF a[1].repaired THEN 2 ELSE 1,
               bad |-> Tally(A).bad + IF a[1].repaired THEN 1 ELSE 0,
               usage |-> Sum(Tally(A).usage, a[1].usage)]
<1>1. /\ Cardinality(A) \in Nat /\ Cardinality(A \cup {a}) = Cardinality(A) + 1
  BY FS_CardinalityType, FS_AddElement
<1>2. IsFiniteSet(Repairs(A)) /\ Cardinality(Repairs(A)) \in Nat
  BY FS_Subset, FS_CardinalityType DEF Repairs
<1>3. /\ Tally(A).count = Cardinality(A) + Cardinality(Repairs(A))
      /\ Tally(A).bad = Cardinality(Repairs(A)) /\ Tally(A).usage = TotalUsage(A)
  BY DEF Tally
<1>4. Cardinality(Repairs(A \cup {a})) = Cardinality(Repairs(A)) + IF a[1].repaired THEN 1 ELSE 0
  <2>1. CASE a[1].repaired
    <3>1. Repairs(A \cup {a}) = Repairs(A) \cup {a} /\ a \notin Repairs(A)
      BY <2>1 DEF Repairs
    <3>2. Cardinality(Repairs(A) \cup {a}) = Cardinality(Repairs(A)) + 1
      BY <1>2, <3>1, FS_AddElement
    <3> QED BY <2>1, <3>1, <3>2
  <2>2. CASE ~a[1].repaired
    <3>1. Repairs(A \cup {a}) = Repairs(A)
      BY <2>2 DEF Repairs
    <3> QED BY <1>2, <2>2, <3>1
  <2> QED BY <2>1, <2>2
<1>5. TotalUsage(A) \in Usages /\ TotalUsage(A \cup {a}) = Sum(TotalUsage(A), a[1].usage)
  BY UsageOfOneMore
<1>6. Tally(A \cup {a}) = [count |-> Cardinality(A \cup {a}) + Cardinality(Repairs(A \cup {a})),
                           bad |-> Cardinality(Repairs(A \cup {a})),
                           usage |-> TotalUsage(A \cup {a})]
  BY DEF Tally
<1>7. Tally(A).count \in Nat /\ Tally(A).bad \in Nat /\ Tally(A).usage \in Usages
  BY <1>1, <1>2, <1>3, <1>5
<1>8. Cardinality(A \cup {a}) + Cardinality(Repairs(A \cup {a}))
        = Tally(A).count + IF a[1].repaired THEN 2 ELSE 1
  BY <1>1, <1>2, <1>3, <1>4
<1> QED BY <1>3, <1>4, <1>5, <1>6, <1>7, <1>8

LEMMA TallyHears ==
  ASSUME NEW A \in SUBSET (Audits \X Nat), IsFiniteSet(A), NEW k \in Nat,
         \A a \in A : a[2] # k, NEW f \in Usages, NEW u \in Usages
  PROVE  /\ Tally(A \cup {<<Plain(u), k>>}) = Hears(Tally(A), TRUE, u)
         /\ \A audit \in {Repaired(f, u), FellBack(f, u)} :
              Tally(A \cup {<<audit, k>>}) = Hears(Hears(Tally(A), FALSE, f), TRUE, u)
<1>1. \A audit : <<audit, k>> \notin A
  OBVIOUS
<1>2. Plain(u) \in Audits /\ Repaired(f, u) \in Audits /\ FellBack(f, u) \in Audits
  BY DEF Plain, Repaired, FellBack, Sum, Audits, Usages
<1>3. Tally(A \cup {<<Plain(u), k>>}) = Hears(Tally(A), TRUE, u)
  <2> DEFINE a == <<Plain(u), k>>
  <2>1. a \in Audits \X Nat /\ a \notin A /\ ~a[1].repaired /\ a[1].usage = u
    BY <1>1, <1>2 DEF Plain
  <2> HIDE DEF a
  <2>2. /\ Tally(A).count \in Nat /\ Tally(A).bad \in Nat
        /\ Tally(A \cup {a}) = [count |-> Tally(A).count + 1, bad |-> Tally(A).bad + 0,
                                usage |-> Sum(Tally(A).usage, u)]
    BY <2>1, TallyOfOneMore
  <2> QED BY <2>2 DEF a, Hears
<1>4. ASSUME NEW audit \in {Repaired(f, u), FellBack(f, u)}
      PROVE  Tally(A \cup {<<audit, k>>}) = Hears(Hears(Tally(A), FALSE, f), TRUE, u)
  <2> DEFINE a == <<audit, k>>
  <2>1. a \in Audits \X Nat /\ a \notin A /\ a[1].repaired /\ a[1].usage = Sum(f, u)
    <3>1. audit \in Audits /\ audit.repaired /\ audit.usage = Sum(f, u)
      <4>1. CASE audit = Repaired(f, u)
        BY <1>2, <4>1 DEF Repaired
      <4>2. CASE audit = FellBack(f, u)
        BY <1>2, <4>2 DEF FellBack
      <4> QED BY <4>1, <4>2
    <3> QED BY <1>1, <3>1
  <2> HIDE DEF a
  <2>2. /\ Tally(A).count \in Nat /\ Tally(A).bad \in Nat /\ Tally(A).usage \in Usages
        /\ Tally(A \cup {a}) = [count |-> Tally(A).count + 2, bad |-> Tally(A).bad + 1,
                                usage |-> Sum(Tally(A).usage, Sum(f, u))]
    <3>1. /\ Tally(A).count \in Nat /\ Tally(A).bad \in Nat /\ Tally(A).usage \in Usages
          /\ Tally(A \cup {a}) =
               [count |-> Tally(A).count + IF a[1].repaired THEN 2 ELSE 1,
                bad |-> Tally(A).bad + IF a[1].repaired THEN 1 ELSE 0,
                usage |-> Sum(Tally(A).usage, a[1].usage)]
      BY <2>1, TallyOfOneMore, Zenon
    <3> QED BY <2>1, <3>1
  <2>3. Sum(Tally(A).usage, Sum(f, u)) = Sum(Sum(Tally(A).usage, f), u)
    BY <2>2, NoneIsNoUsage DEF Sum, Usages
  <2>4. Hears(Hears(Tally(A), FALSE, f), TRUE, u) =
          [count |-> (Tally(A).count + 1) + 1, bad |-> (Tally(A).bad + 1) + 0,
           usage |-> Sum(Sum(Tally(A).usage, f), u)]
    BY DEF Hears
  <2>5. (Tally(A).count + 1) + 1 = Tally(A).count + 2 /\ (Tally(A).bad + 1) + 0 = Tally(A).bad + 1
    BY <2>2
  <2> QED BY <2>2, <2>3, <2>4, <2>5 DEF a
<1> QED BY <1>3, <1>4

\* An agent has one audit for its choice, and one for each turn.
LEMMA AuditsByTyped ==
  ASSUME NEW a \in AgentStates, setting.memory /\ a.started => a.start \in Markers
  PROVE  /\ AuditsBy(a) \in SUBSET (Audits \X Nat) /\ IsFiniteSet(AuditsBy(a))
         /\ \A x \in AuditsBy(a) : x[2] \in 0..Len(a.decisions)
         /\ ~a.started => \A x \in AuditsBy(a) : x[2] # 0
<1> DEFINE choice == IF setting.memory /\ a.started THEN {<<a.start.audit, 0>>} ELSE {}
           turns == {<<a.decisions[i].audit, i>> : i \in DOMAIN a.decisions}
<1>1. a.decisions \in Seq(Turns)
  BY DEF AgentStates
<1>2. /\ DOMAIN a.decisions = 1..Len(a.decisions) /\ Len(a.decisions) \in Nat
      /\ \A i \in DOMAIN a.decisions : a.decisions[i].audit \in Audits
  <2>1. \A i \in DOMAIN a.decisions : a.decisions[i] \in Turns
    BY <1>1
  <2>2. DOMAIN a.decisions = 1..Len(a.decisions) /\ Len(a.decisions) \in Nat
    BY <1>1
  <2> QED BY <2>1, <2>2 DEF Turns
<1>3. turns \in SUBSET (Audits \X Nat) /\ \A x \in turns : x[2] \in 1..Len(a.decisions)
  BY <1>2
<1>4. IsFiniteSet(turns)
  <2> DEFINE I == 1..Len(a.decisions)
             named(i) == <<a.decisions[i].audit, i>>
  <2>1. IsFiniteSet(I)
    BY <1>2, FS_Interval
  <2>2. IsFiniteSet({named(i) : i \in I})
    <3> DEFINE N == [i \in I |-> named(i)]
    <3>1. N \in Surjection(I, {named(i) : i \in I})
      BY DEF Surjection
    <3> QED BY <2>1, <3>1, FS_Surjection
  <2> QED BY <1>2, <2>2
<1>5. choice \in SUBSET (Audits \X Nat) /\ \A x \in choice : x[2] = 0 /\ a.started
  BY DEF Markers
<1>6. IsFiniteSet(choice)
  BY FS_EmptySet, FS_Singleton
<1>7. AuditsBy(a) = choice \cup turns
  BY DEF AuditsBy
<1> HIDE DEF choice, turns
<1>8. IsFiniteSet(AuditsBy(a)) /\ AuditsBy(a) \in SUBSET (Audits \X Nat)
  BY <1>3, <1>4, <1>5, <1>6, <1>7, FS_Union
<1> QED BY <1>2, <1>3, <1>5, <1>7, <1>8

LEMMA HeardInitially == ASSUME Init PROVE HeardInv
BY DEF Init, HeardInv, HeardOf, FreshAgent, Deciding

\* A step of a task leaves the others alone.
LEMMA RunIsOwn ==
  ASSUME NEW t \in Tasks, IInv, HeardInv, Run(t)
  PROVE  /\ phase = "running" /\ UNCHANGED <<setting, phase, writer, outcomes>>
         /\ outcomes = <<>> /\ writer = Idle
         /\ DOMAIN heard' = Tasks
         /\ \A u \in Tasks \ {t} :
              agent'[u] = agent[u] /\ heard'[u] = heard[u] /\ simulation'[u] = simulation[u]
<1> USE DEF HeardInv
<1>1. Typed
  BY DEF IInv
<1>2. CASE Begin(t) \/ SayStop(t) \/ TakeTurn(t) \/ Lock(t) \/ Retrieve(t) \/ WorldReplies(t)
  <2>1. agent[t].pc # "ended" /\ UNCHANGED <<setting, phase, writer, outcomes, simulation>>
    BY <1>2 DEF Begin, SayStop, TakeTurn, Lock, Retrieve, WorldReplies
  <2>2. \A u \in Tasks \ {t} : agent'[u] = agent[u] /\ heard'[u] = heard[u]
    BY <1>1, <1>2 DEF Begin, SayStop, TakeTurn, Lock, Retrieve, WorldReplies, Typed
  <2>3. DOMAIN heard' = Tasks
    BY <1>2 DEF Begin, SayStop, TakeTurn, Lock, Retrieve, WorldReplies
  <2> QED BY <2>1, <2>2, <2>3, NotEndedRuns DEF IInv, Staged
<1>3. CASE \/ WorldFails(t) \/ RetrieveFails(t) \/ CallFails(t)
           \/ \E end \in Evaluations[t] : WorldEnds(t, end)
           \/ \E r \in SelectionResponses[t] : RefuseSelection(t, r)
           \/ \E r \in ActionResponses[t] : RefuseAction(t, r)
  <2>1. agent[t].pc # "ended" /\ UNCHANGED <<setting, phase, writer, outcomes>>
    BY <1>3 DEF WorldFails, RetrieveFails, CallFails, WorldEnds, RefuseSelection, RefuseAction
  <2>2. \A u \in Tasks \ {t} : agent'[u] = agent[u] /\ simulation'[u] = simulation[u]
    BY <1>1, <1>3 DEF WorldFails, RetrieveFails, CallFails, WorldEnds, RefuseSelection,
                      RefuseAction, Abandon, Typed
  <2>3. DOMAIN heard' = Tasks /\ \A u \in Tasks \ {t} : heard'[u] = heard[u]
    BY <1>3 DEF WorldFails, RetrieveFails, CallFails, WorldEnds, RefuseSelection,
                RefuseAction, Hear
  <2> QED BY <2>1, <2>2, <2>3, NotEndedRuns DEF IInv, Staged
<1>4. CASE \/ \E r \in SelectionResponses[t] : Select(t, r) \/ Reselect(t, r)
           \/ \E r \in ActionResponses[t] : Act(t, r) \/ React(t, r)
  <2>1. agent[t].pc # "ended" /\ UNCHANGED <<setting, phase, writer, outcomes, simulation>>
    BY <1>4 DEF Select, Reselect, Act, React
  <2>2. \A u \in Tasks \ {t} : agent'[u] = agent[u]
    BY <1>1, <1>4 DEF Select, Reselect, Act, React, Typed
  <2>3. DOMAIN heard' = Tasks /\ \A u \in Tasks \ {t} : heard'[u] = heard[u]
    BY <1>4 DEF Select, Reselect, Act, React, Hear
  <2> QED BY <2>1, <2>2, <2>3, NotEndedRuns DEF IInv, Staged
<1> QED BY <1>2, <1>3, <1>4 DEF Run, World, Retrieval, Choice

\* The books of the other tasks, and of this one if no response came.
LEMMA HeardElsewhere ==
  ASSUME NEW t \in Tasks, IInv, HeardInv, Run(t), HeardOf(t)' PROVE HeardInv'
<1>1. /\ UNCHANGED <<setting, writer, outcomes>> /\ outcomes = <<>> /\ writer = Idle
      /\ DOMAIN heard' = Tasks
      /\ \A u \in Tasks \ {t} :
           agent'[u] = agent[u] /\ heard'[u] = heard[u] /\ simulation'[u] = simulation[u]
  BY RunIsOwn
<1>2. ASSUME NEW u \in Tasks \ {t} PROVE HeardOf(u)'
  <2>1. HeardOf(u)
    BY DEF HeardInv
  <2>2. AuditsBy(agent[u])' = AuditsBy(agent[u])
    BY <1>1 DEF AuditsBy
  <2>3. (Counted(u)' <=> Counted(u)) /\ (Told(u)' <=> Told(u))
    BY <1>1, <2>2 DEF Counted, Told, Idle
  <2> QED BY <1>1, <2>1, <2>3 DEF HeardOf
<1> QED BY <1>1, <1>2 DEF HeardInv

\* A step of the task in which nothing is heard and nothing decided.
LEMMA Unheard ==
  ASSUME NEW t \in Tasks, IInv, HeardInv, Run(t), heard'[t] = heard[t],
         agent[t].pc \in {"lock", "retrieve", "select", "act", "world", "turn"},
         agent'[t].pc \in {"lock", "retrieve", "select", "act", "world", "turn", "ended"},
         agent'[t].decisions = agent[t].decisions, agent'[t].start = agent[t].start,
         setting.memory => (agent'[t].started <=> agent[t].started),
         agent'[t].pc \in {"lock", "retrieve", "select"} => ~agent'[t].started
  PROVE  HeardInv'
<1>1. UNCHANGED <<setting, writer>> /\ writer = Idle
  BY RunIsOwn
<1>2. AuditsBy(agent[t])' = AuditsBy(agent[t])
  BY <1>1 DEF AuditsBy
<1>3. HeardOf(t) /\ Counted(t)
  BY DEF HeardInv, HeardOf, Deciding
<1>4. heard'[t] = Tally(AuditsBy(agent[t]))'
  <2>1. heard'[t] = Tally(AuditsBy(agent[t]))
    BY <1>3 DEF Counted
  <2> QED BY <1>2, <2>1 DEF Tally, TotalUsage, Repairs, MapThenSumSet, MapThenFoldSet
<1>5. Counted(t)' /\ Told(t)'
  BY <1>1, <1>4 DEF Counted, Told, Idle
<1>6. HeardOf(t)'
  BY <1>1, <1>3, <1>5 DEF HeardOf
<1> QED BY <1>6, HeardElsewhere

\* An attempt that is lost has no reward, and the next one begins anew.
LEMMA LostUnheard ==
  ASSUME NEW t \in Tasks, IInv, HeardInv, Run(t), Abandon(t), agent[t].pc # "ended"
  PROVE  HeardInv'
<1>1. Typed /\ HeardOf(t)
  BY DEF IInv, HeardInv
<1>2. UNCHANGED setting
  BY RunIsOwn
<1>3. /\ agent'[t].started = agent[t].started /\ agent'[t].start = agent[t].start
      /\ \/ agent'[t].pc = "retry"
         \/ agent'[t].pc = "ended" /\ simulation'[t].reward = None
  <2>1. DOMAIN simulation = Tasks
    BY <1>1 DEF Typed
  <2>2. PICK p \in {"retry", "ended"} :
           /\ agent' = [agent EXCEPT ![t].pc = p]
           /\ p = "ended" => \E reason \in Lost :
                simulation' = [simulation EXCEPT ![t] = [reason |-> reason, reward |-> None]]
    BY DEF Abandon
  <2>3. p \in Pcs
    BY DEF Pcs
  <2>4. /\ agent'[t].pc = p
        /\ agent'[t].started = agent[t].started /\ agent'[t].start = agent[t].start
    BY <1>1, <2>2, <2>3, Moved
  <2>5. p = "ended" => simulation'[t].reward = None
    BY <2>1, <2>2
  <2> QED BY <2>4, <2>5
<1>4. HeardOf(t)'
  BY <1>1, <1>2, <1>3 DEF HeardOf, Deciding
<1> QED BY <1>4, HeardElsewhere

\* A response is asked for again: it is heard, and waits.
LEMMA AskedAgain ==
  ASSUME NEW t \in Tasks, IInv, HeardInv, Run(t), NEW u \in Usages,
         \/ agent[t].pc = "select" /\ agent'[t].pc = "reselect"
         \/ agent[t].pc = "act" /\ agent'[t].pc = "react",
         heard'[t] = Hears(heard[t], FALSE, u), agent'[t].first = u,
         agent'[t].decisions = agent[t].decisions, agent'[t].start = agent[t].start,
         agent'[t].started = agent[t].started
  PROVE  HeardInv'
<1>1. UNCHANGED setting
  BY RunIsOwn
<1>2. AuditsBy(agent[t])' = AuditsBy(agent[t])
  BY <1>1 DEF AuditsBy
<1>3. HeardOf(t) /\ Counted(t)
  BY DEF HeardInv, HeardOf, Deciding
<1>4. heard[t] = Tally(AuditsBy(agent[t]))
  BY <1>3 DEF Counted
<1>5. Counted(t)'
  <2>1. Tally(AuditsBy(agent[t]))' = Tally(AuditsBy(agent[t]))
    BY <1>2 DEF Tally, TotalUsage, Repairs, MapThenSumSet, MapThenFoldSet
  <2> QED BY <1>4, <2>1 DEF Counted, Hears
<1>6. HeardOf(t)'
  BY <1>1, <1>3, <1>5 DEF HeardOf
<1> QED BY <1>6, HeardElsewhere

\* A response is taken, alone or with the one it repairs, and has its audit.
LEMMA HeardOut ==
  ASSUME NEW t \in Tasks, IInv, HeardInv, Run(t), NEW u \in Usages, NEW audit,
         \/ agent[t].pc \in {"select", "act"} /\ audit = Plain(u)
         \/ agent[t].pc \in {"reselect", "react"} /\ audit = Repaired(agent[t].first, u),
         heard'[t] = Hears(heard[t], TRUE, u),
         agent'[t].pc \in {"act", "world"},
         setting.memory /\ agent'[t].started => agent'[t].start \in Markers,
         NEW k \in Nat, \A x \in AuditsBy(agent[t]) : x[2] # k,
         AuditsBy(agent[t])' = AuditsBy(agent[t]) \cup {<<audit, k>>}
  PROVE  HeardInv'
<1> DEFINE A == AuditsBy(agent[t])
           f == agent[t].first
<1>1. UNCHANGED setting
  BY RunIsOwn
<1>2. HeardOf(t) /\ Counted(t)
  BY DEF HeardInv, HeardOf, Deciding
<1>3. f \in Usages /\ A \in SUBSET (Audits \X Nat) /\ IsFiniteSet(A)
  <2>1. agent[t] \in AgentStates
    BY DEF IInv, Typed
  <2> QED BY <1>2, <2>1, AuditsByTyped DEF HeardOf, AgentStates
<1>4. heard'[t] = Tally(A \cup {<<audit, k>>})
  <2> HIDE DEF A, f
  <2>1. /\ Tally(A \cup {<<Plain(u), k>>}) = Hears(Tally(A), TRUE, u)
        /\ Tally(A \cup {<<Repaired(f, u), k>>}) = Hears(Hears(Tally(A), FALSE, f), TRUE, u)
    <3>1. \A x \in A : x[2] # k
      BY DEF A
    <3> QED BY <1>3, <3>1, TallyHears
  <2> QED BY <1>2, <2>1 DEF Counted, A, f
<1>5. Counted(t)'
  <2>1. Tally(AuditsBy(agent[t]))' = Tally(AuditsBy(agent[t])')
    BY DEF Tally, TotalUsage, Repairs, MapThenSumSet, MapThenFoldSet
  <2> QED BY <1>4, <2>1 DEF Counted
<1>6. HeardOf(t)'
  BY <1>1, <1>5 DEF HeardOf
<1> QED BY <1>6, HeardElsewhere

\* A new attempt has no responses.
LEMMA BegunAnew == ASSUME NEW t \in Tasks, IInv, HeardInv, Begin(t) PROVE HeardInv'
<1>1. Run(t) /\ Typed
  BY DEF Run, IInv
<1>2. agent'[t] = FreshAgent("world") /\ heard'[t] = Nothing
  BY <1>1 DEF Begin, Typed, HeardInv
<1>3. Tally({}) = Nothing
  <2>1. Repairs({}) = {} /\ Cardinality({}) = 0
    BY FS_EmptySet DEF Repairs
  <2> QED BY <2>1, NoUsage DEF Tally, Nothing
<1>4. AuditsBy(agent[t])' = {}
  <2>1. ~agent'[t].started /\ agent'[t].decisions = <<>>
    BY <1>2 DEF FreshAgent
  <2> QED BY <2>1 DEF AuditsBy
<1>5. Counted(t)'
  <2>1. agent'[t].pc = "world"
    BY <1>2 DEF FreshAgent
  <2>2. Tally(AuditsBy(agent[t]))' = Tally(AuditsBy(agent[t])')
    BY DEF Tally, TotalUsage, Repairs, MapThenSumSet, MapThenFoldSet
  <2> QED BY <1>2, <1>3, <1>4, <2>1, <2>2 DEF Counted
<1>6. HeardOf(t)'
  BY <1>2, <1>5 DEF HeardOf, FreshAgent
<1> QED BY <1>1, <1>6, HeardElsewhere

\* The agent of a task after a step that changes fields of it, one by one.
LEMMA QuietSteps ==
  ASSUME NEW t \in Tasks, IInv, HeardInv,
         \/ WorldReplies(t) \/ SayStop(t) \/ TakeTurn(t) \/ Lock(t) \/ Retrieve(t)
         \/ \E end \in Evaluations[t] : WorldEnds(t, end)
  PROVE  HeardInv'
<1>1. Run(t) /\ agent \in [Tasks -> AgentStates] /\ setting.memory \in BOOLEAN
  BY InstanceAssumption DEF Run, World, Retrieval, IInv, Typed
<1>2. heard' = heard
  BY DEF WorldReplies, SayStop, TakeTurn, Lock, Retrieve, WorldEnds
<1>3. HeardOf(t) /\ agent[t] \in AgentStates
  BY <1>1 DEF HeardInv
<1>4. CASE WorldReplies(t) \/ SayStop(t) \/ \E end \in Evaluations[t] : WorldEnds(t, end)
  <2>1. /\ agent[t].pc \in {"world", "turn"} /\ agent'[t].pc \in {"world", "turn", "ended"}
        /\ agent'[t].decisions = agent[t].decisions /\ agent'[t].start = agent[t].start
        /\ agent'[t].started = agent[t].started
    BY <1>1, <1>3, <1>4 DEF WorldReplies, SayStop, WorldEnds, AgentStates
  <2> QED BY <1>1, <1>2, <2>1, Unheard
<1>5. CASE Lock(t) \/ Retrieve(t)
  <2>1. /\ agent[t].pc \in {"lock", "retrieve"} /\ agent'[t].pc \in {"retrieve", "select"}
        /\ agent'[t].decisions = agent[t].decisions /\ agent'[t].start = agent[t].start
        /\ agent'[t].started = agent[t].started
    BY <1>1, <1>3, <1>5 DEF Lock, Retrieve, AgentStates
  <2>2. ~agent'[t].started
    BY <1>3, <2>1 DEF HeardOf
  <2> QED BY <1>1, <1>2, <2>1, <2>2, Unheard
<1>6. CASE TakeTurn(t)
  <2>1. /\ agent[t].pc = "turn"
        /\ agent'[t].pc = IF agent[t].started \/ ~setting.memory THEN "act" ELSE "lock"
        /\ agent'[t].decisions = agent[t].decisions /\ agent'[t].start = agent[t].start
        /\ agent'[t].started = (agent[t].started \/ ~setting.memory)
    BY <1>1, <1>3, <1>6 DEF TakeTurn, AgentStates
  <2>2. setting.memory => (agent'[t].started <=> agent[t].started)
    BY <1>3, <2>1 DEF AgentStates
  <2>3. agent'[t].pc \in {"lock", "retrieve", "select"} => ~agent'[t].started
    BY <2>1
  <2>4. agent'[t].pc \in {"act", "lock"}
    BY <2>1
  <2> QED BY <1>1, <1>2, <2>1, <2>2, <2>3, <2>4, Unheard
<1> QED BY <1>4, <1>5, <1>6

\* Hear keeps the books of a response.
LEMMA HearHears ==
  ASSUME NEW t, t \in DOMAIN heard, NEW r, NEW valid, Hear(t, r, valid)
  PROVE  heard'[t] = Hears(heard[t], valid, r.usage) /\ DOMAIN heard' = DOMAIN heard
         /\ \A u \in DOMAIN heard \ {t} : heard'[u] = heard[u]
BY DEF Hear, Hears

\* The agent chooses, or its choice is asked for again.
LEMMA SelectionHeard ==
  ASSUME NEW t \in Tasks, IInv, HeardInv, NEW r \in SelectionResponses[t],
         Select(t, r) \/ Reselect(t, r)
  PROVE  HeardInv'
<1>1. /\ Run(t) /\ agent \in [Tasks -> AgentStates] /\ Sound(t) /\ HeardOf(t)
      /\ attempts[t] \in Nat /\ setting.offers[t] \in Seq(Memories)
  BY InstanceAssumption, BoundAssumption DEF Run, Choice, IInv, Typed, HeardInv
<1>2. agent[t] \in AgentStates /\ t \in DOMAIN heard /\ agent[t].first \in Usages
  BY <1>1 DEF HeardInv, AgentStates
<1>3. r.usage \in Usages /\ r.output.ids \in SUBSET Memories
  BY ResponsesAreTyped
<1>4. CASE Select(t, r) /\ ~ValidSelection(r.output, Offered(t))
  <2>1. agent' = [agent EXCEPT ![t].pc = "reselect", ![t].first = r.usage]
        /\ agent[t].pc = "select" /\ Hear(t, r, FALSE)
    BY <1>4 DEF Select, Hear
  <2>2. /\ agent'[t].pc = "reselect" /\ agent'[t].first = r.usage
        /\ agent'[t].decisions = agent[t].decisions /\ agent'[t].start = agent[t].start
        /\ agent'[t].started = agent[t].started
    BY <1>1, <1>2, <2>1 DEF AgentStates
  <2>3. heard'[t] = Hears(heard[t], FALSE, r.usage)
    BY <1>2, <2>1, HearHears
  <2> QED BY <1>1, <1>3, <2>1, <2>2, <2>3, AskedAgain
<1>5. CASE (Select(t, r) /\ ValidSelection(r.output, Offered(t))) \/ Reselect(t, r)
  <2>1. PICK audit \in {Plain(r.usage), Repaired(agent[t].first, r.usage)} :
          /\ \/ agent[t].pc \in {"select", "act"} /\ audit = Plain(r.usage)
             \/ agent[t].pc \in {"reselect", "react"}
                  /\ audit = Repaired(agent[t].first, r.usage)
          /\ agent'[t].pc = "act" /\ agent'[t].started
          /\ agent'[t].start = StartMarker(t, r.output.ids, audit)
          /\ agent'[t].decisions = agent[t].decisions
    <3>1. CASE Select(t, r) /\ ValidSelection(r.output, Offered(t))
      <4>1. agent' = [agent EXCEPT ![t].pc = "act", ![t].started = TRUE,
                       ![t].start = StartMarker(t, r.output.ids, Plain(r.usage))]
            /\ agent[t].pc = "select"
        BY <3>1 DEF Select
      <4>2. /\ agent'[t].pc = "act" /\ agent'[t].started
            /\ agent'[t].start = StartMarker(t, r.output.ids, Plain(r.usage))
            /\ agent'[t].decisions = agent[t].decisions
        BY <1>1, <1>2, <4>1 DEF AgentStates
      <4> QED BY <4>1, <4>2
    <3>2. CASE Reselect(t, r)
      <4> DEFINE audit == Repaired(agent[t].first, r.usage)
      <4>1. agent' = [agent EXCEPT ![t].pc = "act", ![t].started = TRUE, ![t].first = None,
                       ![t].start = StartMarker(t, r.output.ids, audit)]
            /\ agent[t].pc = "reselect"
        BY <3>2 DEF Reselect
      <4> HIDE DEF audit
      <4>2. /\ agent'[t].pc = "act" /\ agent'[t].started
            /\ agent'[t].start = StartMarker(t, r.output.ids, audit)
            /\ agent'[t].decisions = agent[t].decisions
        BY <1>1, <1>2, <4>1 DEF AgentStates
      <4> QED BY <4>1, <4>2 DEF audit
    <3> QED BY <1>5, <3>1, <3>2
  <2>2. agent[t].pc \in {"select", "reselect"} /\ Hear(t, r, TRUE)
    BY <1>5 DEF Select, Reselect, Hear
  <2>3. setting.memory /\ ~agent[t].started
    BY <1>1, <2>2 DEF Sound, HeardOf
  <2>4. audit \in Audits
    BY <1>2, <1>3, AuditsAreTyped
  <2>5. agent'[t].start \in Markers
    <3>1. Compatible(t) \in SUBSET Nat
      BY <1>1 DEF Compatible
    <3>2. ASSUME NEW ids \in SUBSET Memories, NEW b \in Audits
          PROVE  StartMarker(t, ids, b) \in Markers
      BY <1>1, <3>1 DEF StartMarker, Markers
    <3> QED BY <1>3, <2>1, <2>4, <3>2
  <2>6. heard'[t] = Hears(heard[t], TRUE, r.usage)
    BY <1>2, <2>2, HearHears
  <2>7. AuditsBy(agent[t])' = AuditsBy(agent[t]) \cup {<<audit, 0>>}
    <3>1. setting' = setting /\ agent'[t].start.audit = audit
      <4>1. setting' = setting
        BY <1>1, RunIsOwn
      <4>2. StartMarker(t, r.output.ids, audit).audit = audit
        BY DEF StartMarker
      <4> QED BY <2>1, <4>1, <4>2
    <3> QED BY <2>1, <2>3, <3>1 DEF AuditsBy
  <2>8. \A x \in AuditsBy(agent[t]) : x[2] # 0
    BY <1>2, <2>3, AuditsByTyped
  <2> QED BY <1>1, <1>3, <2>1, <2>5, <2>6, <2>7, <2>8, HeardOut
<1> QED BY <1>4, <1>5

\* The agent acts, or its action is asked for again.
LEMMA ActionHeard ==
  ASSUME NEW t \in Tasks, IInv, HeardInv, NEW r \in ActionResponses[t], Act(t, r) \/ React(t, r)
  PROVE  HeardInv'
<1>1. /\ Run(t) /\ agent \in [Tasks -> AgentStates] /\ HeardOf(t)
      /\ attempts[t] \in Nat
  BY BoundAssumption DEF Run, Choice, IInv, Typed, HeardInv
<1>2. agent[t] \in AgentStates /\ t \in DOMAIN heard /\ agent[t].first \in Usages
  BY <1>1 DEF HeardInv, AgentStates
<1>3. r.usage \in Usages
  BY ResponsesAreTyped
<1>4. CASE Act(t, r) /\ ~ValidAction(r.output)
  <2>1. agent' = [agent EXCEPT ![t].pc = "react", ![t].first = r.usage]
        /\ agent[t].pc = "act" /\ Hear(t, r, FALSE)
    BY <1>4 DEF Act, Hear
  <2>2. /\ agent'[t].pc = "react" /\ agent'[t].first = r.usage
        /\ agent'[t].decisions = agent[t].decisions /\ agent'[t].start = agent[t].start
        /\ agent'[t].started = agent[t].started
    BY <1>1, <1>2, <2>1 DEF AgentStates
  <2>3. heard'[t] = Hears(heard[t], FALSE, r.usage)
    BY <1>2, <2>1, HearHears
  <2> QED BY <1>1, <1>3, <2>1, <2>2, <2>3, AskedAgain
<1>5. CASE (Act(t, r) /\ ValidAction(r.output)) \/ React(t, r)
  <2> DEFINE a == agent[t]
             n == Len(a.decisions) + 1
  <2>1. PICK audit \in {Plain(r.usage), Repaired(agent[t].first, r.usage)} :
          /\ \/ agent[t].pc \in {"select", "act"} /\ audit = Plain(r.usage)
             \/ agent[t].pc \in {"reselect", "react"}
                  /\ audit = Repaired(agent[t].first, r.usage)
          /\ agent'[t].pc = "world" /\ agent'[t].started = agent[t].started
          /\ agent'[t].start = agent[t].start
          /\ agent'[t].decisions = Decided(t, audit)
    <3>1. CASE Act(t, r) /\ ValidAction(r.output)
      <4>1. agent' = [agent EXCEPT ![t].pc = "world", ![t].stopped = r.output.stop,
                       ![t].decisions = Decided(t, Plain(r.usage))]
            /\ agent[t].pc = "act"
        BY <3>1 DEF Act
      <4>2. /\ agent'[t].pc = "world" /\ agent'[t].started = agent[t].started
            /\ agent'[t].start = agent[t].start
            /\ agent'[t].decisions = Decided(t, Plain(r.usage))
        BY <1>1, <1>2, <4>1 DEF AgentStates
      <4> QED BY <4>1, <4>2
    <3>2. CASE React(t, r)
      <4> DEFINE audit == Repaired(agent[t].first, r.usage)
      <4>1. agent' = [agent EXCEPT ![t].pc = "world", ![t].stopped = r.output.stop,
                       ![t].first = None, ![t].decisions = Decided(t, audit)]
            /\ agent[t].pc = "react"
        BY <3>2 DEF React
      <4> HIDE DEF audit
      <4>2. /\ agent'[t].pc = "world" /\ agent'[t].started = agent[t].started
            /\ agent'[t].start = agent[t].start
            /\ agent'[t].decisions = Decided(t, audit)
        BY <1>1, <1>2, <4>1 DEF AgentStates
      <4> QED BY <4>1, <4>2 DEF audit
    <3> QED BY <1>5, <3>1, <3>2
  <2>2. Hear(t, r, TRUE) /\ setting' = setting
    BY <1>5 DEF Act, React, Hear
  <2>3. heard'[t] = Hears(heard[t], TRUE, r.usage)
    BY <1>2, <2>2, HearHears
  <2>4. /\ n \in Nat /\ \A x \in AuditsBy(a) : x[2] # n
    <3>1. a.decisions \in Seq(Turns) /\ \A x \in AuditsBy(a) : x[2] \in 0..Len(a.decisions)
      BY <1>1, <1>2, AuditsByTyped DEF HeardOf, AgentStates
    <3> QED BY <3>1
  <2>5. AuditsBy(agent[t])' = AuditsBy(agent[t]) \cup {<<audit, n>>}
    <3> DEFINE d == Decided(t, audit)
    <3>1. /\ DOMAIN d = DOMAIN a.decisions \cup {n} /\ d[n].audit = audit
          /\ \A i \in DOMAIN a.decisions : d[i] = a.decisions[i]
      <4>1. a.decisions \in Seq(Turns)
        BY <1>2 DEF AgentStates
      <4>2. [audit |-> audit, attempt |-> attempts[t]].audit = audit
        OBVIOUS
      <4> QED BY <4>1, <4>2 DEF Decided
    <3> HIDE DEF d, n
    <3>2. {<<d[i].audit, i>> : i \in DOMAIN d}
            = {<<a.decisions[i].audit, i>> : i \in DOMAIN a.decisions} \cup {<<audit, n>>}
      BY <3>1
    <3> QED BY <2>1, <2>2, <3>2 DEF AuditsBy, d
  <2>6. agent'[t].pc = "world" /\ (setting.memory /\ agent'[t].started => agent'[t].start \in Markers)
    BY <1>1, <2>1 DEF HeardOf
  <2> HIDE DEF n, a
  <2>7. AuditsBy(a) = AuditsBy(agent[t])
    BY DEF a
  <2> QED BY <1>1, <1>3, <2>1, <2>3, <2>4, <2>5, <2>6, <2>7, HeardOut
<1> QED BY <1>4, <1>5

LEMMA RunHeard == ASSUME NEW t \in Tasks, IInv, HeardInv, Run(t) PROVE HeardInv'
<1>1. CASE \/ WorldFails(t) \/ RetrieveFails(t) \/ CallFails(t)
           \/ \E r \in SelectionResponses[t] : RefuseSelection(t, r)
           \/ \E r \in ActionResponses[t] : RefuseAction(t, r)
  BY <1>1, LostUnheard DEF WorldFails, RetrieveFails, CallFails, RefuseSelection, RefuseAction
<1> QED BY <1>1, BegunAnew, QuietSteps, SelectionHeard, ActionHeard
        DEF Run, World, Retrieval, Choice

\* The task that is finalized has not been answered for, and its agent spoke.
LEMMA CurrentIsOpen ==
  ASSUME IInv, Finalizing
  PROVE  /\ Current \in Tasks /\ agent[Current] \in AgentStates
         /\ \A i \in DOMAIN outcomes : Request[i] # Current
         /\ \A t \in Tasks : agent[t].pc = "ended"
<1>1. Current \in Tasks /\ \A t \in Tasks : agent[t].pc = "ended"
  BY EndedSimulations
<1>2. agent[Current] \in AgentStates
  BY <1>1 DEF IInv, Typed
<1>3. PICK S : outcomes \in Seq(S)
  BY DEF IInv, Answered
<1>4. /\ DOMAIN outcomes = 1..Len(outcomes) /\ Len(outcomes) \in Nat
      /\ DOMAIN Request = 1..Len(Request) /\ Len(Request) \in Nat
  BY <1>3, RequestAssumption
<1>5. Len(outcomes) + 1 \in DOMAIN Request
  BY <1>4 DEF Finalizing
<1>6. \A i \in DOMAIN outcomes : i \in DOMAIN Request /\ i # Len(outcomes) + 1
  BY <1>4, <1>5
<1> QED BY <1>1, <1>2, <1>5, <1>6, RequestAssumption DEF Current

\* The books are the same in the next state, where the agents are.
LEMMA TallyStands ==
  ASSUME NEW t \in Tasks, UNCHANGED <<setting, agent>>
  PROVE  Tally(AuditsBy(agent[t]))' = Tally(AuditsBy(agent[t]))
<1>1. AuditsBy(agent[t])' = AuditsBy(agent[t])
  BY DEF AuditsBy
<1> QED BY <1>1 DEF Tally, TotalUsage, Repairs, MapThenSumSet, MapThenFoldSet

\* One more task is answered for, and its responses are accounted for.
LEMMA AnswerHeard ==
  ASSUME IInv, HeardInv, UNCHANGED <<setting, agent, simulation>>, Finalizing,
         NEW o, outcomes' = Append(outcomes, o), writer' = Idle,
         DOMAIN heard' = Tasks, \A t \in Tasks \ {Current} : heard'[t] = heard[t],
         o.kind = "episode" => Accounts(o, heard'[Current])
  PROVE  HeardInv'
<1>1. PICK S : outcomes \in Seq(S)
  BY DEF IInv, Answered
<1>2. /\ Current = Request[Len(outcomes) + 1] /\ DOMAIN outcomes \subseteq DOMAIN outcomes'
      /\ Len(outcomes) + 1 \in DOMAIN outcomes'
      /\ \A i \in DOMAIN outcomes' :
           \/ i \in DOMAIN outcomes /\ outcomes'[i] = outcomes[i]
           \/ i = Len(outcomes) + 1 /\ outcomes'[i] = o
  BY <1>1 DEF Current
<1>3. /\ \A i \in DOMAIN outcomes : Request[i] # Current
      /\ \A t \in Tasks : agent[t].pc = "ended"
  BY CurrentIsOpen
<1>4. ASSUME NEW t \in Tasks PROVE HeardOf(t)'
  <2>1. HeardOf(t) /\ agent'[t] = agent[t] /\ agent[t].pc = "ended"
    BY <1>3 DEF HeardInv
  <2>2. ASSUME simulation'[t].reward # None, \A i \in DOMAIN outcomes' : Request[i] # t
        PROVE  Told(t)'
    <3>1. t # Current /\ \A i \in DOMAIN outcomes : Request[i] # t
      BY <1>2, <2>2
    <3>2. heard[t] = Tally(AuditsBy(agent[t]))
      BY <2>1, <2>2, <3>1 DEF HeardOf, Told
    <3>3. writer'.pc = "idle" /\ heard'[t] = heard[t]
      BY <3>1 DEF Idle
    <3> QED BY <3>2, <3>3, TallyStands DEF Told
  <2> QED BY <2>1, <2>2 DEF HeardOf, Deciding
<1>5. ASSUME NEW i \in DOMAIN outcomes', outcomes'[i].kind = "episode"
      PROVE  Accounts(outcomes'[i], heard'[Request[i]])
  <2>1. CASE i \in DOMAIN outcomes /\ outcomes'[i] = outcomes[i]
    <3>1. Request[i] \in Tasks
      BY <2>1, <1>1, RequestAssumption DEF IInv, Answered
    <3>2. heard'[Request[i]] = heard[Request[i]]
      BY <1>3, <2>1, <3>1
    <3> QED BY <1>5, <2>1, <3>2 DEF HeardInv
  <2>2. CASE i = Len(outcomes) + 1 /\ outcomes'[i] = o
    BY <1>2, <1>5, <2>2
  <2> QED BY <1>2, <2>1, <2>2
<1>6. \A i \in DOMAIN outcomes' : outcomes'[i].kind = "episode" =>
        Accounts(outcomes[i], heard[Request[i]])'
  BY <1>5 DEF Accounts
<1> QED BY <1>4, <1>6 DEF HeardInv

\* The model is asked to write, or again.
LEMMA WriterHeard ==
  ASSUME IInv, HeardInv, UNCHANGED <<setting, agent, simulation, outcomes>>, Finalizing,
         \/ writer' = [Idle EXCEPT !.pc = "write"] /\ writer = Idle /\ UNCHANGED heard
         \/ /\ writer.pc = "write" /\ DOMAIN heard' = Tasks
            /\ \E u : /\ writer' = [pc |-> "rewrite", first |-> u]
                      /\ heard'[Current] = Hears(heard[Current], FALSE, u)
            /\ \A t \in Tasks \ {Current} : heard'[t] = heard[t]
  PROVE  HeardInv'
<1>1. /\ Current \in Tasks /\ Current' = Current
      /\ \A i \in DOMAIN outcomes : Request[i] # Current
      /\ \A t \in Tasks : agent[t].pc = "ended"
  BY CurrentIsOpen DEF Current
<1>2. DOMAIN heard' = Tasks /\ \A t \in Tasks \ {Current} : heard'[t] = heard[t]
  BY DEF HeardInv
<1>3. ASSUME NEW t \in Tasks PROVE HeardOf(t)'
  <2>1. HeardOf(t) /\ agent'[t] = agent[t] /\ agent[t].pc = "ended"
    BY <1>1 DEF HeardInv
  <2>2. ASSUME Told(t) PROVE Told(t)'
    <3>1. heard[t] = Tally(AuditsBy(agent[t]))
      <4>1. writer = Idle \/ writer.pc = "write"
        BY Zenon
      <4>2. writer.pc # "rewrite"
        BY <4>1 DEF Idle
      <4> QED BY <2>2, <4>2 DEF Told
    <3>2. CASE writer' = [Idle EXCEPT !.pc = "write"] /\ UNCHANGED heard
      <4>1. writer'.pc = "write"
        BY <3>2 DEF Idle
      <4> QED BY <3>1, <3>2, <4>1, TallyStands DEF Told
    <3>3. CASE t # Current /\ heard'[t] = heard[t]
      BY <1>1, <3>1, <3>3, TallyStands DEF Told
    <3>4. CASE \E u : /\ writer' = [pc |-> "rewrite", first |-> u]
                      /\ heard'[Current] = Hears(heard[Current], FALSE, u) /\ t = Current
      <4>1. PICK u : /\ writer' = [pc |-> "rewrite", first |-> u]
                     /\ heard'[Current] = Hears(heard[Current], FALSE, u) /\ t = Current
        BY <3>4
      <4>2. writer'.pc = "rewrite" /\ writer'.first = u
        BY <4>1
      <4>3. heard'[t] = Hears(Tally(AuditsBy(agent[t]))', FALSE, writer'.first)
        BY <3>1, <4>1, <4>2, TallyStands
      <4> QED BY <1>1, <4>1, <4>2, <4>3 DEF Told, Hears
    <3> QED BY <1>2, <3>2, <3>3, <3>4
  <2> QED BY <2>1, <2>2 DEF HeardOf, Deciding
<1>4. \A i \in DOMAIN outcomes : Request[i] \in Tasks /\ heard'[Request[i]] = heard[Request[i]]
  BY <1>1, <1>2, RequestAssumption DEF IInv, Answered
<1>5. \A i \in DOMAIN outcomes' : outcomes'[i].kind = "episode" =>
        Accounts(outcomes[i], heard[Request[i]])'
  BY <1>4 DEF HeardInv, Accounts
<1> QED BY <1>2, <1>3, <1>5 DEF HeardInv

\* An episode adds up the audits of its agent, and the one of the writer.
LEMMA EpisodeAccounts ==
  ASSUME IInv, HeardInv, Finalizing, agent[Current].decisions # <<>>,
         simulation[Current].reward # None, NEW learned
  PROVE  /\ Accounts(Episode(Current, {}, learned), Tally(AuditsBy(agent[Current])))
         /\ \A f \in Usages, u \in Usages :
              /\ Accounts(Episode(Current, {Plain(u)}, learned),
                          Hears(Tally(AuditsBy(agent[Current])), TRUE, u))
              /\ \A audit \in {Repaired(f, u), FellBack(f, u)} :
                   Accounts(Episode(Current, {audit}, learned),
                     Hears(Hears(Tally(AuditsBy(agent[Current])), FALSE, f), TRUE, u))
<1> DEFINE t == Current
           A == AuditsBy(agent[t])
           k == MaxSteps + 1
<1>1. /\ t \in Tasks /\ agent[t] \in AgentStates /\ Sound(t) /\ HeardOf(t)
      /\ Typed
  BY CurrentIsOpen DEF IInv, HeardInv
<1>2. agent[t].started
  BY <1>1 DEF Sound
<1>3. /\ A \in SUBSET (Audits \X Nat) /\ IsFiniteSet(A)
      /\ \A x \in A : x[2] # k
  <2>1. /\ A \in SUBSET (Audits \X Nat) /\ IsFiniteSet(A)
        /\ \A x \in A : x[2] \in 0..Len(agent[t].decisions)
    BY <1>1, AuditsByTyped DEF HeardOf
  <2>2. Len(agent[t].decisions) <= MaxSteps /\ Len(agent[t].decisions) \in Nat
    BY <1>1 DEF Sound, AgentStates
  <2> HIDE DEF A
  <2> QED BY <2>1, <2>2, BoundAssumption
<1>4. k \in Nat
  BY BoundAssumption
<1>5. ASSUME NEW writing
      PROVE  AuditsOf(t, writing) = A \cup {<<audit, k>> : audit \in writing}
  <2>1. (IF setting.memory THEN {agent[t].start.audit} \X {0} ELSE {})
          = (IF setting.memory /\ agent[t].started THEN {<<agent[t].start.audit, 0>>} ELSE {})
    <3>1. \A audit : {audit} \X {0} = {<<audit, 0>>}
      OBVIOUS
    <3> QED BY <1>2, <3>1
  <2> QED BY <2>1 DEF AuditsOf, AuditsBy
<1>6. AuditsOf(t, {}) = A /\ \A audit : AuditsOf(t, {audit}) = A \cup {<<audit, k>>}
  <2> HIDE DEF A, k, t
  <2>1. {<<audit, k>> : audit \in {}} = {} /\ A \cup {} = A
    OBVIOUS
  <2>2. \A audit : {<<b, k>> : b \in {audit}} = {<<audit, k>>}
    OBVIOUS
  <2>3. AuditsOf(t, {}) = A \cup {<<audit, k>> : audit \in {}}
    BY <1>5
  <2>4. \A audit : AuditsOf(t, {audit}) = A \cup {<<b, k>> : b \in {audit}}
    BY <1>5
  <2> QED BY <2>1, <2>2, <2>3, <2>4
<1>7. ASSUME NEW writing, IsFiniteSet(AuditsOf(t, writing))
      PROVE  Accounts(Episode(t, writing, learned), Tally(AuditsOf(t, writing)))
  <2>1. Episode(t, writing, learned).usage = TotalUsage(AuditsOf(t, writing))
        /\ Episode(t, writing, learned).errors = Cardinality(Repairs(AuditsOf(t, writing)))
        /\ Episode(t, writing, learned).responses = Cardinality(AuditsOf(t, writing))
    BY DEF Episode, Repairs
  <2> QED BY <2>1 DEF Accounts, Tally
<1> HIDE DEF A, k, t
<1>8. \A audit : IsFiniteSet(A \cup {<<audit, k>>})
  BY <1>3, FS_AddElement
<1>9. \A f \in Usages, u \in Usages :
        /\ Tally(A \cup {<<Plain(u), k>>}) = Hears(Tally(A), TRUE, u)
        /\ \A audit \in {Repaired(f, u), FellBack(f, u)} :
             Tally(A \cup {<<audit, k>>}) = Hears(Hears(Tally(A), FALSE, f), TRUE, u)
  BY <1>3, <1>4, TallyHears
<1>10. /\ Accounts(Episode(t, {}, learned), Tally(A))
       /\ \A audit : Accounts(Episode(t, {audit}, learned), Tally(A \cup {<<audit, k>>}))
  <2>1. Accounts(Episode(t, {}, learned), Tally(A))
    BY <1>3, <1>6, <1>7
  <2>2. ASSUME NEW audit
        PROVE  Accounts(Episode(t, {audit}, learned), Tally(A \cup {<<audit, k>>}))
    <3>1. AuditsOf(t, {audit}) = A \cup {<<audit, k>>} /\ IsFiniteSet(A \cup {<<audit, k>>})
      BY <1>6, <1>8
    <3>2. Accounts(Episode(t, {audit}, learned), Tally(AuditsOf(t, {audit})))
      BY <1>7, <3>1
    <3> QED BY <3>1, <3>2, Zenon
  <2> QED BY <2>1, <2>2
<1>11. /\ Accounts(Episode(t, {}, learned), Tally(A))
       /\ \A f \in Usages, u \in Usages :
            /\ Accounts(Episode(t, {Plain(u)}, learned), Hears(Tally(A), TRUE, u))
            /\ \A audit \in {Repaired(f, u), FellBack(f, u)} :
                 Accounts(Episode(t, {audit}, learned),
                          Hears(Hears(Tally(A), FALSE, f), TRUE, u))
  <2>1. ASSUME NEW f \in Usages, NEW u \in Usages
        PROVE  Accounts(Episode(t, {Plain(u)}, learned), Hears(Tally(A), TRUE, u))
    BY <1>9, <1>10, Zenon
  <2>2. ASSUME NEW f \in Usages, NEW u \in Usages, NEW audit \in {Repaired(f, u), FellBack(f, u)}
        PROVE  Accounts(Episode(t, {audit}, learned),
                        Hears(Hears(Tally(A), FALSE, f), TRUE, u))
    <3>1. Tally(A \cup {<<audit, k>>}) = Hears(Hears(Tally(A), FALSE, f), TRUE, u)
      BY <1>9
    <3>2. Accounts(Episode(t, {audit}, learned), Tally(A \cup {<<audit, k>>}))
      BY <1>10
    <3> QED BY <3>1, <3>2, Zenon
  <2> QED BY <1>10, <2>1, <2>2
<1> QED BY <1>11 DEF A, t

\* What the writer adds to the books before the task is answered for.
LEMMA FinishHeard ==
  ASSUME IInv, HeardInv, writer.pc # "idle", NEW u \in Usages, NEW audit, NEW drafts,
         \/ writer.pc = "write" /\ audit = Plain(u)
         \/ /\ writer.pc = "rewrite"
            /\ audit \in {Repaired(writer.first, u), FellBack(writer.first, u)},
         Finish(audit, drafts), UNCHANGED <<setting, agent, simulation>>,
         DOMAIN heard' = Tasks, heard'[Current] = Hears(heard[Current], TRUE, u),
         \A t \in Tasks \ {Current} : heard'[t] = heard[t]
  PROVE  HeardInv'
<1> DEFINE o == Episode(Current, {audit}, Learned(drafts))
           A == AuditsBy(agent[Current])
<1>1. /\ Finalizing /\ Writable(Current) /\ writer.first \in Usages
      /\ Current \in Tasks /\ agent[Current].pc = "ended"
      /\ \A i \in DOMAIN outcomes : Request[i] # Current
  BY AtWork, CurrentIsOpen DEF IInv, Typed
<1>2. Told(Current)
  BY <1>1 DEF HeardInv, HeardOf, Writable
<1>3. /\ Accounts(Episode(Current, {Plain(u)}, Learned(drafts)), Hears(Tally(A), TRUE, u))
      /\ \A b \in {Repaired(writer.first, u), FellBack(writer.first, u)} :
           Accounts(Episode(Current, {b}, Learned(drafts)),
                    Hears(Hears(Tally(A), FALSE, writer.first), TRUE, u))
  BY <1>1, EpisodeAccounts DEF Writable
<1>4. Accounts(o, heard'[Current])
  <2>1. CASE writer.pc = "write" /\ audit = Plain(u)
    <3>1. heard[Current] = Tally(A)
      BY <1>2, <2>1 DEF Told
    <3>2. heard'[Current] = Hears(Tally(A), TRUE, u)
      BY <3>1
    <3> HIDE DEF A
    <3> QED BY <1>3, <2>1, <3>2, Zenon
  <2>2. CASE /\ writer.pc = "rewrite"
             /\ audit \in {Repaired(writer.first, u), FellBack(writer.first, u)}
    <3>1. heard[Current] = Hears(Tally(A), FALSE, writer.first)
      BY <1>2, <2>2 DEF Told
    <3>2. heard'[Current] = Hears(Hears(Tally(A), FALSE, writer.first), TRUE, u)
      BY <3>1
    <3>3. Accounts(o, Hears(Hears(Tally(A), FALSE, writer.first), TRUE, u))
      <4> HIDE DEF A
      <4> QED BY <1>3, <2>2
    <3> HIDE DEF A, o
    <3> QED BY <3>2, <3>3, Zenon
  <2> QED BY <2>1, <2>2
<1>5. outcomes' = Append(outcomes, o) /\ writer' = Idle
  BY DEF Finish
<1> HIDE DEF o
<1> QED BY <1>1, <1>4, <1>5, AnswerHeard

LEMMA WritingHeard == ASSUME IInv, HeardInv, Writing PROVE HeardInv'
<1>1. DOMAIN heard = Tasks
  BY DEF HeardInv
<1>2. CASE WriterFails
  <2>1. /\ writer.pc # "idle" /\ outcomes' = Append(outcomes, Failure("finalize"))
        /\ writer' = Idle /\ UNCHANGED <<setting, agent, simulation, heard>>
    BY <1>2 DEF WriterFails, Fail
  <2>2. Failure("finalize").kind # "episode"
    BY DEF Failure
  <2> QED BY <1>1, <2>1, <2>2, AtWork, AnswerHeard
<1>3. CASE writer # Idle /\ \E r \in WritingResponses[Current] :
             Write(r) \/ Rewrite(r) \/ FallBack(r) \/ RefuseTainted(r)
  <2>1. PICK r \in WritingResponses[Current] :
          Write(r) \/ Rewrite(r) \/ FallBack(r) \/ RefuseTainted(r)
    BY <1>3
  <2>2. writer.pc \in {"write", "rewrite"} /\ UNCHANGED <<setting, agent, simulation>>
    BY <2>1 DEF Write, Rewrite, FallBack, RefuseTainted
  <2>3. Finalizing /\ Current \in Tasks
    BY <2>2, AtWork
  <2>4. r.usage \in Usages
    BY <2>3, ResponsesAreTyped
  <2>5. \A valid : Hear(Current, r, valid) =>
          /\ heard'[Current] = Hears(heard[Current], valid, r.usage) /\ DOMAIN heard' = Tasks
          /\ \A t \in Tasks \ {Current} : heard'[t] = heard[t]
    BY <1>1, <2>3, HearHears
  <2>6. CASE Write(r) /\ ~ValidWriting(r.output, Class(Current))
    <3>1. /\ writer.pc = "write" /\ writer' = [pc |-> "rewrite", first |-> r.usage]
          /\ Hear(Current, r, FALSE) /\ UNCHANGED outcomes
      BY <2>6 DEF Write, Hear
    <3>2. /\ DOMAIN heard' = Tasks /\ heard'[Current] = Hears(heard[Current], FALSE, r.usage)
          /\ \A t \in Tasks \ {Current} : heard'[t] = heard[t]
      BY <2>5, <3>1
    <3> QED BY <2>2, <2>3, <3>1, <3>2, WriterHeard
  <2>7. CASE (Write(r) /\ ValidWriting(r.output, Class(Current))) \/ Rewrite(r) \/ FallBack(r)
    <3>1. Hear(Current, r, TRUE)
      BY <2>7 DEF Write, Rewrite, FallBack, Hear
    <3>2. PICK audit, drafts :
            /\ Finish(audit, drafts)
            /\ \/ writer.pc = "write" /\ audit = Plain(r.usage)
               \/ /\ writer.pc = "rewrite"
                  /\ audit \in {Repaired(writer.first, r.usage), FellBack(writer.first, r.usage)}
      BY <2>7 DEF Write, Rewrite, FallBack
    <3>3. /\ DOMAIN heard' = Tasks /\ heard'[Current] = Hears(heard[Current], TRUE, r.usage)
          /\ \A t \in Tasks \ {Current} : heard'[t] = heard[t]
      BY <2>5, <3>1
    <3> QED BY <2>2, <2>4, <3>2, <3>3, FinishHeard
  <2>8. CASE RefuseTainted(r)
    <3>1. /\ outcomes' = Append(outcomes, Failure("finalize")) /\ writer' = Idle
          /\ Hear(Current, r, TRUE)
      BY <2>8 DEF RefuseTainted, Fail
    <3>2. Failure("finalize").kind # "episode"
      BY DEF Failure
    <3>3. DOMAIN heard' = Tasks /\ \A t \in Tasks \ {Current} : heard'[t] = heard[t]
      BY <2>5, <3>1
    <3> QED BY <2>2, <2>3, <3>1, <3>2, <3>3, AnswerHeard
  <2> QED BY <2>1, <2>6, <2>7, <2>8
<1> QED BY <1>2, <1>3 DEF Writing

LEMMA FinishWithoutWritingHeard ==
  ASSUME IInv, HeardInv, FinishWithoutWriting PROVE HeardInv'
<1> DEFINE o == Episode(Current, {}, NothingLearned)
<1>1. /\ Finalizing /\ writer = Idle /\ writer' = Idle /\ UNCHANGED <<setting, agent, simulation, heard>>
      /\ simulation[Current].reward # None /\ agent[Current].decisions # <<>>
      /\ outcomes' = Append(outcomes, o)
  BY DEF FinishWithoutWriting, Evaluated, InfrastructureFailure
<1>2. Current \in Tasks /\ agent[Current].pc = "ended"
      /\ \A i \in DOMAIN outcomes : Request[i] # Current
  BY <1>1, CurrentIsOpen
<1>3. heard[Current] = Tally(AuditsBy(agent[Current]))
  <2>1. Told(Current)
    BY <1>1, <1>2 DEF HeardInv, HeardOf
  <2> QED BY <1>1, <2>1 DEF Told, Idle
<1>4. Accounts(o, heard'[Current])
  <2>1. Accounts(o, Tally(AuditsBy(agent[Current])))
    BY <1>1, EpisodeAccounts
  <2>2. heard'[Current] = Tally(AuditsBy(agent[Current]))
    BY <1>1, <1>3
  <2> HIDE DEF o
  <2> QED BY <2>1, <2>2, Zenon
<1> HIDE DEF o
<1>5. DOMAIN heard' = Tasks
  BY <1>1 DEF HeardInv
<1> QED BY <1>1, <1>4, <1>5, AnswerHeard

\* Whatever else the executor does, the books are not touched.
LEMMA BooksStand ==
  ASSUME IInv, HeardInv, UNCHANGED <<setting, agent, simulation, writer, outcomes, heard>>
  PROVE  HeardInv'
<1>1. ASSUME NEW t \in Tasks PROVE HeardOf(t)'
  <2>1. HeardOf(t)
    BY DEF HeardInv
  <2>2. (Counted(t)' <=> Counted(t)) /\ (Told(t)' <=> Told(t))
    <3>1. Tally(AuditsBy(agent[t]))' = Tally(AuditsBy(agent[t])) /\ Current' = Current
      BY TallyStands DEF Current
    <3> QED BY <3>1 DEF Counted, Told, Hears
  <2> QED BY <2>1, <2>2 DEF HeardOf
<1>2. \A i \in DOMAIN outcomes' : outcomes'[i].kind = "episode" =>
        Accounts(outcomes[i], heard[Request[i]])'
  BY DEF HeardInv, Accounts
<1> QED BY <1>1, <1>2 DEF HeardInv

LEMMA HeardKept == ASSUME IInv, HeardInv, [Next]_vars PROVE HeardInv'
<1>1. CASE Collect \/ Return \/ UNCHANGED vars
  <2>1. UNCHANGED <<setting, agent, simulation, writer, outcomes, heard>>
    BY <1>1 DEF Collect, Return, vars
  <2> QED BY <2>1, BooksStand
<1>2. CASE FailInfrastructure \/ FailEmpty
  <2>1. PICK stage : outcomes' = Append(outcomes, Failure(stage))
    BY <1>2 DEF FailInfrastructure, FailEmpty, Fail
  <2>2. /\ Finalizing /\ writer' = Idle /\ UNCHANGED <<setting, agent, simulation, heard>>
    BY <1>2 DEF FailInfrastructure, FailEmpty
  <2>3. Failure(stage).kind # "episode" /\ DOMAIN heard' = Tasks
    BY <2>2 DEF Failure, HeardInv
  <2> QED BY <2>1, <2>2, <2>3, AnswerHeard
<1>3. CASE AskWriter
  <2>1. /\ Finalizing /\ writer' = [Idle EXCEPT !.pc = "write"] /\ writer = Idle
        /\ UNCHANGED <<setting, agent, simulation, outcomes, heard>>
    BY <1>3 DEF AskWriter, Evaluated
  <2> QED BY <2>1, WriterHeard
<1>4. CASE FinishWithoutWriting \/ Writing
  BY <1>4, FinishWithoutWritingHeard, WritingHeard
<1>5. CASE \E t \in Tasks : Run(t)
  BY <1>5, RunHeard
<1> QED BY <1>1, <1>2, <1>3, <1>4, <1>5 DEF Next, Execute

LEMMA AlwaysHeard == Spec => [](IInv /\ HeardInv)
BY Initially, StepKeeps, HeardInitially, HeardKept, PTL DEF Spec

\* The usage an episode reports is that of all responses it took, repairs and the
\* write decision included, and unknown if one of them is; every repair counts as
\* one error (accumulate_token_usage, finalize_simulation): for any number of turns.
THEOREM UsageIsAddedUp == Spec => []UsageAddsUp
<1>1. ASSUME IInv, HeardInv PROVE UsageAddsUp
  <2>1. ASSUME NEW e \in EpisodesOf
        PROVE  Accounts(e, heard[e.task])
    <3>1. PICK i \in DOMAIN outcomes : outcomes[i] = e /\ e.kind = "episode"
      BY DEF EpisodesOf, Range
    <3>2. e.task = Request[i]
      BY <1>1, <3>1 DEF IInv, Answered, Answer, Fits, EpisodeFits, FailureFits
    <3> QED BY <1>1, <3>1, <3>2 DEF HeardInv
  <2> QED BY <2>1 DEF UsageAddsUp, Accounts
<1> QED BY <1>1, AlwaysHeard, PTL


-----------------------------------------------------------------------------
(* Batches come to an end: the part of EveryBatchEnds that needs no fairness. *)

\* What a task still has before it, at most: attempts, turns of this attempt, and
\* stages of this turn.
AttemptsLeft(t) == Retries + 1 - attempts[t]
TurnsLeft(t) == MaxSteps - Len(agent[t].decisions)
StagesLeft(t) ==
  CASE agent[t].pc \in {"waiting", "retry", "ended"} -> 0
    [] agent[t].pc = "world" -> IF agent[t].stopped THEN 1 ELSE 9
    [] agent[t].pc = "react" -> 2
    [] agent[t].pc = "act" -> 3
    [] agent[t].pc = "reselect" -> 4
    [] agent[t].pc = "select" -> 5
    [] agent[t].pc = "retrieve" -> 6
    [] agent[t].pc = "lock" -> 7
    [] OTHER -> 8

\* The same of the executor: phases, tasks to answer for, and requests to the writer.
PhasesLeft == CASE phase = "running" -> 2 [] phase = "finalizing" -> 1 [] OTHER -> 0
AnswersLeft == Len(Request) - Len(outcomes)
WritesLeft == CASE writer.pc = "idle" -> 2 [] writer.pc = "write" -> 1 [] OTHER -> 0

\* Less is left: in the order of attempts, turns and stages.
TaskNearer(t) ==
  \/ AttemptsLeft(t)' < AttemptsLeft(t)
  \/ AttemptsLeft(t)' = AttemptsLeft(t) /\ TurnsLeft(t)' < TurnsLeft(t)
  \/ /\ AttemptsLeft(t)' = AttemptsLeft(t) /\ TurnsLeft(t)' = TurnsLeft(t)
     /\ StagesLeft(t)' < StagesLeft(t)
TaskStands(t) ==
  /\ AttemptsLeft(t)' = AttemptsLeft(t) /\ TurnsLeft(t)' = TurnsLeft(t)
  /\ StagesLeft(t)' = StagesLeft(t)
ExecutorNearer ==
  \/ PhasesLeft' < PhasesLeft
  \/ PhasesLeft' = PhasesLeft /\ AnswersLeft' < AnswersLeft
  \/ PhasesLeft' = PhasesLeft /\ AnswersLeft' = AnswersLeft /\ WritesLeft' < WritesLeft
ExecutorStands ==
  PhasesLeft' = PhasesLeft /\ AnswersLeft' = AnswersLeft /\ WritesLeft' = WritesLeft

\* Everything that is left is counted by a natural number.
LeftIsNat ==
  /\ \A t \in Tasks : AttemptsLeft(t) \in Nat /\ TurnsLeft(t) \in Nat /\ StagesLeft(t) \in Nat
  /\ PhasesLeft \in Nat /\ AnswersLeft \in Nat /\ WritesLeft \in Nat

LEMMA LeftCounted == ASSUME IInv PROVE LeftIsNat
<1>1. ASSUME NEW t \in Tasks
      PROVE  AttemptsLeft(t) \in Nat /\ TurnsLeft(t) \in Nat /\ StagesLeft(t) \in Nat
  <2>1. attempts[t] \in 0..(Retries + 1) /\ agent[t].decisions \in Seq(Turns)
        /\ Len(agent[t].decisions) <= MaxSteps
    BY DEF IInv, Typed, Sound, AgentStates
  <2>2. Len(agent[t].decisions) \in Nat
    BY <2>1
  <2>3. AttemptsLeft(t) \in Nat /\ TurnsLeft(t) \in Nat
    BY <2>1, <2>2, BoundAssumption DEF AttemptsLeft, TurnsLeft
  <2>4. StagesLeft(t) \in Nat
    BY DEF StagesLeft
  <2> QED BY <2>3, <2>4
<1>2. PhasesLeft \in Nat /\ WritesLeft \in Nat
  BY DEF PhasesLeft, WritesLeft
<1>3. AnswersLeft \in Nat
  <2>1. Len(outcomes) \in Nat /\ Len(Request) \in Nat /\ Len(outcomes) <= Len(Request)
    BY RequestAssumption DEF IInv, Answered
  <2> QED BY <2>1 DEF AnswersLeft
<1> QED BY <1>1, <1>2, <1>3 DEF LeftIsNat

\* One more attempt is begun, or a turn decided, or a stage of the turn is over.
LEMMA TaskAdvances ==
  ASSUME NEW t \in Tasks, IInv, Run(t)
  PROVE  \/ attempts'[t] = attempts[t] + 1
         \/ /\ attempts'[t] = attempts[t]
            /\ Len(agent'[t].decisions) = Len(agent[t].decisions) + 1
         \/ /\ attempts'[t] = attempts[t]
            /\ agent'[t].decisions = agent[t].decisions
            /\ StagesLeft(t)' < StagesLeft(t)
<1>1. /\ agent \in [Tasks -> AgentStates] /\ agent[t] \in AgentStates
      /\ attempts \in [Tasks -> 0..(Retries + 1)]
      /\ agent[t].decisions \in Seq(Turns)
  BY DEF IInv, Typed, AgentStates
<1>2. CASE Begin(t)
  BY <1>1, <1>2 DEF Begin
<1>3. CASE SayStop(t)
  <2>1. /\ agent'[t].decisions = agent[t].decisions /\ attempts' = attempts
        /\ agent[t].pc = "turn" /\ agent'[t].pc = "world" /\ agent'[t].stopped
    BY <1>1, <1>3 DEF SayStop, AgentStates
  <2> QED BY <2>1 DEF StagesLeft
<1>4. CASE TakeTurn(t)
  <2>1. /\ agent'[t].decisions = agent[t].decisions /\ attempts' = attempts
        /\ agent[t].pc = "turn" /\ agent'[t].pc \in {"act", "lock"}
    BY <1>1, <1>4 DEF TakeTurn, AgentStates
  <2> QED BY <2>1 DEF StagesLeft
<1>5. CASE \/ WorldReplies(t) \/ Lock(t) \/ Retrieve(t)
           \/ \E end \in Evaluations[t] : WorldEnds(t, end)
  <2>1. /\ agent'[t].decisions = agent[t].decisions /\ attempts' = attempts
        /\ \/ agent[t].pc = "world" /\ ~agent[t].stopped /\ agent'[t].pc = "turn"
           \/ agent[t].pc = "lock" /\ agent'[t].pc = "retrieve"
           \/ agent[t].pc = "retrieve" /\ agent'[t].pc = "select"
           \/ agent[t].pc = "world" /\ agent'[t].pc = "ended"
    BY <1>1, <1>5 DEF WorldReplies, Lock, Retrieve, WorldEnds, AgentStates
  <2> QED BY <2>1 DEF StagesLeft
<1>6. CASE \/ WorldFails(t) \/ RetrieveFails(t) \/ CallFails(t)
           \/ \E r \in SelectionResponses[t] : RefuseSelection(t, r)
           \/ \E r \in ActionResponses[t] : RefuseAction(t, r)
  <2>1. /\ Abandon(t) /\ attempts' = attempts
        /\ agent[t].pc \in {"world", "retrieve", "select", "reselect", "act", "react"}
    BY <1>6 DEF WorldFails, RetrieveFails, CallFails, RefuseSelection, RefuseAction
  <2>2. agent'[t].decisions = agent[t].decisions /\ agent'[t].pc \in {"retry", "ended"}
    BY <1>1, <2>1 DEF Abandon, AgentStates
  <2> QED BY <2>1, <2>2 DEF StagesLeft
<1>7. ASSUME NEW r \in SelectionResponses[t], Select(t, r) \/ Reselect(t, r)
      PROVE  /\ agent'[t].decisions = agent[t].decisions /\ attempts' = attempts
             /\ StagesLeft(t)' < StagesLeft(t)
  <2>1. CASE Select(t, r)
    <3>1. /\ agent[t].pc = "select" /\ attempts' = attempts
          /\ agent'[t].decisions = agent[t].decisions /\ agent'[t].pc \in {"act", "reselect"}
      <4>1. /\ agent[t].pc = "select" /\ attempts' = attempts
            /\ \/ \E start : agent' = [agent EXCEPT ![t].pc = "act", ![t].started = TRUE,
                                                   ![t].start = start]
               \/ agent' = [agent EXCEPT ![t].pc = "reselect", ![t].first = r.usage]
        BY <2>1 DEF Select
      <4> QED BY <1>1, <4>1 DEF AgentStates
    <3> QED BY <3>1 DEF StagesLeft
  <2>2. CASE Reselect(t, r)
    <3>1. /\ agent[t].pc = "reselect" /\ attempts' = attempts
          /\ agent'[t].decisions = agent[t].decisions /\ agent'[t].pc = "act"
      <4>1. /\ agent[t].pc = "reselect" /\ attempts' = attempts
            /\ \E start : agent' = [agent EXCEPT ![t].pc = "act", ![t].started = TRUE,
                                                ![t].first = None, ![t].start = start]
        BY <2>2 DEF Reselect
      <4> QED BY <1>1, <4>1 DEF AgentStates
    <3> QED BY <3>1 DEF StagesLeft
  <2> QED BY <1>7, <2>1, <2>2
<1>8. ASSUME NEW r \in ActionResponses[t], Act(t, r) \/ React(t, r)
      PROVE  /\ attempts' = attempts
             /\ \/ Len(agent'[t].decisions) = Len(agent[t].decisions) + 1
                \/ agent'[t].decisions = agent[t].decisions /\ StagesLeft(t)' < StagesLeft(t)
  <2>1. CASE Act(t, r)
    <3>1. /\ agent[t].pc = "act" /\ attempts' = attempts
          /\ \/ \E stopped, x :
                  agent' = [agent EXCEPT ![t].pc = "world", ![t].stopped = stopped,
                                         ![t].decisions = Append(agent[t].decisions, x)]
             \/ agent' = [agent EXCEPT ![t].pc = "react", ![t].first = r.usage]
      BY <2>1 DEF Act, Decided
    <3>2. CASE agent' = [agent EXCEPT ![t].pc = "react", ![t].first = r.usage]
      <4>1. agent'[t].decisions = agent[t].decisions /\ agent'[t].pc = "react"
        BY <1>1, <3>2 DEF AgentStates
      <4>2. agent[t].pc = "act" /\ attempts' = attempts
        BY <3>1
      <4>3. StagesLeft(t)' = 2 /\ StagesLeft(t) = 3
        BY <4>1, <4>2 DEF StagesLeft
      <4> QED BY <4>1, <4>2, <4>3
    <3>3. ASSUME NEW stopped, NEW x,
                 agent' = [agent EXCEPT ![t].pc = "world", ![t].stopped = stopped,
                                        ![t].decisions = Append(agent[t].decisions, x)]
          PROVE  Len(agent'[t].decisions) = Len(agent[t].decisions) + 1
      <4>1. agent'[t].decisions = Append(agent[t].decisions, x)
        BY <1>1, <3>3 DEF AgentStates
      <4> QED BY <1>1, <4>1
    <3> QED BY <3>1, <3>2, <3>3
  <2>2. CASE React(t, r)
    <3>1. attempts' = attempts
          /\ \E stopped, x :
               agent' = [agent EXCEPT ![t].pc = "world", ![t].stopped = stopped, ![t].first = None,
                                      ![t].decisions = Append(agent[t].decisions, x)]
      BY <2>2 DEF React, Decided
    <3>2. PICK stopped, x :
            agent' = [agent EXCEPT ![t].pc = "world", ![t].stopped = stopped, ![t].first = None,
                                   ![t].decisions = Append(agent[t].decisions, x)]
      BY <3>1
    <3>3. agent'[t].decisions = Append(agent[t].decisions, x)
      BY <1>1, <3>2 DEF AgentStates
    <3>4. Len(agent'[t].decisions) = Len(agent[t].decisions) + 1
      BY <1>1, <3>3
    <3> QED BY <3>1, <3>4
  <2> QED BY <1>8, <2>1, <2>2
<1>9. CASE World(t)
  BY <1>5, <1>6, <1>9 DEF World
<1>10. CASE Retrieval(t)
  BY <1>5, <1>6, <1>10 DEF Retrieval
<1>11. CASE Choice(t)
  <2>1. CASE CallFails(t)
    BY <1>6, <2>1
  <2>2. CASE \E r \in SelectionResponses[t] : Select(t, r) \/ Reselect(t, r) \/ RefuseSelection(t, r)
    BY <1>6, <1>7, <2>2
  <2>3. CASE \E r \in ActionResponses[t] : Act(t, r) \/ React(t, r) \/ RefuseAction(t, r)
    BY <1>6, <1>8, <2>3
  <2> QED BY <1>11, <2>1, <2>2, <2>3 DEF Choice
<1> QED BY <1>2, <1>3, <1>4, <1>9, <1>10, <1>11 DEF Run

\* Nothing else moves meanwhile.
LEMMA OthersStand ==
  ASSUME NEW t \in Tasks, IInv, Run(t)
  PROVE  ExecutorStands /\ \A u \in Tasks \ {t} : TaskStands(u)
<1>1. Typed
  BY DEF IInv
<1>2. CASE Begin(t)
  BY <1>1, <1>2 DEF Begin, Typed, ExecutorStands, PhasesLeft, AnswersLeft, WritesLeft,
                    TaskStands, AttemptsLeft, TurnsLeft, StagesLeft
<1>3. CASE ~Begin(t)
  <2>1. UNCHANGED <<attempts, phase, writer, outcomes>>
    BY <1>3 DEF Run, SayStop, TakeTurn, World, WorldReplies, WorldEnds, WorldFails,
                Retrieval, Lock, Retrieve, RetrieveFails, Choice, Select, Reselect,
                RefuseSelection, Act, React, RefuseAction, CallFails
  <2>2. ASSUME NEW u \in Tasks \ {t} PROVE agent'[u] = agent[u]
    <3>1. CASE SayStop(t) \/ TakeTurn(t) \/ World(t) \/ Retrieval(t)
      BY <1>1, <3>1 DEF SayStop, TakeTurn, World, WorldReplies, WorldEnds, WorldFails,
                        Retrieval, Lock, Retrieve, RetrieveFails, Abandon, Typed
    <3>2. CASE Choice(t)
      BY <1>1, <3>2 DEF Choice, Select, Reselect, RefuseSelection, Act, React, RefuseAction,
                        CallFails, Abandon, Typed
    <3> QED BY <1>3, <3>1, <3>2 DEF Run
  <2> QED BY <2>1, <2>2 DEF ExecutorStands, PhasesLeft, AnswersLeft, WritesLeft,
                            TaskStands, AttemptsLeft, TurnsLeft, StagesLeft
<1> QED BY <1>2, <1>3

\* A step of the executor ends a phase, answers for a task, or asks once more.
LEMMA ExecutorAdvances ==
  ASSUME IInv, Execute
  PROVE  ExecutorNearer /\ \A t \in Tasks : TaskStands(t)
<1>1. UNCHANGED <<agent, attempts>>
  BY DEF Execute, Collect, FailInfrastructure, FailEmpty, FinishWithoutWriting, AskWriter,
         Writing, Write, Rewrite, FallBack, RefuseTainted, WriterFails, Return
<1>2. \A t \in Tasks : TaskStands(t)
  BY <1>1 DEF TaskStands, AttemptsLeft, TurnsLeft, StagesLeft
<1>3. CASE Collect \/ Return
  <2>1. \/ phase = "running" /\ phase' \in {"raised", "finalizing"}
        \/ phase = "finalizing" /\ phase' = "returned"
    BY <1>3 DEF Collect, Return
  <2>2. PhasesLeft' < PhasesLeft
    BY <2>1 DEF PhasesLeft
  <2> QED BY <1>2, <2>2 DEF ExecutorNearer
<1>4. ASSUME NEW o, outcomes' = Append(outcomes, o), UNCHANGED phase PROVE ExecutorNearer
  <2>1. PICK S : outcomes \in Seq(S)
    BY DEF IInv, Answered
  <2>2. Len(outcomes') = Len(outcomes) + 1 /\ Len(outcomes) \in Nat /\ Len(Request) \in Nat
    BY <1>4, <2>1, RequestAssumption
  <2>3. AnswersLeft' < AnswersLeft
    BY <2>2 DEF AnswersLeft
  <2> QED BY <1>4, <2>3 DEF ExecutorNearer, PhasesLeft
<1>5. CASE FailInfrastructure \/ FailEmpty \/ FinishWithoutWriting \/ WriterFails
  <2>1. UNCHANGED phase /\ \E o : outcomes' = Append(outcomes, o)
    BY <1>5 DEF FailInfrastructure, FailEmpty, FinishWithoutWriting, WriterFails, Fail
  <2> QED BY <1>2, <1>4, <2>1
<1>6. ASSUME UNCHANGED <<phase, outcomes>>,
             \/ writer.pc = "idle" /\ writer'.pc = "write"
             \/ writer.pc = "write" /\ writer'.pc = "rewrite"
      PROVE  ExecutorNearer
  BY <1>6 DEF ExecutorNearer, PhasesLeft, AnswersLeft, WritesLeft
<1>7. CASE AskWriter
  <2>1. writer.pc = "idle" /\ writer'.pc = "write" /\ UNCHANGED <<phase, outcomes>>
    BY <1>7 DEF AskWriter, Evaluated, Idle
  <2> QED BY <1>2, <1>6, <2>1
<1>8. ASSUME NEW r, Write(r) PROVE ExecutorNearer
  <2>1. /\ UNCHANGED phase
        /\ \/ \E o : outcomes' = Append(outcomes, o)
           \/ UNCHANGED outcomes /\ writer.pc = "write" /\ writer'.pc = "rewrite"
    BY <1>8 DEF Write, Finish
  <2>2. CASE \E o : outcomes' = Append(outcomes, o)
    BY <1>4, <2>1, <2>2
  <2> QED BY <1>6, <2>1, <2>2
<1>9. ASSUME NEW r, Rewrite(r) \/ FallBack(r) \/ RefuseTainted(r) PROVE ExecutorNearer
  <2>1. UNCHANGED phase /\ \E o : outcomes' = Append(outcomes, o)
    BY <1>9 DEF Rewrite, FallBack, RefuseTainted, Finish, Fail
  <2> QED BY <1>4, <2>1
<1> QED BY <1>2, <1>3, <1>5, <1>7, <1>8, <1>9 DEF Execute, Writing

\* Every step of a batch leaves one of its tasks, or its executor, less to do and
\* gives no other any more, and what is left is counted in natural numbers: the
\* retries, the turns and the repairs bound every batch, however long the answers
\* of the model are wrong (run_domain, generate_decision,
\* Tau2BenchmarkExecutor.execute).  A batch that goes on at all comes to its end.
THEOREM BatchesComeToAnEnd ==
  Spec => /\ []LeftIsNat
          /\ [][\/ \E t \in Tasks :
                     /\ TaskNearer(t)
                     /\ ExecutorStands /\ \A u \in Tasks \ {t} : TaskStands(u)
                \/ ExecutorNearer /\ \A t \in Tasks : TaskStands(t)]_vars
<1>1. ASSUME NEW t \in Tasks, IInv, Run(t) PROVE TaskNearer(t)
  <2>1. attempts[t] \in Nat /\ Len(agent[t].decisions) \in Nat
    <3>1. attempts[t] \in 0..(Retries + 1) /\ agent[t].decisions \in Seq(Turns)
      BY <1>1 DEF IInv, Typed, AgentStates
    <3> QED BY <3>1, BoundAssumption
  <2>2. \/ attempts'[t] = attempts[t] + 1
        \/ /\ attempts'[t] = attempts[t]
           /\ Len(agent'[t].decisions) = Len(agent[t].decisions) + 1
        \/ /\ attempts'[t] = attempts[t]
           /\ agent'[t].decisions = agent[t].decisions
           /\ StagesLeft(t)' < StagesLeft(t)
    BY <1>1, TaskAdvances
  <2>3. MaxSteps \in Nat /\ Retries \in Nat
    BY BoundAssumption
  <2>4. CASE attempts'[t] = attempts[t] + 1
    <3>1. AttemptsLeft(t)' < AttemptsLeft(t)
      BY <2>1, <2>3, <2>4 DEF AttemptsLeft
    <3> QED BY <3>1 DEF TaskNearer
  <2>5. CASE attempts'[t] = attempts[t]
    <3>1. AttemptsLeft(t)' = AttemptsLeft(t)
      BY <2>5 DEF AttemptsLeft
    <3>2. CASE Len(agent'[t].decisions) = Len(agent[t].decisions) + 1
      <4>1. TurnsLeft(t)' < TurnsLeft(t)
        BY <2>1, <2>3, <3>2 DEF TurnsLeft
      <4> QED BY <3>1, <4>1 DEF TaskNearer
    <3>3. CASE agent'[t].decisions = agent[t].decisions /\ StagesLeft(t)' < StagesLeft(t)
      <4>1. TurnsLeft(t)' = TurnsLeft(t)
        BY <3>3 DEF TurnsLeft
      <4> QED BY <3>1, <3>3, <4>1 DEF TaskNearer
    <3>4. CASE attempts'[t] = attempts[t] + 1
      BY <2>1, <2>5, <3>4
    <3> QED BY <2>2, <3>2, <3>3, <3>4
  <2> QED BY <2>2, <2>4, <2>5
<1>2. ASSUME IInv, Next
      PROVE  \/ \E t \in Tasks :
                  /\ TaskNearer(t)
                  /\ ExecutorStands /\ \A u \in Tasks \ {t} : TaskStands(u)
             \/ ExecutorNearer /\ \A t \in Tasks : TaskStands(t)
  BY <1>1, <1>2, OthersStand, ExecutorAdvances DEF Next
<1>3. IInv => LeftIsNat
  BY LeftCounted
<1> QED BY <1>2, <1>3, Invariance, PTL DEF Spec
=============================================================================
