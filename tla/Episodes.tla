------------------------------ MODULE Episodes ------------------------------
(***************************************************************************)
(* The episodes of one batch (src/tau3_evolver/benchmarks/tau2/agent.py,   *)
(* executor.py, episodes.py, models/openai_compatible.py).                 *)
(*                                                                         *)
(* Tau2 runs the tasks of the batch in a pool of threads and an attempt at *)
(* a task again when it raised.  The agent of an attempt retrieves under a *)
(* lock that all agents share, asks the model to select Memories and then  *)
(* for one action per turn, each time with one repair.  What the agent     *)
(* did is carried by the messages of the simulation.  When all tasks are   *)
(* through, the executor turns simulations into episodes, one by one in    *)
(* the order of the request, and asks the model what to remember.          *)
(*                                                                         *)
(* Tau2 and the model are external: replies, rewards, outputs and failures *)
(* are arbitrary, within the bounds the constants give.                    *)
(***************************************************************************)
EXTENDS Decisions, FiniteSetsExt, Functions

CONSTANTS
  Tasks,
  Request,      \* the tasks in the order of the request
  MaxSteps,     \* rollout.max_episode_steps
  Retries,      \* max_retries of run_domain
  Concurrency,  \* max_concurrency of run_domain
  Instances,    \* Memory enabled or not, experience proposed or not, what is offered
  SelectionResponses, ActionResponses, WritingResponses,  \* what a model answers
  Evaluations   \* how the conversation on each task may end

ASSUME RequestAssumption ==
  /\ Request \in Seq(Tasks) /\ Request # <<>>
  /\ Range(Request) = Tasks
  /\ \A i, j \in DOMAIN Request : i # j => Request[i] # Request[j]
ASSUME BoundAssumption ==
  MaxSteps \in Nat \ {0} /\ Retries \in Nat /\ Concurrency \in Nat \ {0}
ASSUME TaskAssumption == None \notin Tasks
ASSUME ResponseAssumption ==
  /\ SelectionResponses \in [Tasks -> SUBSET [output : Selections, usage : Usages]]
  /\ ActionResponses \in [Tasks -> SUBSET [output : Actions, usage : Usages]]
  /\ WritingResponses \in [Tasks -> SUBSET [output : Writings, usage : Usages]]
\* A reward of 1 is a success; None stands for an evaluation that failed.
ASSUME EvaluationAssumption ==
  Evaluations \in [Tasks -> SUBSET [reason : {"stop", "max_steps", "timeout"},
                                    reward : {0, 1, None}]]

\* A retrieval ranks each Memory once; without Memory nothing is proposed.
ASSUME InstanceAssumption ==
  \A i \in Instances :
    /\ i.memory \in BOOLEAN /\ i.propose \in BOOLEAN /\ (i.propose => i.memory)
    /\ i.offers \in [Tasks -> Seq(Memories)]
    /\ \A t \in Tasks : \A j, k \in DOMAIN i.offers[t] :
         j # k => i.offers[t][j] # i.offers[t][k]
    /\ i.usable \in SUBSET Memories
    /\ i.faults \in Nat

VARIABLES
  setting,     \* the instance
  agent,       \* the agent of the current attempt at each task
  attempts,    \* attempts begun at each task
  simulation,  \* what run_domain has for each task, None while it runs
  holder,      \* task that is in the retrieval lock, None if free
  phase,       \* of the executor: running, finalizing, returned or raised
  writer,      \* the write decision that is being made
  outcomes,    \* episodes and failures, in the order of the request
  faults,      \* failures that may still happen
  heard        \* history: responses to the current attempt and their usage

vars == <<setting, agent, attempts, simulation, holder, phase, writer, outcomes,
          faults, heard>>

-----------------------------------------------------------------------------
(* Agents *)

\* Tau3AgentState; first is the usage of a response that needs a repair, start
\* the evidence of what was offered and chosen, decisions the audits of the
\* actions, each with the attempt it was made in (history).
FreshAgent(pc) ==
  [pc |-> pc, started |-> FALSE, stopped |-> FALSE, start |-> None, first |-> None,
   decisions |-> <<>>]

\* filter_tool_memory_candidates: ranks stay those of the retrieval.
Compatible(t) ==
  {k \in DOMAIN setting.offers[t] :
     \/ Tier[setting.offers[t][k]] # "tool"
     \/ setting.offers[t][k] \in setting.usable}

Offered(t) == {setting.offers[t][k] : k \in Compatible(t)}

Idle == [pc |-> "idle", first |-> None]
Nothing == [count |-> 0, bad |-> 0, usage |-> 0]

Init ==
  /\ setting \in Instances
  /\ agent = [t \in Tasks |-> FreshAgent("waiting")]
  /\ attempts = [t \in Tasks |-> 0]
  /\ simulation = [t \in Tasks |-> None]
  /\ holder = None
  /\ phase = "running"
  /\ writer = Idle
  /\ outcomes = <<>>
  /\ faults = setting.faults
  /\ heard = [t \in Tasks |-> Nothing]

\* Tasks a thread of the pool works on.
Busy == {t \in Tasks : agent[t].pc \notin {"waiting", "ended"}}

\* (mutant: a new attempt goes on with the state of the last one)
BeginAgain(t) ==
  /\ \/ agent[t].pc = "waiting" /\ Cardinality(Busy) < Concurrency
     \/ agent[t].pc = "retry"
  /\ agent' = [agent EXCEPT ![t].pc = "world"]
  /\ attempts' = [attempts EXCEPT ![t] = @ + 1]
  /\ heard' = [heard EXCEPT ![t] = Nothing]
  /\ UNCHANGED <<setting, simulation, holder, phase, writer, outcomes, faults>>

\* Every attempt gets an agent and a state of its own.
Begin(t) ==
  /\ \/ agent[t].pc = "waiting" /\ Cardinality(Busy) < Concurrency
     \/ agent[t].pc = "retry"
  /\ agent' = [agent EXCEPT ![t] = FreshAgent("world")]
  /\ attempts' = [attempts EXCEPT ![t] = @ + 1]
  /\ heard' = [heard EXCEPT ![t] = Nothing]
  /\ UNCHANGED <<setting, simulation, holder, phase, writer, outcomes, faults>>

-----------------------------------------------------------------------------
(* Tau2 *)

Fault == faults > 0 /\ faults' = faults - 1

\* The user, or a tool, answers; a stop message ends the conversation.
WorldReplies(t) ==
  /\ agent[t].pc = "world" /\ ~agent[t].stopped
  /\ agent' = [agent EXCEPT ![t].pc = "turn"]
  /\ UNCHANGED <<setting, attempts, simulation, holder, phase, writer, outcomes, faults, heard>>

\* The conversation ends and is evaluated, or could not be.  It may end before
\* the agent was asked at all.
WorldEnds(t, end) ==
  /\ agent[t].pc = "world"
  /\ agent[t].stopped => end.reason = "stop"
  /\ IF end.reward = None THEN Fault ELSE UNCHANGED faults
  /\ simulation' = [simulation EXCEPT ![t] = end]
  /\ agent' = [agent EXCEPT ![t].pc = "ended"]
  /\ UNCHANGED <<setting, attempts, holder, phase, writer, outcomes, heard>>

\* The attempt raised: there is another one, or the task is an infrastructure
\* failure, or left out of the results.
Lost == {"infrastructure_error", "omitted"}

Abandon(t) ==
  IF attempts[t] <= Retries
  THEN /\ agent' = [agent EXCEPT ![t].pc = "retry"]
       /\ UNCHANGED simulation
  ELSE /\ agent' = [agent EXCEPT ![t].pc = "ended"]
       /\ \E reason \in Lost :
            simulation' = [simulation EXCEPT ![t] = [reason |-> reason, reward |-> None]]

WorldFails(t) ==
  /\ Fault
  /\ agent[t].pc = "world"
  /\ Abandon(t)
  /\ UNCHANGED <<setting, attempts, holder, phase, writer, outcomes, heard>>

-----------------------------------------------------------------------------
(* generate_next_message *)

\* After the last turn the agent says stop, and no decision goes with it.
SayStop(t) ==
  /\ agent[t].pc = "turn" /\ Len(agent[t].decisions) >= MaxSteps
  /\ agent' = [agent EXCEPT ![t].pc = "world", ![t].stopped = TRUE]
  /\ UNCHANGED <<setting, attempts, simulation, holder, phase, writer, outcomes, faults, heard>>

\* The first turn waits for the lock if there is Memory to select.
TakeTurn(t) ==
  /\ agent[t].pc = "turn" /\ Len(agent[t].decisions) < MaxSteps
  /\ agent' = [agent EXCEPT ![t].pc =
                 IF agent[t].started \/ ~setting.memory THEN "act" ELSE "lock",
               ![t].started = @ \/ ~setting.memory]
  /\ UNCHANGED <<setting, attempts, simulation, holder, phase, writer, outcomes, faults, heard>>

Lock(t) ==
  /\ agent[t].pc = "lock" /\ holder = None
  /\ holder' = t
  /\ agent' = [agent EXCEPT ![t].pc = "retrieve"]
  /\ UNCHANGED <<setting, attempts, simulation, phase, writer, outcomes, faults, heard>>

Retrieve(t) ==
  /\ agent[t].pc = "retrieve"
  /\ holder' = None
  /\ agent' = [agent EXCEPT ![t].pc = "select"]
  /\ UNCHANGED <<setting, attempts, simulation, phase, writer, outcomes, faults, heard>>

\* (mutant: the lock is given back only after a retrieval that worked)
RetrieveFailsLocked(t) ==
  /\ Fault
  /\ agent[t].pc = "retrieve"
  /\ Abandon(t)
  /\ UNCHANGED <<setting, attempts, holder, phase, writer, outcomes, heard>>

\* The embedding model failed; the lock is given back.
RetrieveFails(t) ==
  /\ Fault
  /\ agent[t].pc = "retrieve"
  /\ holder' = None
  /\ Abandon(t)
  /\ UNCHANGED <<setting, attempts, phase, writer, outcomes, heard>>

Hear(t, response, valid) ==
  heard' = [heard EXCEPT ![t] = [count |-> @.count + 1,
                                 bad |-> @.bad + IF valid THEN 0 ELSE 1,
                                 usage |-> Sum(@.usage, response.usage)]]

\* What the first decision carries: the offer with its ranks, and the choice.
StartMarker(t, ids, audit) ==
  [ranks |-> Compatible(t), ids |-> ids, audit |-> audit, attempt |-> attempts[t]]

\* generate_decision, twice: the first response, and the repair it may need.
Select(t, response) ==
  LET valid == ValidSelection(response.output, Offered(t))
  IN  /\ agent[t].pc = "select"
      /\ Hear(t, response, valid)
      /\ agent' = IF valid
                  THEN [agent EXCEPT ![t].pc = "act", ![t].started = TRUE,
                          ![t].start = StartMarker(t, response.output.ids,
                                                   Plain(response.usage))]
                  ELSE [agent EXCEPT ![t].pc = "reselect", ![t].first = response.usage]
      /\ UNCHANGED <<setting, attempts, simulation, holder, phase, writer, outcomes, faults>>

Reselect(t, response) ==
  /\ agent[t].pc = "reselect"
  /\ Hear(t, response, TRUE)
  /\ ValidSelection(response.output, Offered(t))
  /\ agent' = [agent EXCEPT ![t].pc = "act", ![t].started = TRUE, ![t].first = None,
                 ![t].start = StartMarker(t, response.output.ids,
                                          Repaired(agent[t].first, response.usage))]
  /\ UNCHANGED <<setting, attempts, simulation, holder, phase, writer, outcomes, faults>>

\* A selection has no fallback: the attempt is lost.
RefuseSelection(t, response) ==
  /\ agent[t].pc = "reselect"
  /\ Hear(t, response, TRUE)
  /\ ~ValidSelection(response.output, Offered(t))
  /\ Abandon(t)
  /\ UNCHANGED <<setting, attempts, holder, phase, writer, outcomes, faults>>

Decided(t, audit) == Append(agent[t].decisions, [audit |-> audit, attempt |-> attempts[t]])

Act(t, response) ==
  LET valid == ValidAction(response.output)
  IN  /\ agent[t].pc = "act"
      /\ Hear(t, response, valid)
      /\ agent' = IF valid
                  THEN [agent EXCEPT ![t].pc = "world", ![t].stopped = response.output.stop,
                          ![t].decisions = Decided(t, Plain(response.usage))]
                  ELSE [agent EXCEPT ![t].pc = "react", ![t].first = response.usage]
      /\ UNCHANGED <<setting, attempts, simulation, holder, phase, writer, outcomes, faults>>

React(t, response) ==
  /\ agent[t].pc = "react"
  /\ Hear(t, response, TRUE)
  /\ ValidAction(response.output)
  /\ agent' = [agent EXCEPT ![t].pc = "world", ![t].stopped = response.output.stop,
                 ![t].first = None,
                 ![t].decisions = Decided(t, Repaired(agent[t].first, response.usage))]
  /\ UNCHANGED <<setting, attempts, simulation, holder, phase, writer, outcomes, faults>>

RefuseAction(t, response) ==
  /\ agent[t].pc = "react"
  /\ Hear(t, response, TRUE)
  /\ ~ValidAction(response.output)
  /\ Abandon(t)
  /\ UNCHANGED <<setting, attempts, holder, phase, writer, outcomes, faults>>

\* The endpoint failed, timed out, or answered something that is no completion.
CallFails(t) ==
  /\ Fault
  /\ agent[t].pc \in {"select", "reselect", "act", "react"}
  /\ Abandon(t)
  /\ UNCHANGED <<setting, attempts, holder, phase, writer, outcomes, heard>>

-----------------------------------------------------------------------------
(* Tau2BenchmarkExecutor.execute and finalize_simulation *)

\* run_domain returns when all tasks are through.  A result that is missing
\* costs the whole batch.
Collect ==
  /\ phase = "running"
  /\ \A t \in Tasks : agent[t].pc = "ended"
  /\ phase' = IF \E t \in Tasks : simulation[t].reason = "omitted"
              THEN "raised" ELSE "finalizing"
  /\ UNCHANGED <<setting, agent, attempts, simulation, holder, writer, outcomes, faults, heard>>

\* (mutant: only the reason of the termination is looked at)
Unfinished(t) == simulation[t].reason = "infrastructure_error"

InfrastructureFailure(t) ==
  simulation[t].reason = "infrastructure_error" \/ simulation[t].reward = None

Current == Request[Len(outcomes) + 1]

Finalizing == phase = "finalizing" /\ Len(outcomes) < Len(Request)

Failure(stage) == [task |-> Current, kind |-> "failure", stage |-> stage]

Fail(stage) == outcomes' = Append(outcomes, Failure(stage))

FailInfrastructure ==
  /\ Finalizing /\ writer = Idle
  /\ InfrastructureFailure(Current)
  /\ Fail("run_domain")
  /\ UNCHANGED <<setting, agent, attempts, simulation, holder, phase, writer, faults, heard>>

\* The agent never came to a decision.
FailEmpty ==
  /\ Finalizing /\ writer = Idle
  /\ ~InfrastructureFailure(Current)
  /\ agent[Current].decisions = <<>>
  /\ Fail("finalize")
  /\ UNCHANGED <<setting, agent, attempts, simulation, holder, phase, writer, faults, heard>>

Truncated(t) ==
  \/ simulation[t].reason \in {"max_steps", "timeout"}
  \/ Len(agent[t].decisions) >= MaxSteps

Class(t) == OutcomeClass(simulation[t].reward, Truncated(t))

\* The audits an episode adds up: selection, actions, and the write decision.
AuditsOf(t, writing) ==
  (IF setting.memory THEN {agent[t].start.audit} \X {0} ELSE {})
  \cup {<<agent[t].decisions[i].audit, i>> : i \in DOMAIN agent[t].decisions}
  \cup {<<audit, MaxSteps + 1>> : audit \in writing}

TotalUsage(audits) ==
  IF \E a \in audits : a[1].usage = None THEN None
  ELSE MapThenSumSet(LAMBDA a : a[1].usage, audits)

Episode(t, writing, learned) ==
  LET audits == AuditsOf(t, writing)
  IN  [task |-> t, kind |-> "episode",
       start |-> agent[t].start, decisions |-> agent[t].decisions,
       reward |-> simulation[t].reward, truncated |-> Truncated(t),
       responses |-> Cardinality(audits),
       errors |-> Cardinality({a \in audits : a[1].repaired}),
       usage |-> TotalUsage(audits), learned |-> learned]

Evaluated ==
  /\ Finalizing /\ writer = Idle
  /\ ~InfrastructureFailure(Current)
  /\ agent[Current].decisions # <<>>

NothingLearned == Learned(<<>>)

\* The rule-made trajectory is proposed in any case and is left out here.
FinishWithoutWriting ==
  /\ Evaluated
  /\ ~setting.propose \/ Class(Current) = "incomplete"
  /\ outcomes' = Append(outcomes, Episode(Current, {}, NothingLearned))
  /\ UNCHANGED <<setting, agent, attempts, simulation, holder, phase, writer, faults, heard>>

AskWriter ==
  /\ Evaluated
  /\ setting.propose /\ Class(Current) # "incomplete"
  /\ writer' = [Idle EXCEPT !.pc = "write"]
  /\ UNCHANGED <<setting, agent, attempts, simulation, holder, phase, outcomes, faults, heard>>

Finish(audit, drafts) ==
  /\ outcomes' = Append(outcomes, Episode(Current, {audit}, Learned(drafts)))
  /\ writer' = Idle

Write(response) ==
  LET valid == ValidWriting(response.output, Class(Current))
  IN  /\ writer.pc = "write"
      /\ Hear(Current, response, valid)
      /\ IF valid
         THEN Finish(Plain(response.usage), response.output.drafts)
         ELSE /\ writer' = [pc |-> "rewrite", first |-> response.usage]
              /\ UNCHANGED outcomes
      /\ UNCHANGED <<setting, agent, attempts, simulation, holder, phase, faults>>

\* (mutant: the repair is taken as it is)
RewriteUnchecked(response) ==
  /\ writer.pc = "rewrite"
  /\ Hear(Current, response, TRUE)
  /\ Finish(Repaired(writer.first, response.usage), response.output.drafts)
  /\ UNCHANGED <<setting, agent, attempts, simulation, holder, phase, faults>>

Rewrite(response) ==
  /\ writer.pc = "rewrite"
  /\ Hear(Current, response, TRUE)
  /\ ValidWriting(response.output, Class(Current))
  /\ Finish(Repaired(writer.first, response.usage), response.output.drafts)
  /\ UNCHANGED <<setting, agent, attempts, simulation, holder, phase, faults>>

\* empty_write_decision: nothing is learned and the episode stands.
FallBack(response) ==
  /\ writer.pc = "rewrite"
  /\ Hear(Current, response, TRUE)
  /\ ~ValidWriting(response.output, Class(Current)) /\ ~response.output.tainted
  /\ Finish(FellBack(writer.first, response.usage), <<>>)
  /\ UNCHANGED <<setting, agent, attempts, simulation, holder, phase, faults>>

\* Unless the repair still named what must not be written.
RefuseTainted(response) ==
  /\ writer.pc = "rewrite"
  /\ Hear(Current, response, TRUE)
  /\ response.output.tainted
  /\ Fail("finalize")
  /\ writer' = Idle
  /\ UNCHANGED <<setting, agent, attempts, simulation, holder, phase, faults>>

WriterFails ==
  /\ Fault
  /\ writer.pc \in {"write", "rewrite"}
  /\ Fail("finalize")
  /\ writer' = Idle
  /\ UNCHANGED <<setting, agent, attempts, simulation, holder, phase, heard>>

Return ==
  /\ phase = "finalizing" /\ Len(outcomes) = Len(Request)
  /\ phase' = "returned"
  /\ UNCHANGED <<setting, agent, attempts, simulation, holder, writer, outcomes, faults, heard>>

-----------------------------------------------------------------------------
World(t) ==
  \/ WorldReplies(t)
  \/ \E end \in Evaluations[t] : WorldEnds(t, end)
  \/ WorldFails(t)

Retrieval(t) == Lock(t) \/ Retrieve(t) \/ RetrieveFails(t)

Choice(t) ==
  \/ \E r \in SelectionResponses[t] : Select(t, r) \/ Reselect(t, r) \/ RefuseSelection(t, r)
  \/ \E r \in ActionResponses[t] : Act(t, r) \/ React(t, r) \/ RefuseAction(t, r)
  \/ CallFails(t)

Run(t) == Begin(t) \/ SayStop(t) \/ TakeTurn(t) \/ World(t) \/ Retrieval(t) \/ Choice(t)

Writing ==
  \/ /\ writer # Idle
     /\ \E r \in WritingResponses[Current] :
          Write(r) \/ Rewrite(r) \/ FallBack(r) \/ RefuseTainted(r)
  \/ WriterFails

Execute ==
  \/ Collect \/ FailInfrastructure \/ FailEmpty \/ FinishWithoutWriting
  \/ AskWriter \/ Writing \/ Return

Next == Execute \/ \E t \in Tasks : Run(t)

Spec == Init /\ [][Next]_vars

\* Threads run, requests to the model have a timeout, and Tau2 bounds the steps
\* of a conversation, so that none stays where it is.
FairSpec == Spec /\ WF_vars(Execute) /\ \A t \in Tasks : WF_vars(Run(t))

-----------------------------------------------------------------------------
EpisodesOf == {o \in Range(outcomes) : o.kind = "episode"}

Deciding == {"lock", "retrieve", "select", "reselect", "act", "react"}

\* A simulation is there once its task has ended; one that was lost has no reward.
Simulations ==
  [reason : {"stop", "max_steps", "timeout"}, reward : {0, 1, None}]
  \cup [reason : Lost, reward : {None}]

\* The attempts at a task are bounded, the lock is held by the task that retrieves
\* and by no other, and every task that ended has a simulation (Tau3Agent._start,
\* run_domain).
TypeOK ==
  /\ setting \in Instances
  /\ \A t \in Tasks :
       /\ agent[t].pc \in Deciding \cup {"waiting", "retry", "world", "turn", "ended"}
       /\ attempts[t] \in 0..(Retries + 1)
       /\ IF agent[t].pc = "ended" THEN simulation[t] \in Simulations
                                   ELSE simulation[t] = None
       /\ holder = t <=> agent[t].pc = "retrieve"
  /\ phase \in {"running", "finalizing", "returned", "raised"}
  /\ writer.pc \in {"idle", "write", "rewrite"}

\* Whatever fails where, the executor answers for every task it was given, in
\* the order of the request and from its own last attempt: a failure of the run
\* if that has no reward, a failed finalization only if the agent never spoke or
\* the model was asked to write, an episode otherwise; and it raises only if
\* Tau2 left a task out (Tau2BenchmarkExecutor.execute).
AnswersForEveryTask ==
  /\ \A i \in DOMAIN outcomes :
       LET o == outcomes[i]
           t == Request[i]
       IN  /\ o.task = t
           /\ o.kind = "episode" => simulation[t].reward # None
           /\ o.kind = "failure" =>
                IF o.stage = "run_domain" THEN simulation[t].reward = None
                ELSE \/ agent[t].decisions = <<>>
                     \/ setting.propose /\ ~Truncated(t)
  /\ phase = "returned" => Len(outcomes) = Len(Request)
  /\ phase = "raised" => \E t \in Tasks : simulation[t].reason = "omitted"

\* An episode is the story of one attempt: nothing of an attempt that was given
\* up is in it, what was selected was selected in it from its own candidates, and
\* its decisions are within the budget (Tau3AgentState, create_tau3_agent_factory).
EpisodeIsOneAttempt ==
  \A e \in EpisodesOf :
    /\ Len(e.decisions) \in 1..MaxSteps
    /\ \A i \in DOMAIN e.decisions : e.decisions[i].attempt = attempts[e.task]
    /\ IF setting.memory
       THEN /\ e.start.attempt = attempts[e.task]
            /\ e.start.ids \subseteq {setting.offers[e.task][k] : k \in e.start.ranks}
       ELSE e.start = None

\* The usage an episode reports is that of all responses it took, repairs and the
\* write decision included, or unknown if one of them is; and every repair counts
\* as one error (accumulate_token_usage, finalize_simulation).
UsageAddsUp ==
  \A e \in EpisodesOf :
    /\ e.usage = heard[e.task].usage
    /\ e.errors = heard[e.task].bad
    /\ e.responses + e.errors = heard[e.task].count

\* What an episode teaches is what its outcome allows: a truncated one nothing, a
\* failed one tips only, and never more of a tier than the quota
\* (classify_episode_memory, apply_write_quotas).
LearnsWithinPolicy ==
  \A e \in EpisodesOf :
    /\ e.learned # NothingLearned => setting.propose
    /\ \A i \in DOMAIN e.learned :
         Tier[e.learned[i]] \in AllowedTiers(OutcomeClass(e.reward, e.truncated))
    /\ \A tier \in Tiers :
         Cardinality({i \in DOMAIN e.learned : Tier[e.learned[i]] = tier}) <= WriteQuota[tier]

\* Every batch ends, although agents share a lock and may fail while they hold it.
EveryBatchEnds == <>(phase \in {"returned", "raised"})
=============================================================================
