--------------------------- MODULE MemoryCommands ---------------------------
(***************************************************************************)
(* Memories and the commands that maintenance applies to them              *)
(* (src/tau3_evolver/memory/types.py and operations.py).                   *)
(*                                                                         *)
(* The id of a Memory is a hash of its tier and content, so an id has one  *)
(* tier and stands for one content.  A state maps the ids to records.      *)
(***************************************************************************)
EXTENDS Integers, SequencesExt

CONSTANTS
  Ids,      \* Memory ids
  Tiers,    \* MemoryTier
  TierOf,   \* TierOf[i]: the tier hashed into the id i
  Reasons,  \* reasons of delete commands
  None      \* an absent Memory, a missing reason, a refused batch

ASSUME TierOfAssumption == TierOf \in [Ids -> Tiers]

\* reason: why it is retired, the id it was merged into or the reason of a
\* delete; from: metadata["merged_from"]; embedded: has a current embedding.
Records ==
  [status : {"active", "retired"}, created : Nat, round : Nat, version : Nat \ {0},
   reason : Reasons \cup Ids \cup {None}, from : SUBSET Ids, embedded : BOOLEAN]

States == [Ids -> Records \cup {None}]
Empty == [i \in Ids |-> None]
ASSUME NoneAssumption == None \notin Records \cup Reasons \cup Ids \cup States

New(n, sources) ==
  [status |-> "active", created |-> n, round |-> n, version |-> 1, reason |-> None,
   from |-> sources, embedded |-> FALSE]
Retire(record, n, why) ==
  [record EXCEPT !.status = "retired", !.round = n, !.version = @ + 1, !.reason = why]

Deletes == [kind : {"delete"}, ids : SUBSET Ids \ {{}}, round : Nat, reason : Reasons]
Merges == [kind : {"merge"}, sources : {s \in SUBSET Ids : \E i, j \in s : i # j},
           target : Ids, round : Nat]
Commands == Deletes \cup Merges

\* What may still be retired in round n.
Retirable(record, n) == record.status = "active" /\ record.round <= n

-----------------------------------------------------------------------------
(* delete                                                                   *)

\* A delete that has been applied before is no error.
ReplayedDelete(record, c) ==
  record.status = "retired" /\ record.round = c.round /\ record.reason = c.reason

DeleteAllowed(s, c) ==
  \A i \in c.ids : /\ s[i] # None
                   /\ ReplayedDelete(s[i], c) \/ Retirable(s[i], c.round)

Delete(s, c) ==
  [i \in Ids |-> IF i \in c.ids /\ s[i].status = "active"
                 THEN Retire(s[i], c.round, c.reason) ELSE s[i]]

-----------------------------------------------------------------------------
(* merge                                                                    *)

\* (mutant: a merge that has been applied is a duplicate)
NeverReplayed(s, c) == FALSE

\* _is_replayed_merge: the target came from these sources in this round, and
\* they were retired for it.
ReplayedMerge(s, c) ==
  /\ s[c.target].created = c.round /\ s[c.target].round >= c.round
  /\ s[c.target].from = c.sources
  /\ \A i \in c.sources : /\ s[i].status = "retired" /\ s[i].round = c.round
                          /\ s[i].reason = c.target

MergeAllowed(s, c) ==
  /\ \A i \in c.sources : s[i] # None /\ TierOf[i] = TierOf[c.target]
  /\ IF s[c.target] # None THEN ReplayedMerge(s, c)
     ELSE \A i \in c.sources : Retirable(s[i], c.round)

Merge(s, c) ==
  IF s[c.target] # None THEN s
  ELSE [i \in Ids |-> CASE i = c.target     -> New(c.round, c.sources)
                        [] i \in c.sources  -> Retire(s[i], c.round, c.target)
                        [] OTHER            -> s[i]]

-----------------------------------------------------------------------------
Apply(s, c) ==
  CASE s = None -> None
    [] s # None /\ c.kind = "delete" -> IF DeleteAllowed(s, c) THEN Delete(s, c) ELSE None
    [] s # None /\ c.kind = "merge"  -> IF MergeAllowed(s, c) THEN Merge(s, c) ELSE None

\* _apply_batch: the commands in their order on a copy of the state, None if one
\* of them is refused.
ApplyBatch(s, commands) == FoldLeft(Apply, s, commands)

\* The tiers in which two states differ, and a state that has some tiers of one
\* and the others of another state.
ChangedTiers(s, u) == {TierOf[i] : i \in {j \in Ids : s[j] # u[j]}}
Mixed(tiers, s, u) == [i \in Ids |-> IF TierOf[i] \in tiers THEN s[i] ELSE u[i]]

\* Embeddings for the active Memories that lack one (Retriever._retrieve).
Embed(s) ==
  [i \in Ids |-> IF s[i] # None /\ s[i].status = "active"
                 THEN [s[i] EXCEPT !.embedded = TRUE] ELSE s[i]]
=============================================================================
