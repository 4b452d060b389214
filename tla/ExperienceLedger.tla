-------------------------- MODULE ExperienceLedger --------------------------
(***************************************************************************)
(* What a Memory namespace promises to its users: an append-only ledger of *)
(* training batches, one after another, although the runs that execute     *)
(* them overlap, abort and crash.                                          *)
(***************************************************************************)
EXTENDS Integers, Sequences

CONSTANTS
  Ids,    \* Memory ids
  Sizes   \* possible numbers of tasks of a batch

VARIABLES
  ledger,     \* the committed batches: their tasks and the ids known after each
  completed,  \* tasks counted by the schedule of maintenance
  frontier    \* maintenance rounds 1..frontier are completed

vars == <<ledger, completed, frontier>>

Init == ledger = <<>> /\ completed = 0 /\ frontier = 0

\* A batch commits: no id that an earlier batch left in the namespace is lost.
CommitBatch ==
  /\ \E n \in Sizes, known \in SUBSET Ids :
       /\ ledger # <<>> => ledger[Len(ledger)].known \subseteq known
       /\ ledger' = Append(ledger, [tasks |-> n, known |-> known])
       /\ completed' = completed + n
  /\ UNCHANGED frontier

\* Maintenance rounds complete one at a time and in their order.
CompleteRound ==
  /\ frontier' = frontier + 1
  /\ UNCHANGED <<ledger, completed>>

Next == CommitBatch \/ CompleteRound

Spec == Init /\ [][Next]_vars
=============================================================================
