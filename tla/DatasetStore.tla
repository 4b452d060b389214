---------------------------- MODULE DatasetStore ----------------------------
(***************************************************************************)
(* What building datasets promises under one build id: at most one builder *)
(* publishes, what is published stays, and only its builder reports        *)
(* success.  A builder may report failure although it did publish.         *)
(***************************************************************************)
CONSTANTS Builders, None

VARIABLES
  owner,   \* who published, None before
  outcome  \* "running", "done" or "failed" for each builder

Init ==
  /\ owner = None
  /\ outcome = [b \in Builders |-> "running"]

Publish(b) ==
  /\ outcome[b] = "running" /\ owner = None
  /\ owner' = b
  /\ UNCHANGED outcome

Succeed(b) ==
  /\ outcome[b] = "running" /\ owner = b
  /\ outcome' = [outcome EXCEPT ![b] = "done"]
  /\ UNCHANGED owner

GiveUp(b) ==
  /\ outcome[b] = "running"
  /\ outcome' = [outcome EXCEPT ![b] = "failed"]
  /\ UNCHANGED owner

Next == \E b \in Builders : Publish(b) \/ Succeed(b) \/ GiveUp(b)

Spec == Init /\ [][Next]_<<owner, outcome>>
=============================================================================
