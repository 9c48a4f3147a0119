---- MODULE MCKernelCommit ----
(* Two calls race; one rule with a branch, so that two transitions of the  *)
(* same revision lead to different states, and one checkpointed edge.      *)
EXTENDS KernelCommit, TLC

CONSTANTS p1, p2, a1, a2, c1, c2, c3, c4

MCTransitions ==
    {[from |-> "open", event |-> "accept", to |-> "accepted", checkpoint |-> FALSE],
     [from |-> "open", event |-> "reject", to |-> "rejected", checkpoint |-> FALSE],
     [from |-> "accepted", event |-> "accept", to |-> "closed", checkpoint |-> TRUE]}

Command(kind, event, expected) == [kind |-> kind, agg |-> a1, event |-> event, expected |-> expected]

MCCmd ==
    (c1 :> Command("aggregate.create", "accept", 0)) @@
    (c2 :> Command("state.transition", "accept", 0)) @@
    (c3 :> Command("state.transition", "reject", 0)) @@
    (c4 :> Command("event.append", "accept", 0))

Symmetry == Permutations(Procs)
====
