---- MODULE AggregateSpec ----
(***************************************************************************)
(* What the kernel promises of an aggregate, whatever the concurrency of   *)
(* the commands: it is created once, in the rule's initial state, and it   *)
(* then moves only along declared, checkpoint-free transitions of its      *)
(* pinned rule, from the state it is really in, one revision at a time.    *)
(***************************************************************************)
EXTENDS Integers

CONSTANTS Aggs,         \* aggregate identifiers
          Transitions,  \* the pinned rule: [from, event, to, checkpoint] records
          InitialState, \* the rule's initial state
          None          \* absent value

VARIABLE value          \* value[a]: None, or the aggregate's [state, revision]

Init == value = [a \in Aggs |-> None]

Create(a) ==
    /\ value[a] = None
    /\ value' = [value EXCEPT ![a] = [state |-> InitialState, revision |-> 0]]

Apply(a, t) ==
    /\ value[a] # None
    /\ value[a].state = t.from
    /\ ~t.checkpoint
    /\ value' = [value EXCEPT ![a] = [state |-> t.to, revision |-> @.revision + 1]]

Next == \E a \in Aggs : \/ Create(a)
                        \/ \E t \in Transitions : Apply(a, t)

Spec == Init /\ [][Next]_value
====
