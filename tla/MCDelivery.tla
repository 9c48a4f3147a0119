----------------------------- MODULE MCDelivery -----------------------------
(* Instances of Delivery: which posts meet which listeners and ticks. *)
EXTENDS Delivery

CONSTANTS c1, c2, e1

Handler == [kind |-> "handler", does |-> <<"invoke">>]
Hook(does) == [kind |-> "hook", does |-> does]

\* A handler, then a hook that starts a flow and invokes, and one that does nothing.
MCListeners == <<Handler, Hook(<<"start_flow", "invoke">>), Hook(<< >>)>>
Nobody == << >>

\* The event is posted again once the first post has ended.
MCEvent == [c \in Posts |-> e1]
Redelivered == [c \in Posts |-> IF c = c2 THEN {c1} ELSE {}]
Anytime == [c \in Posts |-> {}]

OnPosted == <<"posted">>
OnAlert == <<"posted", "integration_failure">>
NoTriggers == << >>

MCFlows == <<"f">>
MCScheduled == <<"g", "h">>

\* Posts and ticks only meet in the death of the daemon, so each is explored with
\* a crash but without the other.
Apart == {Posts, Ticks}
=============================================================================
