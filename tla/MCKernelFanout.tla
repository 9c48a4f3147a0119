---- MODULE MCKernelFanout ----
(* The commands the fan-out instances are made of. *)
EXTENDS KernelFanout, TLC

CONSTANTS c1, c2, c3, c4, c5, a1, r1

Plain(kind) == [kind |-> kind, agg |-> a1, pagg |-> a1, type |-> "moved", on |-> None, bound |-> FALSE,
                wait |-> None, reaction |-> None, source |-> 0, bypass |-> FALSE]
Move == Plain("append")
BlockOn(type) == [Plain("transition") EXCEPT !.on = type]
Approve == [Move EXCEPT !.type = "approved"]
Register == [Plain("reaction.register") EXCEPT !.reaction = r1]
Disable == [Plain("reaction.disable") EXCEPT !.reaction = r1]
ReplayOf(s) == [Plain("reaction.replay") EXCEPT !.reaction = r1, !.source = s]
Wait == [Plain("wait.register") EXCEPT !.on = "moved"]
Cancel(c) == [Plain("wait.cancel") EXCEPT !.wait = c]

MCFilter == [r \in Reactions |-> "moved"]

Anytime == [c \in Calls |-> {}]

(* A wait is registered while an entry that concerns it and the reaction   *)
(* is committed: the two calls find each other's entry in their tail.      *)
(* Afterwards the wait is cancelled and the reaction disabled.             *)
SharedTail == (c1 :> Register) @@ (c2 :> Wait) @@ (c3 :> Plain("transition")) @@ (c4 :> Cancel(c2)) @@ (c5 :> Disable)
CleanUpLast == (c1 :> {}) @@ (c2 :> {c1}) @@ (c3 :> {c1}) @@ (c4 :> {c2, c3}) @@ (c5 :> {c4})

(* One call running at a time: a blocked call commits the entry that the  *)
(* reaction is for, the entry is replayed, another call blocks on an entry *)
(* that comes later.                                                       *)
OneByOne == (c1 :> Register) @@ (c2 :> BlockOn("moved")) @@ (c3 :> ReplayOf(2)) @@ (c4 :> BlockOn("approved"))
            @@ (c5 :> Approve)
InOrder == (c1 :> {}) @@ (c2 :> {c1}) @@ (c3 :> {c2}) @@ (c4 :> {c3}) @@ (c5 :> {c3})

(* The HTTP adapter's provenance names no aggregate. *)
OverHttp == (c1 :> [BlockOn("moved") EXCEPT !.pagg = None])

Racing == (c1 :> BlockOn("approved")) @@ (c2 :> Approve)
RegisterFirst == [c \in Calls |-> IF c = c1 THEN {} ELSE {c1}]
Reacting == (c1 :> Register) @@ (c2 :> Move) @@ (c3 :> Move)
====
