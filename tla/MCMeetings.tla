----------------------------- MODULE MCMeetings -----------------------------
(* Instances of Meetings: which calls meet in the room. *)
EXTENDS Meetings, TLC

CONSTANTS p1, p2, c1, c2, c3, c4, c5, b1

Ask(kind, by, to) == [kind |-> kind, by |-> by, to |-> to, order |-> <<p2, p1>>]
MCRoster == <<p1, p2>>
MCBoots == <<b1>>

\* Two messages meet at a seat; a room is closed and resumed under a message; the
\* hub crashes.
Plan(cs, m, n) == [calls |-> cs, crashes |-> m, exits |-> n]
MCPlans == {Plan({c1, c2, c3}, 0, 1), Plan({c1, c2, c4, c5}, 0, 0), Plan({c1, c2, c4}, 1, 0)}

MCRequests ==
    c1 :> Ask("convene", "operator", {}) @@ c2 :> Ask("say", p1, {p2})
    @@ c3 :> Ask("say", "owner", {p1, p2}) @@ c4 :> Ask("close", "owner", {})
    @@ c5 :> Ask("resume", "operator", {})
=============================================================================
