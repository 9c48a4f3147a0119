---- MODULE MCWaitMatch ----
(* Conditions over four kinds of entry, to nesting depth two. *)
EXTENDS WaitMatch, FiniteSets

LeafSet == {Leaf(k) : k \in Leaves}

TuplesOf(S) == UNION {[1 .. n -> S] : n \in 1 .. 3}

(* all_of over leaves and over any_of of leaves; any_of over leaves. *)
Anys == {AnyOf(t) : t \in [1 .. 2 -> LeafSet]}
Flat == {AllOf(t) : t \in TuplesOf(LeafSet)} \cup {AnyOf(t) : t \in TuplesOf(LeafSet)}
        \cup {AllOf(<<x, y>>) : x \in LeafSet \cup Anys, y \in Anys}

(* An all_of whose second member is an all_of. *)
Nested == {AllOf(<<Leaf(j), AllOf(t)>>) : j \in Leaves, t \in [1 .. 2 -> LeafSet]}
====
