---- MODULE WaitMatch ----
(***************************************************************************)
(* matchesWaitCondition: one pending wait with a compound condition, fed   *)
(* one journal entry after the other, with the progress the kernel keeps   *)
(* for it in memory (compoundProgress).  A leaf condition (state, entry,   *)
(* checkpoint) is named by the kind of entry that satisfies it.            *)
(***************************************************************************)
EXTENDS Integers, Sequences

CONSTANTS
    Leaves,        \* kinds of entry the leaf conditions ask for
    Conditions,    \* the conditions tried
    MaxRestarts    \* bound on restarts of the daemon

VARIABLES
    condition,  \* the wait's condition
    progress,   \* the indices all_of has seen satisfied ("all:i")
    resolved,   \* the wait row is resolved
    seen,       \* kinds of the entries dispatched since the wait was registered
    restarts

vars == <<condition, progress, resolved, seen, restarts>>

Leaf(k) == [op |-> "leaf", kind |-> k]
AllOf(subs) == [op |-> "all_of", subs |-> subs]
AnyOf(subs) == [op |-> "any_of", subs |-> subs]

RECURSIVE Match(_, _, _), MatchAll(_, _, _, _)

(* The loop over all_of: the set of satisfied indices is one mutable       *)
(* object, handed to the nested calls too.                                 *)
MatchAll(subs, i, k, prog) ==
    IF i > Len(subs) THEN prog
    ELSE IF i \in prog THEN MatchAll(subs, i + 1, k, prog)
    ELSE LET r == Match(subs[i], k, prog)
         IN  MatchAll(subs, i + 1, k, IF r.matched THEN r.progress \cup {i} ELSE r.progress)

(* Mutant: one satisfied member is enough for all_of. *)
MatchSome(c, k, prog) ==
    CASE c.op = "leaf" -> [matched |-> c.kind = k, progress |-> prog]
      [] c.op = "all_of" ->
            LET p == MatchAll(c.subs, 1, k, prog)
            IN  [matched |-> p # {}, progress |-> p]
      [] c.op = "any_of" ->
            [matched |-> \E i \in DOMAIN c.subs : Match(c.subs[i], k, {}).matched, progress |-> prog]

(* A leaf looks at the entry only; any_of starts its members without       *)
(* progress.                                                               *)
Match(c, k, prog) ==
    CASE c.op = "leaf" -> [matched |-> c.kind = k, progress |-> prog]
      [] c.op = "all_of" ->
            LET p == MatchAll(c.subs, 1, k, prog)
            IN  [matched |-> \A i \in DOMAIN c.subs : i \in p, progress |-> p]
      [] c.op = "any_of" ->
            [matched |-> \E i \in DOMAIN c.subs : Match(c.subs[i], k, {}).matched, progress |-> prog]

Init ==
    /\ condition \in Conditions
    /\ progress = {} /\ resolved = FALSE /\ seen = {} /\ restarts = 0

(* dispatchFanout meets the pending wait with an entry of kind k; an entry *)
(* may be dispatched again by another call or by the recovery.             *)
DispatchEntry(k) ==
    LET r == Match(condition, k, progress)
    IN  /\ ~resolved
        /\ progress' = r.progress
        /\ resolved' = r.matched
        /\ seen' = seen \cup {k}
        /\ UNCHANGED <<condition, restarts>>

(* compoundProgress is not persisted; the wait row is. *)
Restart ==
    /\ restarts < MaxRestarts /\ restarts' = restarts + 1
    /\ progress' = {}
    /\ UNCHANGED <<condition, resolved, seen>>

Next == Restart \/ \E k \in Leaves : DispatchEntry(k)

Spec == Init /\ [][Next]_vars
----
RECURSIVE Satisfied(_, _)

(* The condition's meaning: what holds of the entries seen so far. *)
Satisfied(c, ks) ==
    CASE c.op = "leaf" -> c.kind \in ks
      [] c.op = "all_of" -> \A i \in DOMAIN c.subs : Satisfied(c.subs[i], ks)
      [] c.op = "any_of" -> \E i \in DOMAIN c.subs : Satisfied(c.subs[i], ks)

(* A wait is never resolved by entries that do not satisfy its condition,  *)
(* in whatever order and however often they came, restarts included        *)
(* (matchesWaitCondition).                                                 *)
NeverEarly == resolved => Satisfied(condition, seen)

(* Without a restart no progress is lost: the wait is resolved as soon as  *)
(* the entries satisfy its condition (compoundProgress).                   *)
ProgressKept == restarts = 0 /\ Satisfied(condition, seen) => resolved

(* A wait is resolved exactly when the entries seen so far satisfy its     *)
(* condition; after a restart it may stay unresolved, never the reverse    *)
(* (matchesWaitCondition against the reference definition Satisfied).      *)
ResolvedExactly == NeverEarly /\ ProgressKept

(* "compound.all_of maintains per-waiter partial progress across multiple  *)
(* journal entries": the same, restarts included.                          *)
ResolvedWhenSatisfied == Satisfied(condition, seen) => resolved
====
