----------------------------- MODULE MCArtifacts -----------------------------
(* Instances of Artifacts: which requests meet. *)
EXTENDS Artifacts, TLC

CONSTANTS c1, c2, c3, c4, c5, c6, k1, k2, x, y

Ask(op, key, file, b, tid, after) ==
    [op |-> op, key |-> key, file |-> file, bytes |-> b, tid |-> tid, after |-> after]
Issue(k, after) == Ask("issue", k, 1, x, 0, after)
Put(f, b, after) == Ask("put", k1, f, b, 0, after)
Resolve(k, after) == Ask("resolve", k, 1, x, 0, after)
Other(op, after) == Ask(op, k1, 1, x, 0, after)
Store(b, t, after) == Ask("store", k1, 1, b, t, after)
Unasked == Other("unused", {})
Reqs(a, b, c, d, e, f) == c1 :> a @@ c2 :> b @@ c3 :> c @@ c4 :> d @@ c5 :> e @@ c6 :> f
Plan(r, n, need, lapse, expiry, m) ==
    [req |-> r, ceiling |-> n, required |-> need, lapse |-> lapse, expiry |-> expiry, crashes |-> m]

MCFiles == {1, 2}
\* Requests for intents meet (the ceiling leaves room for one); a client is
\* interrupted and retries; a transfer meets a cancel and another transfer; two
\* resolves of the step meet, and a dispatch; stores, a sweep and a load meet.
MCPlans == {
    Plan(Reqs(Issue(k1, {}), Issue(k1, {}), Issue(k2, {}), Other("cancel", {c1}), Unasked, Unasked),
         3, TRUE, TRUE, FALSE, 0),
    Plan(Reqs(Issue(k1, {}), Put(1, x, {c1}), Put(2, y, {c1}), Resolve(k1, {c2, c3}), Resolve(k1, {c4}), Unasked),
         4, TRUE, TRUE, FALSE, 1),
    Plan(Reqs(Issue(k1, {}), Put(1, x, {c1}), Put(1, y, {c1}), Other("cancel", {c1}), Put(1, x, {c2, c3}), Unasked),
         4, FALSE, TRUE, FALSE, 0),
    Plan(Reqs(Issue(k1, {}), Put(1, x, {c1}), Put(2, y, {c2}), Resolve(k1, {c3}), Resolve(k1, {c3}), Other("dispatch", {c3})),
         6, TRUE, FALSE, FALSE, 0),
    Plan(Reqs(Issue(k1, {}), Put(1, x, {c1}), Put(2, y, {c2}), Resolve(k1, {c3}), Resolve(k1, {c4}), Other("cancel", {c3})),
         4, FALSE, TRUE, FALSE, 0),
    Plan(Reqs(Store(x, 0, {}), Store(x, 0, {}), Other("gc", {}), Other("load", {}), Store(x, 1, {}), Store(y, 1, {c5})),
         1, TRUE, FALSE, TRUE, 0)}
=============================================================================
