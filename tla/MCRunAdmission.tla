--------------------------- MODULE MCRunAdmission ---------------------------
(* Instances of RunAdmission: which calls race, in which space, for which flow. *)
EXTENDS RunAdmission, TLC

CONSTANTS a1, s1, s2, s3, r1, x1, b1, l1, p1, p2, f, g, d1, d2, d3, k, k2

Ask(kind, s, fl, key, of) ==
    [kind |-> kind, space |-> s, flow |-> fl, digest |-> d3, key |-> key, input |-> k2, of |-> of]

Config(df, lf) == [entry |-> (f :> df @@ g :> None), limit |-> (f :> lf @@ g :> 0)]
BothFlows == [entry |-> (f :> d1 @@ g :> d1), limit |-> (f :> 0 @@ g :> 0)]

\* The limit falls from two to one, or rises.
Limited == {Config(d1, 2), Config(d2, 1)}
LimitOne == {Config(d1, 1)}
Unlimited == {Config(d1, 0)}
Either == {Config(d1, 0), Config(d2, 0)}
TwoFlows == {BothFlows}

\* Two deliveries of one event, a retry of its run and another start against a
\* limit of two or one, and an apply that changes it.
Redelivery == s1 :> Ask("start", p1, f, k, s1) @@ s2 :> Ask("start", p1, f, k, s1)
           @@ s3 :> Ask("create", p1, f, None, s1)
         @@ r1 :> Ask("retry", p1, f, None, s1)
           @@ a1 :> Ask("apply", p1, None, None, s1)

Lanes == s1 :> Ask("start", p1, f, None, s1) @@ x1 :> Ask("lane", p1, f, None, s1)

Invokes == x1 :> Ask("invoke", p1, None, None, x1) @@ a1 :> Ask("apply", p1, None, None, x1)

\* An orchestration attached to flow id g and approved while others apply and start.
Orchestration == x1 :> Ask("attach", p1, g, None, x1) @@ b1 :> Ask("bind", p1, g, None, x1)
              @@ a1 :> Ask("apply", p1, None, None, x1) @@ s1 :> Ask("start", p1, f, None, x1)

\* The paths outside the guard beside two starts with one run key.
Bypasses == x1 :> Ask("attach", p1, g, None, x1) @@ b1 :> Ask("bind", p1, g, None, x1)
         @@ l1 :> Ask("lane", p1, g, None, x1)
         @@ s1 :> Ask("start", p1, f, None, x1) @@ s2 :> Ask("start", p1, f, None, x1)

TwoFlowsOneKey == s1 :> Ask("start", p1, f, k, s1) @@ s2 :> Ask("start", p1, g, k, s1)

TwoSpacesOneKey == s1 :> Ask("start", p1, f, k, s1) @@ s2 :> Ask("start", p2, f, k, s1)
=============================================================================
