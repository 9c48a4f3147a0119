--------------------------- MODULE MCRunLifecycle ---------------------------
(* Instances of RunLifecycle: which calls meet on the runs of the session. *)
EXTENDS RunLifecycle, TLC

CONSTANTS r1, r2, c1, c2, c3, c4, c5, c6

Req(kind, run, gated, ok) == [kind |-> kind, run |-> run, gate |-> gated, ok |-> ok]

MCRuns == {r1, r2}
MCStarted == {r1}

One(request, headless, slots, maxCrashes) ==
    [request |-> request, after |-> [c \in DOMAIN request |-> {}], slots |-> slots,
     crashes |-> maxCrashes, headless |-> headless]

\* A session is cancelled while a run is attached and its gate is approved or
\* rejected, three calls at a time.
CancelRaces == One(
    c1 :> Req("cancelSession", r1, None, TRUE) @@ c2 :> Req("attach", r2, None, TRUE)
    @@ c3 :> Req("resolve", r2, c2, TRUE) @@ c4 :> Req("resolve", r2, c2, FALSE)
    @@ c5 :> Req("read", r1, None, TRUE), {r1}, 3, 0)

\* A flow run that waits for a person and is cancelled, failed or resolved.
Gates == [One(
    c1 :> Req("gate", r1, None, TRUE) @@ c2 :> Req("resolve", r1, c1, TRUE)
    @@ c3 :> Req("resolve", r1, c1, FALSE) @@ c4 :> Req("cancel", r1, None, TRUE)
    @@ c5 :> Req("step", r1, None, TRUE) @@ c6 :> Req("create", r2, None, TRUE), {}, 1, 0)
    EXCEPT !.after = [c \in DOMAIN @ |-> IF c \in {c4, c5} THEN {c1} ELSE {}]]

\* A headless run: its action completes and fails, and the run is failed for its
\* timeout or the session is cancelled, with a crash.
Reported == c1 :> Req("report", r1, None, TRUE) @@ c2 :> Req("report", r1, None, FALSE)
Reports == One(Reported @@ c3 :> Req("fail", r1, None, TRUE), {r1}, 1, 1)
ReportsCancelled == One(Reported @@ c4 :> Req("cancelSession", r1, None, TRUE), {r1}, 1, 1)

MCScenarios == {CancelRaces, Gates, Reports, ReportsCancelled}

\* The shortest scenarios of the divergences.
LateGate == One(c1 :> Req("cancel", r1, None, TRUE) @@ c2 :> Req("gate", r1, None, TRUE), {}, 1, 0)
TwoAnswers == One(
    c1 :> Req("gate", r1, None, TRUE) @@ c2 :> Req("resolve", r1, c1, TRUE)
    @@ c3 :> Req("resolve", r1, c1, FALSE), {}, 2, 0)
AttachRefused == One(c1 :> Req("attach", r2, None, TRUE) @@ c2 :> Req("resolve", r2, c1, TRUE), {}, 1, 0)
LateReport == One(c1 :> Req("report", r1, None, TRUE) @@ c2 :> Req("report", r1, None, FALSE), {r1}, 2, 0)
LostTimer == One(c1 :> Req("gate", r1, None, TRUE) @@ c2 :> Req("cancelSession", r1, None, TRUE), {}, 1, 1)
Disagreements == {LateGate, TwoAnswers, AttachRefused, LateReport, LostTimer}
=============================================================================
