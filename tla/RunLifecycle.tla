---------------------------- MODULE RunLifecycle ----------------------------
(***************************************************************************)
(* The lifecycle of the runs of one session, and the session's status.     *)
(*                                                                         *)
(* Nothing serialises these writers: a call reads a row, awaits, and then  *)
(* writes a lifecycle without comparing (updateRunLifecycle is a plain     *)
(* UPDATE).  A worker is one call of the hub's API, or one of the two      *)
(* passes that the daemon starts at boot beside its listener.  A step is   *)
(* what runs between two awaits.                                           *)
(***************************************************************************)
EXTENDS Naturals, FiniteSets

CONSTANTS
    Runs,        \* the runs of the session
    Started,     \* the runs that exist, and work, at first
    Calls,       \* API calls, each made at most once
    Scenarios,   \* the situations that are explored, see Scenario
    Orphans,     \* the boot pass failOrphanedWorkingRuns
    Reconcile,   \* the boot pass reconcileHeadlessRuns
    None

Kinds == {"create", "attach", "cancel", "fail", "report", "step", "gate", "resolve",
          "cancelSession", "read"}

\* `ok' is the outcome a report or a resolver brings: completed or failed,
\* approved or rejected. A gate is named after the call that opens it.
RequestType == [kind: Kinds, run: Runs, gate: Calls \union {None}, ok: BOOLEAN]

Boot == {Orphans, Reconcile}
Workers == Calls \union Boot

Terminal == {"completed", "failed", "cancelled"}
Active == {"working", "input-required"}

Statuses == {"active", "completed", "failed", "cancelled", "partial_failure"}

\* One situation: what each call asks for, the calls c's client waits for before
\* it calls (after[c]), how many calls run at the same time (slots), a bound on
\* crashes, and the runs without a flow (headless, an invoke). A resolver works on
\* the run of its gate row.
Scenario(s) ==
    /\ DOMAIN s.request \subseteq Calls
    /\ s.request \in [DOMAIN s.request -> RequestType]
    /\ s.after \in [DOMAIN s.request -> SUBSET DOMAIN s.request]
    /\ s.slots \in Nat /\ s.crashes \in Nat
    /\ s.headless \subseteq Runs
    /\ \A c \in DOMAIN s.request : s.request[c].kind = "resolve" =>
          LET g == s.request[c].gate
          IN  g \in DOMAIN s.request /\ s.request[g].run = s.request[c].run

ASSUME LifecycleAssumption ==
    /\ Started \subseteq Runs /\ Runs # {} /\ IsFiniteSet(Calls)
    /\ \A s \in Scenarios : Scenario(s)
    /\ Boot \intersect Calls = {} /\ Orphans # Reconcile
    /\ None \notin Calls

VARIABLES
    scenario,         \* chosen once
    life,             \* runs.lifecycle; None before the row is inserted
    memo,             \* the step memo of a headless run
    gate,             \* gate rows, by the call that inserted them
    status,           \* sessions.status
    cancelRequested,  \* sessions.cancel_requested_at is set
    crashes,
    pc, of,           \* where each worker is, and the run it is at
    seen,             \* what a worker has read: session row, step memo
    todo              \* the runs of a list still to be visited

vars == <<scenario, life, memo, gate, status, cancelRequested, crashes, pc, of, seen, todo>>
rows == <<life, memo, gate, status, cancelRequested>>

Request == scenario.request
Made == DOMAIN Request
Headless == scenario.headless
\* One call at a time, and no crash.
Serial == scenario.slots = 1 /\ scenario.crashes = 0

Goto(w, label) == pc' = [pc EXCEPT ![w] = label]
Leave(w) == Goto(w, IF w \in Boot THEN "next" ELSE "done")

Init ==
    /\ scenario \in Scenarios
    /\ life = [r \in Runs |-> IF r \in Started THEN "working" ELSE "none"]
    /\ memo = [r \in Runs |-> "working"]
    /\ gate = [c \in Calls |-> "none"]
    /\ status = "active" /\ cancelRequested = FALSE
    /\ crashes = 0
    /\ pc = [w \in Workers |-> IF w \in Boot THEN "done" ELSE "idle"]
    /\ of = [w \in Workers |-> IF w \in Made THEN Request[w].run ELSE CHOOSE r \in Runs : TRUE]
    /\ seen = [w \in Workers |-> [status |-> "active", cancel |-> FALSE, memo |-> "working"]]
    /\ todo = [w \in Workers |-> {}]

\* updateRunLifecycle: unconditional.
SetLife(r, l) == life' = [life EXCEPT ![r] = l]

Running == {c \in Calls : pc[c] \notin {"idle", "timer", "done", "dead"}}

FirstStep(kind) ==
    CASE kind = "create" -> "insert"       [] kind = "attach" -> "insert"
      [] kind = "cancel" -> "cancel"       [] kind = "fail" -> "fail"
      [] kind = "report" -> "report"       [] kind = "step" -> "step"
      [] kind = "gate" -> "insertGate"     [] kind = "resolve" -> "resolve"
      [] kind = "cancelSession" -> "mark"  [] kind = "read" -> "refresh"

Begin(c) ==
    /\ c \in Made /\ pc[c] = "idle"
    /\ Cardinality(Running) < scenario.slots
    /\ \A b \in scenario.after[c] : pc[b] \in {"timer", "done", "dead"}
    /\ Request[c].kind \notin {"create", "attach", "cancelSession", "read"} => life[of[c]] # "none"
    /\ Goto(c, FirstStep(Request[c].kind))
    /\ UNCHANGED <<rows, crashes, of, seen, todo>>

-----------------------------------------------------------------------------
\* createRun does not look at the session's status, nor refresh it.
CreateRun(c) ==
    /\ pc[c] = "insert"
    /\ IF life[of[c]] = "none" THEN SetLife(of[c], "working") ELSE UNCHANGED life
    /\ Goto(c, IF Request[c].kind = "attach" THEN "park" ELSE "done")
    /\ UNCHANGED <<memo, gate, status, cancelRequested, crashes, of, seen, todo>>

\* attachOrchestration parks the run, then opens the gate that validates it; an
\* administrator's breakglass binds the run at once.
ParkRun(c) ==
    /\ pc[c] = "park"
    /\ SetLife(of[c], "input-required")
    /\ \/ Goto(c, "insertGate")
       \/ Goto(c, "bind")
    /\ UNCHANGED <<memo, gate, status, cancelRequested, crashes, of, seen, todo>>

\* createPendingGate: the gate, then the run's lifecycle, terminal or not.
InsertGate(c) ==
    /\ pc[c] = "insertGate"
    /\ gate' = [gate EXCEPT ![c] = "pending"]
    /\ Goto(c, "gateRun")
    /\ UNCHANGED <<life, memo, status, cancelRequested, crashes, of, seen, todo>>

GetGatedRun(c) ==
    /\ pc[c] = "gateRun"
    /\ IF life[of[c]] # "input-required" THEN Goto(c, "requireInput") ELSE Leave(c)
    /\ UNCHANGED <<rows, crashes, of, seen, todo>>

RequireInput(c) ==
    /\ pc[c] = "requireInput"
    /\ SetLife(of[c], "input-required")
    /\ Leave(c)
    /\ UNCHANGED <<memo, gate, status, cancelRequested, crashes, of, seen, todo>>

\* resolveGate: the status is checked, the grants are read, the status is written.
\* A token of another space, or without the capability, is refused.
GetGate(c) ==
    /\ pc[c] = "resolve"
    /\ \/ gate[Request[c].gate] = "pending" /\ Goto(c, "decide")
       \/ Leave(c)
    /\ UNCHANGED <<rows, crashes, of, seen, todo>>

UpdateGateStatus(c) ==
    /\ pc[c] = "decide"
    /\ gate' = [gate EXCEPT ![Request[c].gate] = IF Request[c].ok THEN "approved" ELSE "rejected"]
    /\ Goto(c, "decided")
    /\ UNCHANGED <<life, memo, status, cancelRequested, crashes, of, seen, todo>>

Orchestration(g) == Request[g].kind = "attach"

\* What the decision does to the run: an orchestration is bound or cancelled
\* whatever the run's lifecycle; a plain gate resumes a run that waits, or
\* fails the run.
DecideRun(c) ==
    /\ pc[c] = "decided"
    /\ IF Orchestration(Request[c].gate)
       THEN Goto(c, IF Request[c].ok THEN "bind" ELSE "reject")
       ELSE IF ~Request[c].ok THEN Goto(c, "fail")
       ELSE IF life[of[c]] = "input-required" THEN Goto(c, "resume") ELSE Leave(c)
    /\ UNCHANGED <<rows, crashes, of, seen, todo>>

\* bindOrchestrationToRun; prepareFlowStart may refuse, after the gate is approved.
Bind(c) ==
    /\ pc[c] = "bind"
    /\ \/ SetLife(of[c], "working") /\ Goto(c, "refresh")
       \/ Leave(c) /\ UNCHANGED life
    /\ UNCHANGED <<memo, gate, status, cancelRequested, crashes, of, seen, todo>>

RejectOrchestration(c) ==
    /\ pc[c] = "reject"
    /\ SetLife(of[c], "cancelled")
    /\ Goto(c, "refresh")
    /\ UNCHANGED <<memo, gate, status, cancelRequested, crashes, of, seen, todo>>

\* Mutant: the approval does not resume the run.
ResumeNot(c) ==
    /\ pc[c] = "resume"
    /\ Leave(c)
    /\ UNCHANGED <<rows, crashes, of, seen, todo>>

Resume(c) ==
    /\ pc[c] = "resume"
    /\ SetLife(of[c], "working")
    /\ Leave(c)
    /\ UNCHANGED <<memo, gate, status, cancelRequested, crashes, of, seen, todo>>

-----------------------------------------------------------------------------
\* failRunWithNotification, cancelRun.
GetFailing(w) ==
    /\ pc[w] = "fail"
    /\ IF life[of[w]] \in Terminal THEN Leave(w) ELSE Goto(w, "failed")
    /\ UNCHANGED <<rows, crashes, of, seen, todo>>

FailRun(w) ==
    /\ pc[w] = "failed"
    /\ SetLife(of[w], "failed")
    /\ Goto(w, "refresh")
    /\ UNCHANGED <<memo, gate, status, cancelRequested, crashes, of, seen, todo>>

GetCancelling(c) ==
    /\ pc[c] = "cancel"
    /\ IF life[of[c]] \in Terminal THEN Leave(c) ELSE Goto(c, "cancelled")
    /\ UNCHANGED <<rows, crashes, of, seen, todo>>

CancelRun(c) ==
    /\ pc[c] = "cancelled"
    /\ SetLife(of[c], "cancelled")
    /\ Goto(c, "refresh")
    /\ UNCHANGED <<memo, gate, status, cancelRequested, crashes, of, seen, todo>>

\* resolveFlowStep rejects a run that has ended; some awaits later the route of
\* the resolved branch opens the next step, or ends the run.
GetStepRun(c) ==
    /\ pc[c] = "step"
    /\ IF life[of[c]] \in Terminal \/ of[c] \in Headless THEN Leave(c) ELSE Goto(c, "route")
    /\ UNCHANGED <<rows, crashes, of, seen, todo>>

OpenStep(c) ==
    /\ pc[c] = "route"
    /\ SetLife(of[c], "working")
    /\ Leave(c)
    /\ UNCHANGED <<memo, gate, status, cancelRequested, crashes, of, seen, todo>>

CompleteRunIfFinished(c) ==
    /\ pc[c] = "route"
    /\ SetLife(of[c], IF Request[c].ok THEN "completed" ELSE "failed")
    /\ Goto(c, "refresh")
    /\ UNCHANGED <<memo, gate, status, cancelRequested, crashes, of, seen, todo>>

\* An ancestor is resumed, or other top-level steps are still to be done.
RunGoesOn(c) ==
    /\ pc[c] = "route"
    /\ Leave(c)
    /\ UNCHANGED <<rows, crashes, of, seen, todo>>

-----------------------------------------------------------------------------
\* The journal entry of an action's end: the step memo is read ...
GetMemo(c) ==
    /\ pc[c] = "report"
    /\ seen' = [seen EXCEPT ![c].memo = memo[of[c]]]
    /\ Goto(c, "memo")
    /\ UNCHANGED <<rows, crashes, of, todo>>

\* Mutant: a late answer replaces the recorded outcome.
AppliedMemoLate(old, ok) == IF ok THEN "completed" ELSE "failed"

\* applyStepMemoFromJournal: a terminal memo stays what it is.
AppliedMemo(old, ok) ==
    IF old # "working" THEN old ELSE IF ok THEN "completed" ELSE "failed"

\* ... and written back; a completion reported again stops here.
UpsertMemo(c) ==
    /\ pc[c] = "memo"
    /\ IF Request[c].ok /\ seen[c].memo = "completed"
       THEN Leave(c) /\ UNCHANGED memo
       ELSE /\ memo' = [memo EXCEPT ![of[c]] = AppliedMemo(seen[c].memo, Request[c].ok)]
            /\ Goto(c, "headless")
    /\ UNCHANGED <<life, gate, status, cancelRequested, crashes, of, seen, todo>>

\* maybeCompleteHeadlessRun: the run, then its memos, then the write.
GetHeadless(w) ==
    /\ pc[w] = "headless"
    /\ IF of[w] \notin Headless \/ life[of[w]] \in Terminal THEN Leave(w) ELSE Goto(w, "memos")
    /\ UNCHANGED <<rows, crashes, of, seen, todo>>

ListMemos(w) ==
    /\ pc[w] = "memos"
    /\ CASE memo[of[w]] = "working" -> Leave(w)
         [] memo[of[w]] = "failed" -> Goto(w, "fail")
         [] memo[of[w]] = "completed" -> Goto(w, "complete")
    /\ UNCHANGED <<rows, crashes, of, seen, todo>>

CompleteHeadless(w) ==
    /\ pc[w] = "complete"
    /\ SetLife(of[w], "completed")
    /\ Goto(w, "refresh")
    /\ UNCHANGED <<memo, gate, status, cancelRequested, crashes, of, seen, todo>>

-----------------------------------------------------------------------------
\* deriveSessionStatus of the lifecycles ls.
DeriveSessionStatus(ls, cancel) ==
    IF cancel /\ ls \subseteq Terminal THEN "cancelled"
    ELSE IF ls = {} \/ ls \intersect Active # {} THEN "active"
    ELSE IF ls = {"completed"} THEN "completed"
    ELSE IF ls = {"cancelled"} THEN "cancelled"
    ELSE IF ls \subseteq {"failed", "cancelled"} THEN "failed"
    ELSE "partial_failure"

Lifecycles == {life[r] : r \in {s \in Runs : life[s] # "none"}}

\* refreshSessionStatus: the session, its runs, and the status if it differs.
GetSession(w) ==
    /\ pc[w] = "refresh"
    /\ seen' = [seen EXCEPT ![w].status = status, ![w].cancel = cancelRequested]
    /\ Goto(w, "derive")
    /\ UNCHANGED <<rows, crashes, of, todo>>

DeriveStatus(w) ==
    LET derived == DeriveSessionStatus(Lifecycles, seen[w].cancel)
    IN  /\ pc[w] = "derive"
        /\ seen' = [seen EXCEPT ![w].status = derived]
        /\ IF derived # seen[w].status THEN Goto(w, "setStatus") ELSE Leave(w)
        /\ UNCHANGED <<rows, crashes, of, todo>>

UpdateSessionStatus(w) ==
    /\ pc[w] = "setStatus"
    /\ status' = seen[w].status
    /\ Leave(w)
    /\ UNCHANGED <<life, memo, gate, cancelRequested, crashes, of, seen, todo>>

-----------------------------------------------------------------------------
\* cancelSession: the mark, the list, one update per run that was active in the
\* list, and a timer that does it again.
MarkCancelRequested(c) ==
    /\ pc[c] = "mark"
    /\ cancelRequested' = TRUE /\ status' = "cancelled"
    /\ Goto(c, "list")
    /\ UNCHANGED <<life, memo, gate, crashes, of, seen, todo>>

ActiveRuns == {r \in Runs : life[r] \in Active}

ListRuns(c) ==
    /\ pc[c] = "list"
    /\ todo' = [todo EXCEPT ![c] = ActiveRuns]
    /\ Goto(c, "sweep")
    /\ UNCHANGED <<rows, crashes, of, seen>>

SweepRun(c, r) ==
    /\ pc[c] \in {"sweep", "sweepAgain"} /\ r \in todo[c]
    /\ SetLife(r, "cancelled")
    /\ todo' = [todo EXCEPT ![c] = @ \ {r}]
    /\ UNCHANGED <<memo, gate, status, cancelRequested, crashes, pc, of, seen>>

\* setTimeout, then the status of a session whose listed runs have all ended.
ArmTimer(c) ==
    /\ pc[c] = "sweep" /\ todo[c] = {}
    /\ status' = "cancelled"
    /\ Goto(c, "timer")
    /\ UNCHANGED <<life, memo, gate, cancelRequested, crashes, of, seen, todo>>

\* Mutant: the timer only marks the session.
TimerIdle(c) ==
    /\ pc[c] = "timer"
    /\ Goto(c, "sweepAgain")
    /\ UNCHANGED <<rows, crashes, of, seen, todo>>

Timer(c) ==
    /\ pc[c] = "timer"
    /\ todo' = [todo EXCEPT ![c] = ActiveRuns]
    /\ Goto(c, "sweepAgain")
    /\ UNCHANGED <<rows, crashes, of, seen>>

TimerDone(c) ==
    /\ pc[c] = "sweepAgain" /\ todo[c] = {}
    /\ status' = "cancelled"
    /\ Goto(c, "done")
    /\ UNCHANGED <<life, memo, gate, cancelRequested, crashes, of, seen, todo>>

-----------------------------------------------------------------------------
\* The daemon dies with its calls and timers, and boots again. Both passes run
\* beside the listener.
Crash ==
    /\ crashes < scenario.crashes /\ crashes' = crashes + 1
    /\ pc' = [w \in Workers |-> IF w \in Boot THEN "boot"
                                ELSE IF pc[w] \in {"idle", "done"} THEN pc[w] ELSE "dead"]
    /\ todo' = [w \in Workers |-> {}]
    /\ UNCHANGED <<rows, of, seen>>

\* failOrphanedWorkingRuns lists the working runs; reconcileHeadlessRuns the
\* active ones, of which it visits the headless.
ListAtBoot(w) ==
    /\ w \in Boot /\ pc[w] = "boot"
    /\ todo' = [todo EXCEPT ![w] =
          IF w = Orphans THEN {r \in Runs : life[r] = "working"} ELSE ActiveRuns \intersect Headless]
    /\ Goto(w, "next")
    /\ UNCHANGED <<rows, crashes, of, seen>>

\* A headless run whose step still works is failed only when it is old enough.
VisitRun(w, r) ==
    /\ w \in Boot /\ pc[w] = "next" /\ r \in todo[w]
    /\ todo' = [todo EXCEPT ![w] = @ \ {r}]
    /\ of' = [of EXCEPT ![w] = r]
    /\ \/ w = Orphans /\ Goto(w, "fail")
       \/ w = Reconcile /\ memo[r] # "working" /\ Goto(w, "headless")
       \/ w = Reconcile /\ memo[r] = "working" /\ (Goto(w, "fail") \/ Goto(w, "next"))
    /\ UNCHANGED <<rows, crashes, seen>>

BootDone(w) ==
    /\ w \in Boot /\ pc[w] = "next" /\ todo[w] = {}
    /\ Goto(w, "done")
    /\ UNCHANGED <<rows, crashes, of, seen, todo>>

Call(c) ==
    \/ CreateRun(c) \/ ParkRun(c) \/ InsertGate(c) \/ GetGatedRun(c) \/ RequireInput(c)
    \/ GetGate(c) \/ UpdateGateStatus(c) \/ DecideRun(c) \/ Bind(c) \/ RejectOrchestration(c) \/ Resume(c)
    \/ GetCancelling(c) \/ CancelRun(c)
    \/ GetStepRun(c) \/ OpenStep(c) \/ CompleteRunIfFinished(c) \/ RunGoesOn(c)
    \/ GetMemo(c) \/ UpsertMemo(c)
    \/ MarkCancelRequested(c) \/ ListRuns(c) \/ ArmTimer(c) \/ Timer(c) \/ TimerDone(c)
    \/ \E r \in Runs : SweepRun(c, r)

Step(w) ==
    \/ GetFailing(w) \/ FailRun(w) \/ GetHeadless(w) \/ ListMemos(w) \/ CompleteHeadless(w)
    \/ GetSession(w) \/ DeriveStatus(w) \/ UpdateSessionStatus(w)

BootPass(w) == ListAtBoot(w) \/ BootDone(w) \/ \E r \in Runs : VisitRun(w, r)

Next ==
    /\ \/ \E c \in Calls : Begin(c) \/ Call(c)
       \/ \E w \in Workers : Step(w)
       \/ \E w \in Boot : BootPass(w)
       \/ Crash
    /\ UNCHANGED scenario

Spec == Init /\ [][Next]_vars

\* The event loop runs every continuation and timer that is ready; nothing
\* obliges a client to call or the daemon to die.
Fairness ==
    /\ \A c \in Calls : WF_vars((Call(c) \/ Step(c)) /\ UNCHANGED scenario)
    /\ \A w \in Boot : WF_vars((BootPass(w) \/ Step(w)) /\ UNCHANGED scenario)

FairSpec == Spec /\ Fairness

-----------------------------------------------------------------------------
(* Every row and every local of the run, gate and session services has a value
   of its type. *)
TypeOK ==
    /\ life \in [Runs -> Terminal \union Active \union {"none"}]
    /\ memo \in [Runs -> {"working", "completed", "failed"}]
    /\ gate \in [Calls -> {"none", "pending", "approved", "rejected"}]
    /\ status \in Statuses /\ cancelRequested \in BOOLEAN
    /\ of \in [Workers -> Runs]
    /\ seen \in [Workers -> [status: Statuses, cancel: BOOLEAN, memo: {"working", "completed", "failed"}]]
    /\ todo \in [Workers -> SUBSET Runs]

(* "A Run in completed, failed, or cancelled is never restarted": no gate, step,
   bind or approval brings a run that has ended back (updateRunLifecycle). One
   call at a time. *)
NeverRestarted ==
    [][Serial => \A r \in Runs : life[r] \in Terminal => life'[r] \in Terminal]_vars

(* "Gate already resolved": the decision on a gate is taken once (resolveGate). *)
GateAnsweredOnce == [][\A g \in Calls : gate[g] \in {"approved", "rejected"} => gate'[g] = gate[g]]_vars

(* A run waits for a person only while there is a gate that a person can
   resolve, once nothing is in flight (createPendingGate, resolveGate). One call
   at a time. *)
InputHasGate ==
    (Serial /\ Running = {}) => \A r \in Runs :
        life[r] = "input-required" => \E g \in Made : gate[g] = "pending" /\ Request[g].run = r

(* A headless run that is completed has a completed step: a timeout and a late
   answer of the action never leave the run and the memo apart
   (applyStepMemoFromJournal, maybeCompleteHeadlessRun). *)
CompletedAsReported ==
    \A r \in Headless : life[r] = "completed" => memo[r] = "completed"

(* "Terminal step memos (completed / failed) never regress": the outcome that
   was recorded first stays (upsertRunStepMemo). *)
MonotonicMemos == [][\A r \in Runs : memo[r] # "working" => memo'[r] = memo[r]]_vars

(* The cancellation of the session has been marked and its timer not fired. *)
CancelPending == \E c \in Calls : pc[c] \in {"list", "sweep", "timer"}

(* "Active runs -> cancelled when executor acks or after hub timeout": every run
   that is active while a session cancel is pending ends, runs created, parked
   or resumed behind the cancel's own list included (cancelSession). *)
CancelReachesRuns ==
    \A r \in Runs : (CancelPending /\ life[r] \in Active) ~> life[r] \in Terminal
=============================================================================
