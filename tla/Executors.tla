------------------------------ MODULE Executors ------------------------------
(***************************************************************************)
(* How a step of a run is handed to an executor and taken back: the invoke   *)
(* service, the poll store of queue workers, the process trees of the shell  *)
(* executor, the timeout scheduler and its sweep, and the credentials that    *)
(* let an executor resolve the step it was assigned.                         *)
(*                                                                         *)
(* One run is modelled, at one step with an executor. The step may open a      *)
(* nested human step (it yields) and is assigned again when that child         *)
(* resumes it. A step of the model is the code between two awaits.             *)
(***************************************************************************)
EXTENDS Integers, FiniteSets, FiniteSetsExt

CONSTANTS
    Calls,      \* bound: the invokeAction calls for the step, numbered in order
    Workers,    \* requests and callbacks the daemon runs concurrently
    Kinds,      \* executor types of the binding: "shell", "queue", "mcp"
    Clients     \* executor types for which the step is also invoked from outside

ASSUME CallsAssumption == Calls \subseteq Nat /\ IsFiniteSet(Calls) /\ Calls # {}

ASSUME KindsAssumption == Kinds \subseteq {"shell", "queue", "mcp"}

VARIABLES
    setup,      \* executor type, delivery, completion mode, last step: the applied index
    life,       \* lifecycle of the run
    memo,       \* memo of the step
    child,      \* memo of its nested human step
    rowKey,     \* TRUE: the memo row carries the idempotency key of the invokes
    cached,     \* memoStore: the outcome memoized under that key
    pending,    \* pendingInvokes: queued until an executor connects
    live,       \* registered resolve credentials, by the call that minted them
    timer,      \* TRUE: the timeout scheduler has an entry for the step
    handles,    \* handlesByKey: calls whose process can be cancelled
    proc,       \* process tree of a call
    outcome,    \* how the process of a call ended, until it is handled
    task,       \* record of a call in the poll store
    queue,      \* pendingByExecutor
    held,       \* offers and control messages an external worker has received
    reachable,  \* a worker polled within its TTL, an MCP session is connected
    job,        \* what each worker is doing
    history     \* observations: see Init

vars == <<setup, life, memo, child, rowKey, cached, pending, live, timer, handles,
          proc, outcome, task, queue, held, reachable, job, history>>

runVars == <<setup, life, memo, child, rowKey>>
poolVars == <<pending, task, queue, held, reachable>>
shellVars == <<handles, proc, outcome>>

None == "none"
Terminal == {"completed", "failed", "cancelled"}
Done == {"completed", "failed"}

NoProc == [group |-> {}, signalled |-> FALSE, kill |-> {}, settled |-> TRUE, killed |-> FALSE]
Idle == [at |-> "idle", call |-> 0, ev |-> None, was |-> None, then |-> "idle", flush |-> {}]

\* complete: how the handler completes the step; "auto_nested" is "auto" for a step
\* with nested children, which an apply only warns about.
Setups == [kind : Kinds, delivery : {"fail_fast", "queue_until_executor"},
           complete : {"explicit", "auto", "auto_nested"}, last : BOOLEAN]

TypeOK ==
    /\ setup \in Setups
    /\ life \in {"working"} \union Terminal
    /\ memo \in {"working", "yielded"} \union Done
    /\ child \in {None, "working", "completed"}
    /\ rowKey \in BOOLEAN
    /\ cached \in {None, "queued", "dispatched"} \union Done
    /\ timer \in BOOLEAN
    /\ \A s \in {pending, live, handles, queue, held} : s \subseteq Calls
    /\ handles \subseteq {c \in Calls : ~proc[c].settled}
    /\ task \in [Calls -> {None, "offered", "completed", "failed"}]
    /\ outcome \in [Calls -> {None, "completed", "failed", "handled"}]
    /\ \A c \in queue : task[c] # None
    /\ reachable \in BOOLEAN

\* history.used: calls made; overlap: two of them were in flight together;
\* sent: calls that reached an executor; overtaken: calls in flight when the run
\* ended, or made later; resumed: calls that re-assign a resumed step; reports:
\* journaled ends of a task; why: what failed the run.
Init ==
    /\ setup \in Setups
    /\ setup.kind = "shell" => setup.delivery = "fail_fast"
    /\ setup.complete = "auto" => setup.last
    /\ setup.complete = "auto_nested" => setup.last /\ setup.kind = "shell"
    /\ life = "working" /\ memo = "working" /\ child = None
    /\ rowKey = FALSE /\ cached = None /\ pending = {} /\ live = {} /\ timer = FALSE
    /\ handles = {} /\ proc = [c \in Calls |-> NoProc] /\ outcome = [c \in Calls |-> None]
    /\ task = [c \in Calls |-> None] /\ queue = {} /\ held = {}
    /\ reachable \in IF setup.kind = "shell" THEN {FALSE} ELSE BOOLEAN
    /\ LET first == CHOOSE w \in Workers : TRUE IN
       job = [w \in Workers |->
                 IF w = first THEN [Idle EXCEPT !.at = "mint", !.call = Min(Calls)] ELSE Idle]
    /\ history = [used |-> {Min(Calls)}, overlap |-> FALSE, sent |-> {}, overtaken |-> {},
                  resumed |-> {}, reports |-> [c \in Calls |-> 0], why |-> None]

-----------------------------------------------------------------------------
(* Jobs. A job that drains the queued invokes goes on with the next one. *)

Goto(w, at) == job' = [job EXCEPT ![w].at = at]
Continue(w, at) ==
    job' = [job EXCEPT ![w] = [@ EXCEPT !.at = at, !.ev = None, !.was = None, !.then = "idle"]]
Return(w) ==
    job' = [job EXCEPT ![w] =
               IF job[w].flush = {} THEN Idle
               ELSE [Idle EXCEPT !.at = "flush", !.flush = job[w].flush]]

InvokeSteps == {"mint", "lookup", "preflight", "dispatch", "port", "memoizeFailed"}
InFlight == {job[w].call : w \in {v \in Workers :
                job[v].at \in InvokeSteps \/ job[v].ev = "dispatched" \/ job[v].flush # {}}}
Fresh == Calls \ history.used

\* A new invokeAction call on worker w, at its first step.
Invoke(w, resumed) ==
    /\ Fresh # {}
    /\ job' = [job EXCEPT ![w] = [Idle EXCEPT !.at = "mint", !.call = Min(Fresh)]]
    /\ history' = [history EXCEPT
          !.used = @ \union {Min(Fresh)},
          !.overlap = @ \/ InFlight # {} \/ pending # {},
          !.resumed = IF resumed THEN @ \union {Min(Fresh)} ELSE @,
          !.overtaken = IF life \in Terminal THEN @ \union {Min(Fresh)} ELSE @]

\* A peer hub relays an invoke that names the run and the step.
ClientInvoke(w) ==
    /\ setup.kind \in Clients /\ job[w].at = "idle"
    /\ Invoke(w, FALSE)
    /\ UNCHANGED <<runVars, cached, live, timer, poolVars, shellVars>>

-----------------------------------------------------------------------------
(* invokeAction and orchestrateInvoke *)

\* invokeAction mints a resolve credential and registers it for the step.
MintRunResolveToken(w) ==
    /\ job[w].at = "mint"
    /\ live' = live \union {job[w].call}
    /\ Goto(w, "lookup")
    /\ UNCHANGED <<runVars, cached, timer, poolVars, shellVars, history>>

\* dispatchOutcomeFromStepMemo: a memo row that carries the key answers too.
dispatchOutcomeFromStepMemo ==
    IF ~rowKey \/ memo = "yielded" THEN None
    ELSE IF memo = "working" THEN "dispatched" ELSE memo

\* Mutant: the memoized outcome is not looked up.
LookupMemoNever(w) ==
    /\ job[w].at = "lookup"
    /\ Goto(w, "preflight")
    /\ UNCHANGED <<runVars, cached, live, timer, poolVars, shellVars, history>>

\* The idempotency key is the same for every invoke of this step in this run.
LookupMemo(w) ==
    /\ job[w].at = "lookup"
    /\ cached' = IF cached = None THEN dispatchOutcomeFromStepMemo ELSE cached
    /\ IF cached' # None THEN Return(w) ELSE Goto(w, "preflight")
    /\ UNCHANGED <<runVars, live, timer, poolVars, shellVars, history>>

Reachable == setup.kind = "shell" \/ reachable

\* runInvokePreflight: an unreachable executor queues the invoke, or fails the step.
Preflight(w) ==
    /\ job[w].at = "preflight"
    /\ \/ /\ Reachable
          /\ job' = [job EXCEPT ![w].at = "projRead", ![w].ev = "dispatched", ![w].then = "dispatch"]
          /\ UNCHANGED <<cached, pending>>
       \/ /\ ~Reachable /\ setup.delivery = "queue_until_executor"
          /\ pending' = pending \union {job[w].call} /\ cached' = "queued"
          /\ Return(w)
       \/ /\ ~Reachable /\ setup.delivery = "fail_fast"
          /\ job' = [job EXCEPT ![w].at = "projRead", ![w].ev = "unavailable", ![w].then = "return"]
          /\ UNCHANGED <<cached, pending>>
    /\ UNCHANGED <<runVars, live, timer, task, queue, held, reachable, shellVars, history>>

\* The scheduler entry is set before the adapter runs.
StartTimeout(w) ==
    /\ job[w].at = "dispatch"
    /\ timer' = TRUE
    /\ Goto(w, "port")
    /\ UNCHANGED <<runVars, cached, live, poolVars, shellVars, history>>

Sent(c) == history' = [history EXCEPT !.sent = @ \union {c}]

\* createShellSpawnExecutor.dispatch: a detached process tree whose leader is a
\* shell, or a binding, an artifact or the spawn that fails.
DispatchShell(w) ==
    LET c == job[w].call IN
    /\ job[w].at = "port" /\ setup.kind = "shell"
    /\ \/ /\ proc' = [proc EXCEPT ![c] = [NoProc EXCEPT !.group = {"leader", "descendant"},
                                                      !.settled = FALSE]]
          /\ handles' = handles \union {c}
          /\ cached' = "dispatched" /\ Sent(c) /\ Return(w)
       \/ /\ job' = [job EXCEPT ![w].at = "projRead", ![w].ev = "failed", ![w].then = "memoizeFailed"]
          /\ UNCHANGED <<proc, handles, cached, history>>
    /\ UNCHANGED <<runVars, live, timer, poolVars, outcome>>

\* The queue adapter enqueues an offer, the MCP adapter publishes a message; both
\* check again that someone is there.
DispatchRemote(w) ==
    LET c == job[w].call IN
    /\ job[w].at = "port" /\ setup.kind \in {"queue", "mcp"}
    /\ \/ /\ reachable /\ cached' = "dispatched" /\ Sent(c)
          /\ IF setup.kind = "queue"
             THEN /\ task' = [task EXCEPT ![c] = "offered"] /\ queue' = queue \union {c}
                  /\ UNCHANGED held
             ELSE held' = held \union {c} /\ UNCHANGED <<task, queue>>
          /\ UNCHANGED pending
       \/ /\ ~reachable /\ setup.delivery = "queue_until_executor"
          /\ pending' = pending \union {c} /\ cached' = "queued"
          /\ UNCHANGED <<task, queue, held, history>>
       \/ /\ ~reachable /\ setup.delivery = "fail_fast"
          /\ UNCHANGED <<pending, cached, task, queue, held, history>>
    /\ Return(w)
    /\ UNCHANGED <<runVars, live, timer, reachable, shellVars>>

\* A failed dispatch is memoized, and invokeAction fails the run.
MemoizeFailed(w) ==
    /\ job[w].at = "memoizeFailed"
    /\ timer' = FALSE /\ cached' = "failed"
    /\ Goto(w, "failRead")
    /\ UNCHANGED <<runVars, live, poolVars, shellVars, history>>

\* flushQueuedInvokes, when an MCP session connects: the queue is taken, and each
\* invoke dispatched without a look at the memo.
McpConnect(w) ==
    /\ setup.kind = "mcp" /\ job[w].at = "idle"
    /\ reachable' = TRUE
    /\ pending' = {}
    /\ job' = [job EXCEPT ![w] = IF pending = {} THEN @ ELSE [Idle EXCEPT !.at = "flush", !.flush = pending]]
    /\ UNCHANGED <<runVars, cached, live, timer, task, queue, held, shellVars, history>>

FlushNext(w) ==
    /\ job[w].at = "flush"
    /\ LET c == Min(job[w].flush) IN
       job' = [job EXCEPT ![w] = [@ EXCEPT !.at = "preflight", !.call = c, !.flush = job[w].flush \ {c}]]
    /\ UNCHANGED <<runVars, cached, live, timer, poolVars, shellVars, history>>

\* Mutant: only the invokes that were not tried yet are put back.
FlushThrowsDropsOne(w) ==
    /\ setup.kind = "mcp" /\ job[w].at = "projRead" /\ job[w].ev = "dispatched"
    /\ cached = "queued"
    /\ pending' = pending \union job[w].flush
    /\ job' = [job EXCEPT ![w] = Idle]
    /\ UNCHANGED <<runVars, cached, live, timer, task, queue, held, reachable, shellVars, history>>

\* A journal append that throws puts the item and the rest back.
FlushThrows(w) ==
    /\ setup.kind = "mcp" /\ job[w].at = "projRead" /\ job[w].ev = "dispatched"
    /\ cached = "queued"
    /\ pending' = pending \union job[w].flush \union {job[w].call}
    /\ job' = [job EXCEPT ![w] = Idle]
    /\ UNCHANGED <<runVars, cached, live, timer, task, queue, held, reachable, shellVars, history>>

-----------------------------------------------------------------------------
(* projectStepMemoFromJournal *)

\* The memo is read first; a handler with "complete: auto" then tries to resolve
\* the step with the result of the action.
ProjectRead(w) ==
    /\ job[w].at = "projRead"
    /\ job' = [job EXCEPT
          ![w].at = IF job[w].ev # "completed" \/ setup.complete = "explicit" THEN "projWrite"
                    ELSE IF setup.complete = "auto" THEN "resolve" ELSE "autoNested",
          ![w].was = memo]
    /\ UNCHANGED <<runVars, cached, live, timer, poolVars, shellVars, history>>

\* HANDLER_COMPLETE_AUTO_NESTED: the step and the run fail.
AutoNested(w) ==
    /\ job[w].at = "autoNested"
    /\ memo' = "failed" /\ rowKey' = FALSE
    /\ Goto(w, "failRead")
    /\ UNCHANGED <<setup, life, child, cached, live, timer, poolVars, shellVars, history>>

\* applyStepMemoFromJournal on the memo read before; a completed action leaves a
\* step contract open.
applyStepMemoFromJournal(was, ev) ==
    IF ev = "completed" THEN "working"
    ELSE IF was \in Done THEN was
    ELSE IF ev = "dispatched" THEN "working" ELSE "failed"

\* A failed or timed-out action is followed by the failed branch of the step.
ProjectWrite(w) ==
    LET ev == job[w].ev
        was == job[w].was
    IN
    /\ job[w].at = "projWrite"
    /\ memo' = IF ev = "completed" /\ was = "completed" THEN memo ELSE applyStepMemoFromJournal(was, ev)
    /\ rowKey' = (rowKey \/ (ev \in {"dispatched", "unavailable"} /\ was \notin Done))
    /\ timer' = (timer /\ ev \notin Done)
    /\ IF job[w].then = "return" THEN Return(w)
       ELSE IF job[w].then = "branch" THEN Continue(w, "failRead") \/ Return(w)
       ELSE Continue(w, job[w].then)
    /\ UNCHANGED <<setup, life, child, cached, live, poolVars, shellVars, history>>

-----------------------------------------------------------------------------
(* Process trees: run-executor-cancel and runCommandDetached *)

Signal(p, by) == [p EXCEPT !.signalled = TRUE, !.kill = @ \union {by}]

\* cancelHandlesForKeys and killChildProcess: a leader that is gone is not
\* signalled, a tree that is being killed is not signalled again.
CancelHandles ==
    /\ proc' = [c \in Calls |->
          IF c \in handles /\ "leader" \in proc[c].group /\ "cancel" \notin proc[c].kill
          THEN Signal(proc[c], "cancel") ELSE proc[c]]
    /\ handles' = {}

\* Mutant: the end of the leader ends the escalation.
LeaderGoneClears(p) == [p EXCEPT !.kill = @ \ {"cancel"}]

\* onLeaderGone: the escalation is dropped when the whole group is dead.
onLeaderGone(p) == IF p.group = {} THEN [p EXCEPT !.kill = @ \ {"cancel"}] ELSE p

ProcessExits(c) ==
    /\ \E m \in proc[c].group :
          LET p == [proc[c] EXCEPT !.group = @ \ {m}] IN
          proc' = [proc EXCEPT ![c] = IF m = "leader" THEN onLeaderGone(p) ELSE p]
    /\ UNCHANGED <<runVars, cached, live, timer, handles, outcome, poolVars, job, history>>

\* The close event, once the leader is gone: finish reports how it ended.
ProcessCloses(c) ==
    /\ "leader" \notin proc[c].group /\ ~proc[c].settled
    /\ proc' = [proc EXCEPT ![c] = onLeaderGone([@ EXCEPT !.settled = TRUE, !.killed = FALSE])]
    /\ handles' = handles \ {c}
    /\ \E end \in IF proc[c].killed THEN {"failed"} ELSE Done : outcome' = [outcome EXCEPT ![c] = end]
    /\ UNCHANGED <<runVars, cached, live, timer, poolVars, job, history>>

\* The timer of the process itself: it is not the scheduler's and is not paused.
ProcessTimesOut(c) ==
    /\ ~proc[c].settled
    /\ proc' = [proc EXCEPT ![c] = Signal([@ EXCEPT !.settled = TRUE], "timeout")]
    /\ handles' = handles \ {c}
    /\ outcome' = [outcome EXCEPT ![c] = "failed"]
    /\ UNCHANGED <<runVars, cached, live, timer, poolVars, job, history>>

\* SIGKILL to the group after the grace period.
Escalate(c) ==
    /\ \E by \in proc[c].kill :
          proc' = [proc EXCEPT ![c] = [@ EXCEPT !.group = {}, !.kill = proc[c].kill \ {by},
                !.killed = ~proc[c].settled /\ "leader" \in proc[c].group]]
    /\ UNCHANGED <<runVars, cached, live, timer, handles, outcome, poolVars, job, history>>

\* handleShellComplete: the credentials of the step go first.
ShellComplete(w) ==
    /\ job[w].at = "idle"
    /\ \E c \in Calls :
          /\ outcome[c] \in Done
          /\ outcome' = [outcome EXCEPT ![c] = "handled"]
          /\ job' = [job EXCEPT ![w] = [Idle EXCEPT
                !.call = c,
                !.at = IF outcome[c] = "failed" THEN "exitMemos" ELSE "projRead",
                !.ev = outcome[c],
                !.then = IF outcome[c] = "failed" THEN "failRead" ELSE "return"]]
    /\ live' = {}
    /\ UNCHANGED <<runVars, cached, timer, handles, proc, poolVars, history>>

\* A failure is dropped when the step is completed; else it is projected and the
\* run fails.
ExitMemos(w) ==
    /\ job[w].at = "exitMemos"
    /\ IF memo = "completed" THEN Return(w) ELSE Goto(w, "projRead")
    /\ UNCHANGED <<runVars, cached, live, timer, poolVars, shellVars, history>>

-----------------------------------------------------------------------------
(* Workers that poll, and MCP sessions *)

\* poll drains the offers that are still offered; a response may be lost.
Poll ==
    /\ setup.kind = "queue"
    /\ LET offers == {c \in queue : task[c] = "offered"} IN
       /\ queue' = queue \ offers
       /\ held' \in {held, held \union offers}
    /\ reachable' = TRUE
    /\ UNCHANGED <<runVars, cached, live, timer, pending, task, shellVars, job, history>>

\* The TTL of the last poll runs out, or the MCP session goes away.
GoAway ==
    /\ reachable /\ setup.kind # "shell"
    /\ reachable' = FALSE
    /\ UNCHANGED <<runVars, cached, live, timer, pending, task, queue, held, shellVars, job, history>>

Report(w, c, ev, then) ==
    /\ job' = [job EXCEPT ![w] = [Idle EXCEPT !.at = "projRead", !.call = c, !.ev = ev, !.then = then]]
    /\ history' = [history EXCEPT !.reports[c] = @ + 1]

\* Mutant: the record is marked after the journal entry is written.
AnswerTaskUnmarked(w, c, ev, then) == Report(w, c, ev, then) /\ UNCHANGED task

\* completeQueuedTask and failQueuedTask mark the record before they journal.
AnswerTask(w, c, ev, then) ==
    /\ task' = [task EXCEPT ![c] = ev]
    /\ Report(w, c, ev, then)

\* A worker answers an offer it holds, perhaps again, perhaps late; a record that
\* is not offered any more refuses it.
QueueAnswer(w) ==
    /\ setup.kind = "queue" /\ job[w].at = "idle"
    /\ \E c \in held :
          /\ task[c] = "offered" /\ history.reports[c] < 2
          /\ \/ AnswerTask(w, c, "completed", "return")
             \/ AnswerTask(w, c, "failed", "branch")
    /\ UNCHANGED <<runVars, cached, live, timer, pending, queue, held, reachable, shellVars>>

\* completeDispatchedAction: only for a working memo.
completeDispatchedAction(w) ==
    /\ setup.kind = "mcp" /\ job[w].at = "idle"
    /\ \E c \in held :
          /\ memo = "working" /\ history.reports[c] < 2
          /\ Report(w, c, "completed", "return")
    /\ UNCHANGED <<runVars, cached, live, timer, poolVars, shellVars>>

-----------------------------------------------------------------------------
(* The end of a run, the sweep, and the operations of the step engine *)

\* Mutant: the offers of the run stay open.
terminateKeepsOffers ==
    /\ CancelHandles /\ timer' = FALSE /\ live' = {} /\ task' = task

\* terminateRunExecutors: processes, timers, credentials, offers.
terminateRunExecutors ==
    /\ CancelHandles /\ timer' = FALSE /\ live' = {}
    /\ task' = [c \in Calls |-> IF task[c] = "offered" THEN "failed" ELSE task[c]]

EndRun(status, why) ==
    /\ terminateRunExecutors
    /\ life' = status
    /\ history' = [history EXCEPT !.overtaken = @ \union InFlight \union pending, !.why = why]

\* sweepExecutorTimeouts: an entry expires at some point; it is taken out before
\* the memo of its step is asked for.
SweepExpired(w) ==
    /\ job[w].at = "idle" /\ timer
    /\ timer' = FALSE
    /\ job' = [job EXCEPT ![w] = [Idle EXCEPT !.at = "sweepMemos", !.ev = "timed_out"]]
    /\ UNCHANGED <<runVars, cached, live, poolVars, shellVars, history>>

SweepMemos(w) ==
    /\ job[w].at = "sweepMemos"
    /\ IF memo \in Done THEN Return(w) ELSE Goto(w, "failRead")
    /\ UNCHANGED <<runVars, cached, live, timer, poolVars, shellVars, history>>

\* failRunWithNotification: a run that has ended is left alone.
FailRunRead(w) ==
    /\ job[w].at = "failRead"
    /\ IF life \in Terminal THEN Return(w) ELSE Goto(w, "failEnd")
    /\ UNCHANGED <<runVars, cached, live, timer, poolVars, shellVars, history>>

FailRunEnd(w) ==
    /\ job[w].at = "failEnd"
    /\ EndRun("failed", IF job[w].ev = "timed_out" THEN "sweep"
                        ELSE IF outcome[job[w].call] = "handled" THEN "exit" ELSE "invoke")
    /\ Return(w)
    /\ UNCHANGED <<setup, memo, child, rowKey, cached, pending, queue, held, reachable, outcome>>

CancelRun(w) ==
    /\ job[w].at = "idle" /\ life \notin Terminal
    /\ EndRun("cancelled", "cancel")
    /\ UNCHANGED <<setup, memo, child, rowKey, cached, pending, queue, held, reachable, outcome, job>>

\* openChildStep: the step yields, its process and its credentials are taken
\* back; the entry of the scheduler stays, STEP_OPENED is journaled, not projected.
OpenChild(w) ==
    /\ job[w].at = "idle" /\ life \notin Terminal /\ setup.complete # "auto"
    /\ memo = "working" /\ child # "working" /\ Fresh # {}
    /\ memo' = "yielded" /\ child' = "working"
    /\ CancelHandles /\ live' = {}
    /\ UNCHANGED <<setup, life, rowKey, cached, timer, poolVars, outcome, job, history>>

\* The human resolves the child: the step is working again and dispatched anew.
ResumeParent(w) ==
    /\ job[w].at = "idle" /\ life \notin Terminal
    /\ child = "working" /\ memo = "yielded"
    /\ child' = "completed" /\ memo' = "working"
    /\ Invoke(w, TRUE)
    /\ UNCHANGED <<setup, life, rowKey, cached, live, timer, poolVars, shellVars>>

\* resolveFlowStep, called by the executor or by maybeAutoResolveExecutorStepAfterAction,
\* whose refusal leaves the projection to go on; the last step completes the run.
ResolveStep(w) ==
    /\ job[w].at \in {"idle", "resolve"}
    /\ IF memo = "working" /\ life \notin Terminal
       THEN /\ memo' = "completed" /\ rowKey' = FALSE
            /\ CancelHandles /\ live' = {}
            /\ IF setup.last THEN Goto(w, "completeRun") ELSE Return(w)
       ELSE /\ job[w].at = "resolve" /\ Goto(w, "projWrite")
            /\ UNCHANGED <<memo, rowKey, live, handles, proc>>
    /\ UNCHANGED <<setup, life, child, cached, timer, poolVars, outcome, history>>

CompleteRun(w) ==
    /\ job[w].at = "completeRun"
    /\ IF life \in Terminal
       THEN UNCHANGED <<life, live, timer, handles, proc, task, history>>
       ELSE EndRun("completed", "resolve")
    /\ Return(w)
    /\ UNCHANGED <<setup, memo, child, rowKey, cached, pending, queue, held, reachable, outcome>>

-----------------------------------------------------------------------------
Next ==
    \/ \E w \in Workers :
          \/ ClientInvoke(w) \/ MintRunResolveToken(w) \/ LookupMemo(w) \/ Preflight(w)
          \/ StartTimeout(w) \/ DispatchShell(w) \/ DispatchRemote(w) \/ MemoizeFailed(w)
          \/ McpConnect(w) \/ FlushNext(w) \/ FlushThrows(w)
          \/ ProjectRead(w) \/ AutoNested(w) \/ ProjectWrite(w) \/ ShellComplete(w) \/ ExitMemos(w)
          \/ QueueAnswer(w) \/ completeDispatchedAction(w)
          \/ SweepExpired(w) \/ SweepMemos(w) \/ FailRunRead(w) \/ FailRunEnd(w)
          \/ CancelRun(w) \/ OpenChild(w) \/ ResumeParent(w)
          \/ ResolveStep(w) \/ CompleteRun(w)
    \/ \E c \in Calls :
          ProcessExits(c) \/ ProcessCloses(c) \/ ProcessTimesOut(c) \/ Escalate(c)
    \/ Poll \/ GoAway

Spec == Init /\ [][Next]_vars

-----------------------------------------------------------------------------
(* Properties *)

\* A process tree that was sent SIGTERM, by a cancel or by its own timeout, has a
\* SIGKILL coming as long as one of its processes lives: the escalation outlives
\* the shell that led the tree (killChildProcess, runCommandDetached).
SignalledTreeIsReaped ==
    \A c \in Calls : proc[c].signalled /\ proc[c].group # {} => proc[c].kill # {}

\* The end of one offer is journaled once, whoever answers it, however often and
\* however late (completeQueuedTask, failQueuedTask).
OneReportPerTask == \A c \in Calls : setup.kind = "queue" => history.reports[c] <= 1

\* When a run ends nothing of it goes on: no credential, no offer, no process that
\* was not told to stop (terminateRunExecutors). Calls that were being dispatched
\* just then, or are made for the ended run, are not held back by the code.
EndedIsQuiet ==
    life \in Terminal =>
        \A c \in Calls \ history.overtaken :
            /\ c \notin live /\ c \notin handles /\ task[c] # "offered"
            /\ "leader" \in proc[c].group => proc[c].signalled

\* Invokes of one step under one key reach an executor once, unless they overlap
\* (buildInvokeIdempotencyKey, orchestrateInvoke).
OneDispatchPerKey == ~history.overlap => Cardinality(history.sent) <= 1

\* A queued invoke is kept until it is dispatched (flushQueuedInvokes).
QueuedIsKept == cached = "queued" => pending # {} \/ InFlight # {}

\* An invoke is carried out once and its end reported once: retries, late answers
\* and a flush that throws neither repeat it nor lose it (orchestrateInvoke,
\* flushQueuedInvokes, completeQueuedTask).
CarriedOutOnce == OneDispatchPerKey /\ QueuedIsKept /\ OneReportPerTask

\* "return creates a fresh parent assignment": the dispatch that follows a resume
\* reaches an executor, waits for one, or fails.
FreshAssignment ==
    \A c \in history.resumed \ (InFlight \union history.overtaken) :
        \/ life \in Terminal \/ c \in history.sent \union pending
        \/ memo = "failed" \/ cached = "failed" \/ \E w \in Workers : job[w].call = c

\* "Human review wait time is excluded from this limit."
HumanWaitExcluded == [][history'.why = "sweep" /\ history.why # "sweep" => child # "working"]_vars

\* Taking its process from a step that yields does not fail the run.
YieldKeepsRun == [][history'.why = "exit" /\ history.why # "exit" => child # "working"]_vars
=============================================================================
