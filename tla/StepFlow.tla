------------------------------ MODULE StepFlow ------------------------------
(***************************************************************************)
(* The step engine on one run of a step-contract flow: steps are opened,   *)
(* resolved on a branch, looped back to, yielded to a nested child and     *)
(* resumed by it.                                                          *)
(*                                                                         *)
(* A worker is one call of the API, or the stream of an executor's output. *)
(* A step of a worker is what runs between two awaits.  The memos of the   *)
(* steps are separate rows; the execution context (iterations, requests to *)
(* open a child, outputs) is one column that every writer replaces whole,  *)
(* by a value built on the row it read earlier.                            *)
(***************************************************************************)
EXTENDS StepContracts

CONSTANTS
    Steps,      \* the ids of the catalog
    Manifests,  \* the flows a run may follow, as apply accepted them
    Clients,    \* workers that call the API
    Streams,    \* workers that append executor output
    Keys,       \* idempotency keys
    Kinds,      \* which calls clients make
    Exclusive,  \* the kinds of call that never overlap another call
    PerParent,  \* overlapping requests to open a child concern one parent
    MaxOpens    \* bound on activations of one step

VARIABLES
    catalog,    \* the compiled catalog of the run's flow; never changes
    life,       \* runs.lifecycle
    memo,       \* run_step_memos.status of each step
    ctx,        \* runs.exec_context
    assigned,   \* the steps handed to the invoke service and not revoked since
    lock,       \* open-child-step's parentLocks: who holds a parent
    opens,      \* activations of each step, counted here for the properties
    asked,      \* activations by each open request
    routed,     \* the engines of the routes of the resolves that returned
    job         \* where each worker is and what it has read

vars == <<catalog, life, memo, ctx, assigned, lock, opens, asked, routed, job>>
history == <<opens, asked, routed>>

Workers == Clients \union Streams
Terminal == {"completed", "failed", "cancelled"}
Statuses == {"pending", "working", "yielded", "completed", "failed"}
Top == ToSet(catalog.top)
Children(p) == {s \in Steps : catalog.parent[s] = p}

\* exec_context._nested_open_requests, by key.
Ask(key, parent, child) == [key |-> key, parent |-> parent, child |-> child]
EmptyContext == [iterations |-> [s \in Steps |-> 0], requests |-> {}, outputs |-> {}]

Idle == [at |-> "idle", kind |-> "none", step |-> None, branch |-> "none", child |-> None,
         key |-> None, ctx |-> EmptyContext, todo |-> <<>>]

RouteOf(w) == catalog.routes[job[w].step][job[w].branch]

Goto(w, at) == job' = [job EXCEPT ![w].at = at]
Return(w) == job' = [job EXCEPT ![w] = Idle]

Init ==
    /\ catalog \in {compileStepContractCatalog(m) : m \in Manifests}
    /\ life = "working"
    /\ memo = [s \in Steps |-> "pending"]
    /\ ctx = EmptyContext
    /\ assigned = {}
    /\ lock = [s \in Steps |-> None]
    /\ opens = [s \in Steps |-> 0] /\ asked = [k \in Keys |-> 0] /\ routed = {}
    /\ \E on \in SUBSET Streams, first \in Clients : job = [w \in Workers |->
          IF w = first
          THEN [Idle EXCEPT !.at = "bootstrap", !.kind = "bootstrap"]
          ELSE IF w \in Streams \ on THEN [Idle EXCEPT !.at = "off"] ELSE Idle]

\* upsertRunStepMemo replaces the row.
upsertRunStepMemo(s, status) == memo' = [memo EXCEPT ![s] = status]

\* persistRunExecContext replaces the column.
persistRunExecContext(value) == ctx' = value

\* Mutant: the executor of a step that yields or is resolved keeps its assignment.
cancelNoExecutor(s) == assigned' = assigned

\* cancelStepExecutor and revokeStepResolveCredentials.
cancelStepExecutor(s) == assigned' = assigned \ {s}

Started == \E s \in Top : memo[s] # "pending"

\* bootstrapStepContractFlow opens the first top-level step of a fresh run.
Bootstrap(w) ==
    /\ job[w].at = "bootstrap"
    /\ IF Started THEN Return(w)
       ELSE job' = [job EXCEPT ![w].at = "openGetRun", ![w].child = catalog.top[1]]
    /\ UNCHANGED <<catalog, life, memo, ctx, assigned, lock, history>>

-----------------------------------------------------------------------------
(* Calls. The client picks any step and branch, any declared child and key.   *)
(* A resolve that repeats the key of a resolved step is answered and changes   *)
(* nothing.                                                                    *)

Running == {c \in Clients : job[c].at # "idle"}

MayCall(w, kind) ==
    /\ job[w].at = "idle" /\ w \in Clients /\ kind \in Kinds
    /\ \A c \in Running : {kind, job[c].kind} \intersect Exclusive = {}
    /\ \A s \in Steps : opens[s] < MaxOpens

CallResolve(w) ==
    /\ MayCall(w, "resolve")
    /\ \E s \in Steps : \E b \in DOMAIN catalog.routes[s] :
          job' = [job EXCEPT ![w] = [Idle EXCEPT !.at = "getRun", !.kind = "resolve",
                                                 !.step = s, !.branch = b]]
    /\ UNCHANGED <<catalog, life, memo, ctx, assigned, lock, history>>

CallOpenChild(w) ==
    /\ MayCall(w, "openChild")
    /\ \E p \in Steps, k \in Keys : \E c \in Children(p) :
          /\ PerParent => \A r \in Running : job[r].step = p
          /\ job' = [job EXCEPT ![w] = [Idle EXCEPT !.at = "lock", !.kind = "openChild",
                                                    !.step = p, !.child = c, !.key = k]]
    /\ UNCHANGED <<catalog, life, memo, ctx, assigned, lock, history>>

\* cancelRun: the executors of the run are terminated and the run is cancelled.
CancelRun(w) ==
    /\ MayCall(w, "cancel") /\ life \notin Terminal
    /\ life' = "cancelled" /\ assigned' = {}
    /\ UNCHANGED <<catalog, memo, ctx, lock, history, job>>

\* projectStepMemoFromJournal for an executor that reports. A completed action
\* leaves a step contract open until it is resolved; a failed or timed-out one
\* fails the memo, unless it is terminal already. Only an executor that still holds
\* its assignment reports here; the late report of a revoked one is in Executors.
ReportCompleted(w) ==
    /\ MayCall(w, "report")
    /\ \E s \in assigned :
          /\ assigned' = assigned \ {s}
          /\ IF memo[s] = "completed" THEN UNCHANGED memo ELSE upsertRunStepMemo(s, "working")
    /\ UNCHANGED <<catalog, life, ctx, lock, history, job>>

ReportFailed(w) ==
    /\ MayCall(w, "report")
    /\ \E s \in assigned :
          /\ assigned' = assigned \ {s}
          /\ IF memo[s] \in {"completed", "failed"} THEN UNCHANGED memo
             ELSE upsertRunStepMemo(s, "failed")
          /\ job' = [job EXCEPT ![w] = [Idle EXCEPT !.at = "advanceFlow", !.kind = "report",
                                                    !.step = s, !.branch = "failed"]]
    /\ UNCHANGED <<catalog, life, ctx, lock, history>>

\* maybeAdvanceStepContractFlow fails the run when the step's failed branch does;
\* any other route of that branch is not followed.
maybeAdvanceStepContractFlow(w) ==
    /\ job[w].at = "advanceFlow"
    /\ LET s == job[w].step IN
       IF /\ life \notin Terminal /\ memo[s] = "failed"
          /\ "failed" \in DOMAIN catalog.routes[s] /\ catalog.routes[s]["failed"].engine = "fail_run"
       THEN Goto(w, "failRun") ELSE Return(w)
    /\ UNCHANGED <<catalog, life, memo, ctx, assigned, lock, history>>

-----------------------------------------------------------------------------
(* resolveFlowStep *)

\* The run row: a terminal run only answers a replay of the same key.
ResolveGetRun(w) ==
    /\ job[w].at = "getRun"
    /\ IF life \in Terminal THEN Return(w)
       ELSE job' = [job EXCEPT ![w].at = "checkMemos", ![w].ctx = ctx]
    /\ UNCHANGED <<catalog, life, memo, ctx, assigned, lock, history>>

\* The memos: only a working step can be resolved, a resume needs its ancestor
\* yielded. A refused payload or artifact ends the call here too.
ResolvableNow(w) ==
    LET r == RouteOf(w) IN
    /\ memo[job[w].step] = "working"
    /\ r.engine = "resume" => /\ r.id \in catalog.ancestors[job[w].step]
                              /\ memo[r.id] = "yielded"

ResolveCheckMemos(w) ==
    /\ job[w].at = "checkMemos"
    /\ \/ ResolvableNow(w) /\ Goto(w, "writeMemo")
       \/ Return(w)
    /\ UNCHANGED <<catalog, life, memo, ctx, assigned, lock, history>>

ResolveWriteMemo(w) ==
    /\ job[w].at = "writeMemo"
    /\ upsertRunStepMemo(job[w].step,
                         IF RouteOf(w).engine = "fail_run" THEN "failed" ELSE "completed")
    /\ Goto(w, "persist")
    /\ UNCHANGED <<catalog, life, ctx, assigned, lock, history>>

\* stepsToResetForBackwardLoop: from the target to the last top-level step, when
\* both ends are top-level and the target comes first.
ResetsForBackwardLoop(from, to) ==
    LET at(t) == CHOOSE i \in DOMAIN catalog.top : catalog.top[i] = t
    IN IF {from, to} \subseteq Top /\ at(to) < at(from)
       THEN SubSeq(catalog.top, at(to), Len(catalog.top)) ELSE <<>>

\* The step's output is merged into the context read at the start of the call.
ResolvePersist(w) ==
    /\ job[w].at = "persist"
    /\ cancelStepExecutor(job[w].step)
    /\ LET c == [job[w].ctx EXCEPT !.outputs = @ \union {job[w].step}]
           r == RouteOf(w)
       IN /\ persistRunExecContext(c)
          /\ job' = [job EXCEPT ![w].ctx = c, ![w].at =
                CASE r.engine = "fail_run" -> "failParent"
                  [] r.engine = "resume" -> "resume"
                  [] r.engine = "open" -> "reset"
                  [] r.engine = "advance" -> "complete",
                ![w].todo = IF r.engine = "open" THEN ResetsForBackwardLoop(job[w].step, r.id) ELSE <<>>]
    /\ UNCHANGED <<catalog, life, memo, lock, history>>

\* fail_run: the parent's memo fails with the child's.
FailParent(w) ==
    /\ job[w].at = "failParent"
    /\ LET p == catalog.parent[job[w].step] IN
       IF p = None THEN UNCHANGED memo ELSE upsertRunStepMemo(p, "failed")
    /\ Goto(w, "failRun")
    /\ UNCHANGED <<catalog, life, ctx, assigned, lock, history>>

Routed(w) == routed' = IF job[w].kind = "resolve" THEN routed \union {RouteOf(w).engine} ELSE routed

failRunWithNotification(w) ==
    /\ job[w].at = "failRun"
    /\ IF life \in Terminal THEN UNCHANGED <<life, assigned>>
       ELSE life' = "failed" /\ assigned' = {}
    /\ Routed(w)
    /\ Return(w)
    /\ UNCHANGED <<catalog, memo, ctx, lock, opens, asked>>

-----------------------------------------------------------------------------
(* applyResolvedRoutes *)

\* Resume: the ancestor must still be yielded, or the call ends without a word.
ResumeCheck(w) ==
    /\ job[w].at = "resume"
    /\ IF memo[RouteOf(w).id] = "yielded" THEN Goto(w, "resumePersist") ELSE Return(w)
    /\ UNCHANGED <<catalog, life, memo, ctx, assigned, lock, history>>

ResumePersist(w) ==
    /\ job[w].at = "resumePersist"
    /\ persistRunExecContext(job[w].ctx)
    /\ Goto(w, "resumeMemo")
    /\ UNCHANGED <<catalog, life, memo, assigned, lock, history>>

\* Mutant: the resumed ancestor keeps the status it has.
ResumeMemoAsIs(w) ==
    /\ job[w].at = "resumeMemo"
    /\ job' = [job EXCEPT ![w].at = "dispatch", ![w].child = RouteOf(w).id]
    /\ UNCHANGED <<catalog, life, memo, ctx, assigned, lock, history>>

ResumeMemo(w) ==
    /\ job[w].at = "resumeMemo"
    /\ LET a == RouteOf(w).id IN upsertRunStepMemo(a, "working")
    /\ job' = [job EXCEPT ![w].at = "dispatch", ![w].child = RouteOf(w).id]
    /\ UNCHANGED <<catalog, life, ctx, assigned, lock, history>>

\* Open: one memo after the other is reset, then the target is opened.
ResetMemo(w) ==
    /\ job[w].at = "reset"
    /\ IF job[w].todo = <<>>
       THEN /\ job' = [job EXCEPT ![w].at = "openGetRun", ![w].child = RouteOf(w).id]
            /\ UNCHANGED memo
       ELSE /\ upsertRunStepMemo(Head(job[w].todo), "pending")
            /\ job' = [job EXCEPT ![w].todo = Tail(@)]
    /\ UNCHANGED <<catalog, life, ctx, assigned, lock, history>>

\* Mutant: the run is completed as soon as some top-level step is done.
completeRunIfAnyFinished(w) ==
    /\ job[w].at = "complete"
    /\ IF \E s \in Top : memo[s] \in {"completed", "failed"}
       THEN /\ assigned' = {}
            /\ Goto(w, IF \E s \in Steps : memo[s] = "failed" THEN "endFailed" ELSE "endCompleted")
            /\ UNCHANGED routed
       ELSE UNCHANGED assigned /\ Routed(w) /\ Return(w)
    /\ UNCHANGED <<catalog, life, memo, ctx, lock, opens, asked>>

\* Advance: completeRunIfFinished, on memos listed now.
completeRunIfFinished(w) ==
    /\ job[w].at = "complete"
    /\ IF \A s \in Top : memo[s] \in {"completed", "failed"}
       THEN /\ assigned' = {}
            /\ Goto(w, IF \E s \in Steps : memo[s] = "failed" THEN "endFailed" ELSE "endCompleted")
            /\ UNCHANGED routed
       ELSE UNCHANGED assigned /\ Routed(w) /\ Return(w)
    /\ UNCHANGED <<catalog, life, memo, ctx, lock, opens, asked>>

EndRun(w) ==
    /\ job[w].at \in {"endFailed", "endCompleted"}
    /\ life' = IF job[w].at = "endFailed" THEN "failed" ELSE "completed"
    /\ Routed(w)
    /\ Return(w)
    /\ UNCHANGED <<catalog, memo, ctx, assigned, lock, opens, asked>>

-----------------------------------------------------------------------------
(* openStepContract *)

OpenGetRun(w) ==
    /\ job[w].at = "openGetRun"
    /\ job' = [job EXCEPT ![w].at = "openPersist", ![w].ctx = ctx]
    /\ UNCHANGED <<catalog, life, memo, ctx, assigned, lock, history>>

\* Mutant: only the first activation is counted.
OpenPersistFirst(w) ==
    /\ job[w].at = "openPersist"
    /\ LET s == job[w].child IN
       persistRunExecContext(IF memo[s] # "pending" THEN job[w].ctx
                             ELSE [job[w].ctx EXCEPT !.iterations[s] = @ + 1])
    /\ Goto(w, "openMemo")
    /\ UNCHANGED <<catalog, life, memo, assigned, lock, history>>

\* A step that is not working yet starts a new iteration.
OpenPersist(w) ==
    /\ job[w].at = "openPersist"
    /\ LET s == job[w].child IN
       persistRunExecContext(IF memo[s] = "working" THEN job[w].ctx
                             ELSE [job[w].ctx EXCEPT !.iterations[s] = @ + 1])
    /\ Goto(w, "openMemo")
    /\ UNCHANGED <<catalog, life, memo, assigned, lock, history>>

OpenMemo(w) ==
    /\ job[w].at = "openMemo"
    /\ upsertRunStepMemo(job[w].child, "working")
    /\ opens' = [opens EXCEPT ![job[w].child] = @ + 1]
    /\ Goto(w, "openLife")
    /\ UNCHANGED <<catalog, life, ctx, assigned, lock, asked, routed>>

\* The lifecycle is written without looking at it.
OpenLife(w) ==
    /\ job[w].at = "openLife"
    /\ life' = "working"
    /\ Goto(w, "dispatch")
    /\ UNCHANGED <<catalog, memo, ctx, assigned, lock, history>>

\* dispatchStepResolverAssignment: a bound handler gets the assignment, an unbound
\* step waits for whoever resolves it. The end of the call frees the parent's lock.
dispatchStepResolverAssignment(w) ==
    /\ job[w].at = "dispatch"
    /\ \/ assigned' = assigned \union {job[w].child}
       \/ UNCHANGED assigned
    /\ lock' = [s \in Steps |-> IF lock[s] = w THEN None ELSE lock[s]]
    /\ Routed(w)
    /\ Return(w)
    /\ UNCHANGED <<catalog, life, memo, ctx, opens, asked>>

-----------------------------------------------------------------------------
(* openChildStep *)

withParentLock(w) ==
    /\ job[w].at = "lock"
    /\ lock[job[w].step] = None
    /\ lock' = [lock EXCEPT ![job[w].step] = w]
    /\ Goto(w, "childGetRun")
    /\ UNCHANGED <<catalog, life, memo, ctx, assigned, history>>

Unlock(w) == lock' = [s \in Steps |-> IF lock[s] = w THEN None ELSE lock[s]]

\* Mutant: the requests already carried out are not looked up.
ChildGetRunForgets(w) ==
    /\ job[w].at = "childGetRun"
    /\ IF life \in Terminal \/ job[w].child \notin Children(job[w].step)
       THEN Return(w) /\ Unlock(w)
       ELSE job' = [job EXCEPT ![w].at = "childMemos", ![w].ctx = ctx] /\ UNCHANGED lock
    /\ UNCHANGED <<catalog, life, memo, ctx, assigned, history>>

\* A known key is answered from the context (deduplicated or a mismatch).
ChildGetRun(w) ==
    /\ job[w].at = "childGetRun"
    /\ IF \/ \E r \in ctx.requests : r.key = job[w].key
          \/ life \in Terminal
          \/ job[w].child \notin Children(job[w].step)
       THEN Return(w) /\ Unlock(w)
       ELSE job' = [job EXCEPT ![w].at = "childMemos", ![w].ctx = ctx] /\ UNCHANGED lock
    /\ UNCHANGED <<catalog, life, memo, ctx, assigned, history>>

NestedChildMayOpen(p) ==
    memo[p] = "working" /\ \A c \in Children(p) : memo[c] # "working"

ChildMemos(w) ==
    /\ job[w].at = "childMemos"
    /\ IF NestedChildMayOpen(job[w].step) THEN Goto(w, "transition") /\ UNCHANGED lock
       ELSE Return(w) /\ Unlock(w)
    /\ UNCHANGED <<catalog, life, memo, ctx, assigned, history>>

\* Mutant: the parent keeps working beside its child.
transitionNestedChildKeepsParent(w) ==
    /\ job[w].at = "transition"
    /\ LET p == job[w].step
           c == job[w].child
       IN IF NestedChildMayOpen(p)
          THEN /\ memo' = [memo EXCEPT ![c] = "working"]
               /\ ctx' = [job[w].ctx EXCEPT !.iterations[c] = @ + 1,
                                            !.requests = @ \union {Ask(job[w].key, p, c)}]
               /\ opens' = [opens EXCEPT ![c] = @ + 1]
               /\ asked' = [asked EXCEPT ![job[w].key] = @ + 1]
               /\ Goto(w, "yieldParent") /\ UNCHANGED lock
          ELSE Return(w) /\ Unlock(w) /\ UNCHANGED <<memo, ctx, opens, asked>>
    /\ UNCHANGED <<catalog, life, assigned, routed>>

\* transitionNestedChild: one transaction checks the memos again and writes the
\* context, the parent and the child; otherwise the activation conflicts.
transitionNestedChild(w) ==
    /\ job[w].at = "transition"
    /\ LET p == job[w].step
           c == job[w].child
       IN IF NestedChildMayOpen(p)
          THEN /\ memo' = [memo EXCEPT ![p] = "yielded", ![c] = "working"]
               /\ ctx' = [job[w].ctx EXCEPT !.iterations[c] = @ + 1,
                                            !.requests = @ \union {Ask(job[w].key, p, c)}]
               /\ opens' = [opens EXCEPT ![c] = @ + 1]
               /\ asked' = [asked EXCEPT ![job[w].key] = @ + 1]
               /\ Goto(w, "yieldParent") /\ UNCHANGED lock
          ELSE Return(w) /\ Unlock(w) /\ UNCHANGED <<memo, ctx, opens, asked>>
    /\ UNCHANGED <<catalog, life, assigned, routed>>

YieldParent(w) ==
    /\ job[w].at = "yieldParent"
    /\ cancelStepExecutor(job[w].step)
    /\ Goto(w, "openLife")
    /\ UNCHANGED <<catalog, life, memo, ctx, lock, history>>

-----------------------------------------------------------------------------
(* appendShellStreamToRun: the run is read, and a chunk later its context is
   written back with the output appended. *)

StreamRead(w) ==
    /\ w \in Streams /\ job[w].at = "idle" /\ assigned # {}
    /\ job' = [job EXCEPT ![w].at = "append", ![w].ctx = ctx]
    /\ UNCHANGED <<catalog, life, memo, ctx, assigned, lock, history>>

\* Bound: each stream appends one chunk.
StreamAppend(w) ==
    /\ job[w].at = "append"
    /\ persistRunExecContext(job[w].ctx)
    /\ job' = [job EXCEPT ![w] = [Idle EXCEPT !.at = "spent"]]
    /\ UNCHANGED <<catalog, life, memo, assigned, lock, history>>

-----------------------------------------------------------------------------
Call(w) == \/ CallResolve(w) \/ CallOpenChild(w) \/ CancelRun(w)
           \/ ReportCompleted(w) \/ ReportFailed(w)

Resolve(w) == \/ ResolveGetRun(w) \/ ResolveCheckMemos(w) \/ ResolveWriteMemo(w)
              \/ ResolvePersist(w) \/ FailParent(w) \/ failRunWithNotification(w)
              \/ maybeAdvanceStepContractFlow(w)

applyResolvedRoutes(w) == \/ ResumeCheck(w) \/ ResumePersist(w) \/ ResumeMemo(w) \/ ResetMemo(w)
                          \/ completeRunIfFinished(w) \/ EndRun(w)

openStepContract(w) == \/ Bootstrap(w) \/ OpenGetRun(w) \/ OpenPersist(w) \/ OpenMemo(w)
                       \/ OpenLife(w) \/ dispatchStepResolverAssignment(w)

openChildStep(w) == \/ withParentLock(w) \/ ChildGetRun(w) \/ ChildMemos(w)
                    \/ transitionNestedChild(w) \/ YieldParent(w)

Next == \E w \in Workers :
    \/ Call(w) \/ Resolve(w) \/ applyResolvedRoutes(w) \/ openStepContract(w)
    \/ openChildStep(w) \/ StreamRead(w) \/ StreamAppend(w)

Spec == Init /\ [][Next]_vars

-----------------------------------------------------------------------------
TypeOK ==
    /\ catalog.top \in Seq(Steps)
    /\ life \in {"working"} \union Terminal
    /\ memo \in [Steps -> Statuses]
    /\ assigned \subseteq Steps
    /\ lock \in [Steps -> Clients \union {None}]
    /\ job \in [Workers -> [at: STRING, kind: STRING, step: Steps \union {None}, branch: STRING,
                            child: Steps \union {None}, key: Keys \union {None},
                            ctx: [iterations: [Steps -> Nat],
                                  requests: SUBSET [key: Keys, parent: Steps, child: Steps],
                                  outputs: SUBSET Steps],
                            todo: Seq(Steps)]]

Quiet == Running = {}
Working == {s \in Steps : memo[s] = "working"}
Streaming == \E w \in Streams : job[w].at # "off"

\* Between calls, a working run of a completable flow has exactly one open step,
\* and every ancestor of that step has yielded: nobody waits for a step that
\* nobody can resolve. Only a failed executor leaves a run without one
\* (applyResolvedRoutes, openChildStep, maybeAdvanceStepContractFlow).
OneOpenStep ==
    Quiet /\ life = "working" /\ Completable(catalog) =>
        \/ \E s \in Steps : /\ Working = {s}
                            /\ \A a \in catalog.ancestors[s] : memo[a] = "yielded"
        \/ Working = {} /\ \E s \in Steps : memo[s] = "failed"

\* Between calls, no executor holds an assignment for a step that is not open, or
\* for a run that has ended (cancelStepExecutor, terminateRunExecutors).
NoStaleAssignment ==
    Quiet => assigned \subseteq (IF life = "working" THEN Working ELSE {})

\* A parent never works beside a working child, and has at most one, whoever asks
\* at the same time (withParentLock, transitionNestedChild).
OneChildPerParent ==
    \A p \in Steps : LET open == Children(p) \intersect Working IN
        /\ Cardinality(open) <= 1
        /\ open # {} => p \notin Working

\* A request to open a child is carried out once, however often and however
\* concurrently it is repeated, as long as no output stream overwrites the context
\* that remembers it (openChildStep, _nested_open_requests).
KeyOpensOnce == ~Streaming => \A k \in Keys : asked[k] <= 1

\* The iteration the context numbers an activation with is the number of times the
\* step was opened (openStepContract, _step_iterations).
IterationsCounted ==
    ~Streaming /\ Quiet => ctx.iterations = opens

\* A completed run has every top-level step completed in its last pass and its
\* output in the context that later steps read (completeRunIfFinished).
CompletedInFull ==
    life = "completed" /\ ~Streaming =>
        \A s \in Top : memo[s] = "completed" /\ s \in ctx.outputs

\* A step that apply reported as dead is never opened, whatever branches are taken,
\* looped back to or resumed (lintDeadSteps against applyResolvedRoutes).
DeadStepsStayClosed == \A s \in lintDeadSteps(catalog) : opens[s] = 0

\* Between calls exactly the right steps are open: one that can be resolved, no
\* executor at work on another, and never one that was reported dead, whatever
\* was resolved, looped back to, yielded and resumed before.
AtRest == OneOpenStep /\ NoStaleAssignment /\ DeadStepsStayClosed

\* Requests to open a child that overlap or are repeated have the effect of one:
\* one open child, one activation for each key, and a context that counts them
\* (openChildStep).
ChildrenOpenOnce == OneChildPerParent /\ KeyOpensOnce /\ IterationsCounted

\* A resolve on a branch with `route: { run: completed }' ends the run.
CompletedRouteEndsRun == "advance" \in routed => life \in Terminal
=============================================================================
