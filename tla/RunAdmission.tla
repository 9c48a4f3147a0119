---------------------------- MODULE RunAdmission ----------------------------
(***************************************************************************)
(* Run admission and apply quiescence of the hub.                          *)
(*                                                                         *)
(* Every call that starts a run, and every apply that replaces a space's   *)
(* index, queues on a promise chain of its space (SpaceConcurrencyGuard):  *)
(* a call's section runs when the sections queued before it have settled.  *)
(* The awaits inside a section are separate steps here, so that what is    *)
(* outside the guard (a run ending, a matrix lane, an orchestration bind,  *)
(* an invoke that uses the other guard object) can happen between them.    *)
(*                                                                         *)
(* A call creates at most one run, so the run a call creates is named      *)
(* after the call.                                                         *)
(***************************************************************************)
EXTENDS Naturals, FiniteSets, Sequences

CONSTANTS
    Calls,      \* the calls clients and timers make
    Spaces,
    Flows,      \* flow ids; a bound flow keeps its id in every space
    Digests,    \* digests a flow entry may have
    Keys,       \* idempotency keys and run keys
    RunKeyed,   \* the flows whose manifest says triggers.idempotency: run_key
    Configs,    \* the indexes an apply may commit
    Request,    \* what each call asks for
    None

Kinds == {"start", "create", "retry", "attach", "apply", "invoke", "lane", "bind"}

RequestType ==
    [kind: Kinds, space: Spaces, flow: Flows \union {None}, digest: Digests,
     key: Keys \union {None}, input: Keys \union {None}, of: Calls]

\* A flow index entry is its digest; limit 0 is a flow without a run policy
\* (max_concurrent_runs is an integer >= 1).
Index == [entry: [Flows -> Digests \union {None}], limit: [Flows -> Nat]]

Lifecycles == {"working", "input-required", "completed", "failed", "cancelled"}

\* Mutant: a run that waits for a person no longer counts.
NonTerminalWorking == {"working"}

NonTerminal == {"working", "input-required"}

RunRow == [space: Spaces, flow: Flows \union {None}, digest: Digests \union {None},
           life: Lifecycles, key: Keys \union {None}, runKey: Keys \union {None}]

ASSUME AdmissionAssumption ==
    /\ IsFiniteSet(Calls)
    /\ RunKeyed \subseteq Flows
    /\ Configs \subseteq Index
    /\ Request \in [Calls -> RequestType]
    /\ None \notin Flows \union Digests \union Keys \union Calls
    /\ None \notin RunRow /\ None \notin Index

VARIABLES
    index,      \* the applied index of each space
    run,        \* run rows, by the call that inserted them
    guard,      \* the promise chains: the calls whose section has not settled
    pc,         \* where each call is
    digest,     \* the entry digest a call read
    limit,      \* the run policy a call read
    snapshot,   \* the index a bind or an apply read
    got         \* the run a call was answered with

vars == <<index, run, guard, pc, digest, limit, snapshot, got>>

Runs == {r \in Calls : run[r] # None}

\* updateRunLifecycle and updateRunFlowBinding of a run row.
WithLife(row, life) ==
    [space |-> row.space, flow |-> row.flow, digest |-> row.digest, life |-> life,
     key |-> row.key, runKey |-> row.runKey]

WithFlow(row, f, d) ==
    [space |-> row.space, flow |-> f, digest |-> d, life |-> row.life,
     key |-> row.key, runKey |-> row.runKey]

-----------------------------------------------------------------------------
\* The daemon injects one guard (main.ts) into its routes, triggers and the
\* apply route; the invoke service injects none and gets the module's default.
Chains == Spaces \X {"daemon", "module"}

\* Mutant: the apply route is wired to another guard than the starts.
ChainOfOwn(c) ==
    <<Request[c].space, IF Request[c].kind = "apply" THEN "module" ELSE "daemon">>

ChainOf(c) ==
    <<Request[c].space, IF Request[c].kind = "invoke" THEN "module" ELSE "daemon">>

Guarded == {"start", "create", "retry", "attach", "apply", "invoke"}

Holds(c) == guard[ChainOf(c)] # <<>> /\ Head(guard[ChainOf(c)]) = c

\* Mutant: a section that returns an error leaves the chain blocked.
SettleOnRun(c) ==
    guard' = IF got'[c] # None THEN [guard EXCEPT ![ChainOf(c)] = Tail(@)] ELSE guard

\* run.then(noop, noop): the chain moves on whether the section succeeded or not.
Settle(c) == guard' = [guard EXCEPT ![ChainOf(c)] = Tail(@)]

Goto(c, label) == pc' = [pc EXCEPT ![c] = label]

At(c, label) == pc[c] = label /\ Holds(c)

\* A section's early return: the call is answered with run r, or refused.
Answer(c, r) ==
    /\ Goto(c, "done")
    /\ got' = [got EXCEPT ![c] = r]
    /\ Settle(c)

Init ==
    /\ index \in [Spaces -> Configs]
    /\ run = [c \in Calls |-> None]
    /\ guard = [g \in Chains |-> <<>>]
    /\ pc = [c \in Calls |-> "idle"]
    /\ digest = [c \in Calls |-> None]
    /\ limit = [c \in Calls |-> 0]
    /\ snapshot = [c \in Calls |-> None]
    /\ got = [c \in Calls |-> None]

\* What the section of startFlowRun, of the apply route and of
\* admitAndCreateRun awaits first.
FirstAwait(kind) ==
    IF kind = "start" THEN "idempotency" ELSE IF kind = "apply" THEN "quiescence" ELSE "entry"

\* guard.with(space, fn). A retry first reads the run it retries.
With(c) ==
    /\ pc[c] = "idle"
    /\ Request[c].kind \in Guarded
    /\ Request[c].kind = "retry" =>
          /\ Request[c].of \in Runs
          /\ run[Request[c].of].life \in {"failed", "cancelled"}
    /\ guard' = [guard EXCEPT ![ChainOf(c)] = Append(@, c)]
    /\ Goto(c, FirstAwait(Request[c].kind))
    /\ UNCHANGED <<index, run, digest, limit, snapshot, got>>

-----------------------------------------------------------------------------
\* Mutant: the look-up ignores runs that have ended.
SameKeyActive(c) == {r \in Runs : run[r].key = Request[c].key /\ run[r].life \in NonTerminal}

\* startFlowRun: a run with the same idempotency key answers the call. The
\* look-up is by key alone and ignores the run's lifecycle, flow and space.
SameKey(c) == {r \in Runs : run[r].key = Request[c].key}

FindRunByIdempotencyKey(c) ==
    /\ At(c, "idempotency")
    /\ IF Request[c].key # None /\ SameKey(c) # {}
       THEN \E r \in SameKey(c) : Answer(c, r)
       ELSE Goto(c, "entry") /\ UNCHANGED <<guard, got>>
    /\ UNCHANGED <<index, run, digest, limit, snapshot>>

\* getFlowIndexEntry, under the guard. A start may also be refused by
\* prepareFlowStart (trigger, capability or flow ACL). A run without a flow
\* (an invoke, an attach) skips the entry and the capacity check.
GetFlowIndexEntry(c) ==
    /\ At(c, "entry")
    /\ \/ /\ Request[c].flow = None \/ Request[c].kind \in {"attach", "invoke"}
          /\ Goto(c, "insert")
          /\ UNCHANGED <<guard, digest, got>>
       \/ /\ Request[c].flow # None /\ Request[c].kind \notin {"attach", "invoke"}
          /\ index[Request[c].space].entry[Request[c].flow] # None
          /\ digest' = [digest EXCEPT ![c] = index[Request[c].space].entry[Request[c].flow]]
          /\ Goto(c, IF Request[c].kind = "start" THEN "runKey" ELSE "policy")
          /\ UNCHANGED <<guard, got>>
       \/ /\ Request[c].flow # None /\ Request[c].kind \notin {"attach", "invoke"}
          /\ \/ index[Request[c].space].entry[Request[c].flow] = None
             \/ Request[c].kind = "start"
          /\ Answer(c, None)
          /\ UNCHANGED digest
    /\ UNCHANGED <<index, run, limit, snapshot>>

\* buildRunKey: only run_key flows have one; the header wins over the input.
RunKey(c) ==
    IF Request[c].kind # "start" \/ Request[c].flow \notin RunKeyed THEN None
    ELSE IF Request[c].key # None THEN Request[c].key ELSE Request[c].input

SameRunKey(c) ==
    {r \in Runs : /\ run[r].flow = Request[c].flow
                  /\ run[r].runKey = RunKey(c)
                  /\ run[r].life # "cancelled"}

FindRunByFlowKey(c) ==
    /\ At(c, "runKey")
    /\ IF RunKey(c) # None /\ SameRunKey(c) # {}
       THEN \E r \in SameRunKey(c) : Answer(c, r)
       ELSE Goto(c, "policy") /\ UNCHANGED <<guard, got>>
    /\ UNCHANGED <<index, run, digest, limit, snapshot>>

-----------------------------------------------------------------------------
\* admitFlowRun: the policy, then the flow's non-terminal runs in the space.
ListIndexedRunPolicies(c) ==
    /\ At(c, "policy")
    /\ limit' = [limit EXCEPT ![c] = index[Request[c].space].limit[Request[c].flow]]
    /\ Goto(c, IF index[Request[c].space].limit[Request[c].flow] = 0 THEN "insert" ELSE "count")
    /\ UNCHANGED <<index, run, guard, digest, snapshot, got>>

Active(s, f) ==
    {r \in Runs : run[r].space = s /\ run[r].flow = f /\ run[r].life \in NonTerminal}

AdmitFlowRun(c) ==
    /\ At(c, "count")
    /\ IF Cardinality(Active(Request[c].space, Request[c].flow)) >= limit[c]
       THEN Answer(c, None)
       ELSE Goto(c, "insert") /\ UNCHANGED <<guard, got>>
    /\ UNCHANGED <<index, run, digest, limit, snapshot>>

\* The row createRun inserts; only a start stores the keys it was deduplicated by
\* (a matrix lane's key, made of its run, step and index, is its own).
NewRun(c, f, d) ==
    [space |-> Request[c].space, flow |-> f, digest |-> d, life |-> "working",
     key |-> IF Request[c].kind = "start" THEN Request[c].key ELSE None,
     runKey |-> RunKey(c)]

\* createRun; the session may be unknown or the kernel may deny instance.create.
CreateRun(c) ==
    /\ At(c, "insert")
    /\ \/ /\ run' = [run EXCEPT ![c] = NewRun(c, IF Request[c].kind \in {"attach", "invoke"}
                                                 THEN None ELSE Request[c].flow, digest[c])]
          /\ Goto(c, "inserted")
          /\ UNCHANGED <<guard, got>>
       \/ Answer(c, None) /\ UNCHANGED run
    /\ UNCHANGED <<index, digest, limit, snapshot>>

\* The rest of createRun (spaces touched, journal) runs before the section settles.
RunCreated(c) ==
    /\ At(c, "inserted")
    /\ Goto(c, IF Request[c].kind = "attach" THEN "park" ELSE "done")
    /\ got' = [got EXCEPT ![c] = c]
    /\ Settle(c)
    /\ UNCHANGED <<index, run, digest, limit, snapshot>>

\* attachOrchestration parks its run after the section, whatever became of it.
ParkRun(c) ==
    /\ pc[c] = "park"
    /\ run' = [run EXCEPT ![c] = WithLife(run[c], "input-required")]
    /\ Goto(c, "done")
    /\ UNCHANGED <<index, guard, digest, limit, snapshot, got>>

-----------------------------------------------------------------------------
\* Mutant: only working runs block an apply.
ActiveInWorking(s) == {r \in Runs : run[r].space = s /\ run[r].life = "working"}

\* The apply route, in the same guard: quiescence, candidate, commit.
ActiveIn(s) == {r \in Runs : run[r].space = s /\ run[r].life \in NonTerminal}

AssertSpaceQuiescent(c) ==
    /\ At(c, "quiescence")
    /\ IF ActiveIn(Request[c].space) = {}
       THEN Goto(c, "candidate") /\ UNCHANGED <<guard, got>>
       ELSE Answer(c, None)
    /\ UNCHANGED <<index, run, digest, limit, snapshot>>

\* applyIndexDiff keeps what the bundle leaves out: without handlers the prior
\* run policies, without flows the prior flows.
Merged(old, bundle, flows, handlers) ==
    [entry |-> IF flows THEN bundle.entry ELSE old.entry,
     limit |-> IF handlers THEN bundle.limit ELSE old.limit]

\* A bundle that fails validation leaves the prior index active.
Candidate(c) ==
    /\ At(c, "candidate")
    /\ \/ \E b \in Configs, flows, handlers \in BOOLEAN :
             /\ snapshot' = [snapshot EXCEPT ![c] = Merged(index[Request[c].space], b, flows, handlers)]
             /\ Goto(c, "commit")
             /\ UNCHANGED <<guard, got>>
       \/ Answer(c, None) /\ UNCHANGED snapshot
    /\ UNCHANGED <<index, run, digest, limit>>

ReplaceSpaceIndex(c) ==
    /\ At(c, "commit")
    /\ index' = [index EXCEPT ![Request[c].space] = snapshot[c]]
    /\ Answer(c, None)
    /\ UNCHANGED <<run, digest, limit, snapshot>>

-----------------------------------------------------------------------------
\* Outside the guard: advanceFlowRun creates a matrix lane of a working run with
\* createRun itself, pinned to the digest its parent has.
LaneRead(c) ==
    /\ pc[c] = "idle" /\ Request[c].kind = "lane"
    /\ Request[c].of \in Runs
    /\ run[Request[c].of].life = "working" /\ run[Request[c].of].flow = Request[c].flow
    /\ Request[c].flow # None
    /\ digest' = [digest EXCEPT ![c] = run[Request[c].of].digest]
    /\ Goto(c, "lane")
    /\ UNCHANGED <<index, run, guard, limit, snapshot, got>>

LaneCreate(c) ==
    /\ pc[c] = "lane"
    /\ run' = [run EXCEPT ![c] = NewRun(c, Request[c].flow, digest[c])]
    /\ got' = [got EXCEPT ![c] = c]
    /\ Goto(c, "done")
    /\ UNCHANGED <<index, guard, digest, limit, snapshot>>

\* Outside the guard: approving the gate of an attached run. The gate is pending
\* once; the run's lifecycle is not looked at. upsertEphemeralFlowEntry reads the
\* whole index, then replaces it with one entry added.
BindRead(c) ==
    /\ pc[c] = "idle" /\ Request[c].kind = "bind"
    /\ pc[Request[c].of] = "done" /\ Request[c].of \in Runs
    /\ snapshot' = [snapshot EXCEPT ![c] = index[Request[c].space]]
    /\ Goto(c, "bind")
    /\ UNCHANGED <<index, run, guard, digest, limit, got>>

UpsertEphemeralFlowEntry(c) ==
    /\ pc[c] = "bind"
    /\ index' = [index EXCEPT ![Request[c].space] =
                    [entry |-> [snapshot[c].entry EXCEPT ![Request[c].flow] = Request[c].digest],
                     limit |-> snapshot[c].limit]]
    /\ Goto(c, "bound")
    /\ UNCHANGED <<run, guard, digest, limit, snapshot, got>>

\* updateRunFlowBinding, then updateRunLifecycle("working") unless
\* prepareFlowStart refuses; both write whatever the run's lifecycle is.
UpdateRunFlowBinding(c) ==
    /\ pc[c] = "bound"
    /\ run' = [run EXCEPT ![Request[c].of] =
                  WithFlow(run[Request[c].of], Request[c].flow, Request[c].digest)]
    /\ Goto(c, "starting")
    /\ UNCHANGED <<index, guard, digest, limit, snapshot, got>>

StartBoundRun(c) ==
    /\ pc[c] = "starting"
    /\ \/ run' = [run EXCEPT ![Request[c].of] = WithLife(run[Request[c].of], "working")]
       \/ UNCHANGED run
    /\ Goto(c, "done")
    /\ UNCHANGED <<index, guard, digest, limit, snapshot, got>>

-----------------------------------------------------------------------------
\* A run that has not ended waits for a person, resumes and ends at any time,
\* without the guard. (The writes that reach a run that has ended are in
\* RunLifecycle.)
MoveRun(r, from, to) ==
    /\ r \in Runs /\ run[r].life \in from
    /\ run' = [run EXCEPT ![r] = WithLife(run[r], to)]
    /\ UNCHANGED <<index, guard, pc, digest, limit, snapshot, got>>

RequireInput(r) == MoveRun(r, {"working"}, "input-required")
Resume(r) == MoveRun(r, {"input-required"}, "working")
EndRun(r, life) == MoveRun(r, NonTerminal, life)

\* The daemon dies with its chains; at boot failOrphanedWorkingRuns fails the
\* working runs and leaves the ones that wait for a person.
Restart ==
    /\ \E c \in Calls : pc[c] \notin {"idle", "done", "dead"}
    /\ pc' = [c \in Calls |-> IF pc[c] \in {"idle", "done"} THEN pc[c] ELSE "dead"]
    /\ guard' = [g \in Chains |-> <<>>]
    /\ run' = [r \in Calls |-> IF run[r] # None /\ run[r].life = "working"
                               THEN WithLife(run[r], "failed") ELSE run[r]]
    /\ UNCHANGED <<index, digest, limit, snapshot, got>>

Step(c) ==
    \/ FindRunByIdempotencyKey(c) \/ GetFlowIndexEntry(c) \/ FindRunByFlowKey(c)
    \/ ListIndexedRunPolicies(c) \/ AdmitFlowRun(c) \/ CreateRun(c) \/ RunCreated(c) \/ ParkRun(c)
    \/ AssertSpaceQuiescent(c) \/ Candidate(c) \/ ReplaceSpaceIndex(c)
    \/ LaneCreate(c) \/ UpsertEphemeralFlowEntry(c) \/ UpdateRunFlowBinding(c) \/ StartBoundRun(c)

Next ==
    \/ \E c \in Calls : With(c) \/ LaneRead(c) \/ BindRead(c) \/ Step(c)
    \/ \E r \in Calls : RequireInput(r) \/ Resume(r)
    \/ \E r \in Calls, life \in {"completed", "failed", "cancelled"} : EndRun(r, life)
    \/ Restart

Spec == Init /\ [][Next]_vars

\* A pending continuation is eventually run by the event loop.
Fairness == \A c \in Calls : WF_vars(Step(c))

FairSpec == Spec /\ Fairness

-----------------------------------------------------------------------------
Inner == {"runKey", "policy", "count", "insert", "inserted", "candidate", "commit"}

Labels == Inner \union
    {"idle", "idempotency", "entry", "quiescence", "park", "lane", "bind", "bound", "starting",
     "done", "dead"}

(* The rows, chains and locals of the hub's start and apply sections are well
   formed; in particular a run row always has a lifecycle of the contract. *)
TypeOK ==
    /\ index \in [Spaces -> Index]
    /\ run \in [Calls -> RunRow \union {None}]
    /\ guard \in [Chains -> Seq(Calls)]
    /\ pc \in [Calls -> Labels]
    /\ digest \in [Calls -> Digests \union {None}]
    /\ limit \in [Calls -> Nat]
    /\ snapshot \in [Calls -> Index \union {None}]
    /\ got \in [Calls -> Calls \union {None}]

(* A run policy caps the non-terminal runs of its flow in the space at every
   moment: concurrent starts, retries and creates that all passed admitFlowRun
   never add up to more, and no apply lowers the limit below what is running. *)
CapacityRespected ==
    \A s \in Spaces, f \in Flows :
        index[s].limit[f] > 0 => Cardinality(Active(s, f)) <= index[s].limit[f]

(* A run that has not ended is pinned to the digest the space's index has for
   its flow now: no apply replaced the entry between the moment a start read it
   and the end of the run. *)
PinnedToApplied ==
    \A r \in Runs :
        run[r].life \in NonTerminal /\ run[r].flow # None =>
            run[r].digest = index[run[r].space].entry[run[r].flow]

(* Retried or concurrent starts of a flow under one idempotency key create one
   run; the later ones are answered with it, even after it has ended. *)
OneRunPerKey ==
    \A r1, r2 \in Runs :
        /\ run[r1].key # None
        /\ run[r1].key = run[r2].key
        /\ run[r1].flow = run[r2].flow
        => r1 = r2

(* The index of a space is replaced only while none of its runs is working or
   waiting for input: nothing slips in between assertSpaceQuiescent and
   replaceSpaceIndex. *)
ApplyIsQuiescent ==
    [][\A s \in Spaces : index'[s] # index[s] => ActiveIn(s) = {}]_vars

(* A start deduplicated by its idempotency key is answered with a run of the
   flow it asked for. *)
AnswerIsOwnFlow ==
    \A c \in Calls :
        Request[c].kind = "start" /\ got[c] # None => run[got[c]].flow = Request[c].flow

(* Every call queued on a space's chain is answered (or dies with the daemon),
   whatever the sections before it returned. *)
QueuedCallReturns ==
    \A c \in Calls : pc[c] = "idempotency" \/ pc[c] = "quiescence" \/ pc[c] = "entry"
                        ~> pc[c] \in {"done", "dead"}
=============================================================================
