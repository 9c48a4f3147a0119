------------------------------ MODULE Meetings ------------------------------
(***************************************************************************)
(* One meeting room: its snapshot and journal, the live seats of its         *)
(* participants, and the terminal process each seat is given.                *)
(*                                                                           *)
(* A seat has a persistent shell handler: the first message (or the convene) *)
(* starts a process, later messages are typed into it.  Nothing serialises    *)
(* the calls on a room: a call reads the snapshot or the seat map, awaits,    *)
(* and acts on what it read.  A step is what runs between two awaits that      *)
(* matter here; an entry other than a message is journaled in one step.        *)
(***************************************************************************)
EXTENDS Integers, Sequences, FiniteSets, FiniteSetsExt

CONSTANTS
    Roster,      \* the seats (ptc_ ids), in roster order
    Unhandled,   \* seats whose space has no handler for the event
    Chair,       \* a seat, or "human"
    Calls,       \* API calls, each made once
    Request,     \* what each call asks for
    Slots,       \* bound: calls that run at the same time
    Plans,       \* which calls are made, and bounds on the crashes of the hub and
                 \* on the processes that end by themselves
    Boots        \* the boot pass after each crash (failOrphanedWorkingRuns,
                 \* rehydrateOpenMeetings); bound: one for each crash of a plan

ToSet(s) == {s[i] : i \in DOMAIN s}
Seats == ToSet(Roster)
Passes == ToSet(Boots)
Workers == Calls \union Passes
Procs == Workers \X Seats
None == "none"
NoCtl == <<None, None>>
Wake == "wake"

\* `by' is the authority of the caller, `to' the targets of a message without
\* its speaker (resolveTargets), `order' the order in which it lists them.
Orders == {s \in [DOMAIN Roster -> Seats] : ToSet(s) = Seats}
RequestType == [kind : {"convene", "say", "close", "resume"},
                by : {"operator", "owner", "agent"} \union Seats, to : SUBSET Seats, order : Orders]

ASSUME MeetingAssumption ==
    /\ Roster \in Seq(Seats) /\ Roster # <<>>
    /\ \A i, j \in DOMAIN Roster : Roster[i] = Roster[j] => i = j
    /\ Boots \in Seq(Passes) /\ \A i, j \in DOMAIN Boots : Boots[i] = Boots[j] => i = j
    /\ Unhandled \subseteq Seats /\ Chair \in Seats \union {"human"}
    /\ Request \in [Calls -> RequestType] /\ Wake \notin Calls
    /\ Slots \in Nat /\ Calls \intersect Passes = {}
    /\ None \notin Workers
    /\ \A q \in Plans : q \in [calls : SUBSET Calls, crashes : 0..Len(Boots), exits : Nat]

\* s is t with some of its elements left out.
IsSubSeq(s, t) ==
    \E f \in [DOMAIN s -> DOMAIN t] :
        /\ \A i \in DOMAIN s : s[i] = t[f[i]]
        /\ \A i, j \in DOMAIN s : i < j => f[i] < f[j]

VARIABLES
    plan,      \* the plan of this behaviour
    status,    \* meeting_sessions.status
    bound,     \* the flow step that convened the room
    row,       \* journal row of a message: none, "appended", "numbered"
    passed,    \* messages with a number that a numbered row has overtaken
    receipts,  \* delivered and delivery_failed rows
    seat,      \* InMemoryLiveAssignments.seats
    pending,   \* InMemoryLiveAssignments.pending
    proc,      \* terminal processes, by the dispatch that started them
    job,       \* where each call is
    crashes, exits,
    history    \* observations: see Init

vars == <<plan, status, bound, row, passed, receipts, seat, pending, proc, job,
          crashes, exits, history>>
room == <<status, bound>>
journal == <<row, passed, receipts>>
live == <<seat, pending, proc>>
bounds == <<plan, crashes, exits>>

NoSeat == [run |-> None, ctl |-> NoCtl, notified |-> {}]
NoProc == [at |-> None, stop |-> FALSE, busy |-> TRUE, queue |-> <<>>, got |-> <<>>]
Idle == [at |-> "idle", todo |-> {}]

\* history.dropped: messages a seat lost when it was revoked or its process ended;
\* told: messages in the order notify was called; doubled: two dispatches to one
\* seat overlapped.
Init ==
    /\ plan \in Plans
    /\ status = None /\ bound = "working"
    /\ row = [c \in Calls |-> None] /\ passed = {} /\ receipts = {}
    /\ seat = [p \in Seats |-> NoSeat] /\ pending = [p \in Seats |-> <<>>]
    /\ proc = [k \in Procs |-> NoProc]
    /\ job = [w \in Workers |-> IF w \in plan.calls THEN Idle ELSE [Idle EXCEPT !.at = "done"]]
    /\ crashes = 0 /\ exits = 0
    /\ history = [dropped |-> {}, told |-> [p \in Seats |-> <<>>], doubled |-> FALSE]

-----------------------------------------------------------------------------
(* Jobs *)

Running == {w \in Workers : job[w].at \notin {"idle", "done"}}
Goto(w, at) == job' = [job EXCEPT ![w].at = at]
Done(w) == job' = [job EXCEPT ![w] = [Idle EXCEPT !.at = "done"]]
Dispatch(w, targets) ==
    job' = [job EXCEPT ![w] = [at |-> "dispatch", todo |-> targets]]
\* The loop is at the first of its targets, in the order of the message, or of
\* the roster for a wake.
IsSay(w) == w \in Calls /\ Request[w].kind = "say"
Order(w) == IF IsSay(w) THEN Request[w].order ELSE Roster
First(order, todo) == order[Min({i \in DOMAIN order : order[i] \in todo})]
Target(w) == First(Order(w), job[w].todo)
\* The loop over the targets goes on, or the call returns.
NextTarget(w) ==
    LET todo == job[w].todo \ {Target(w)} IN
    IF todo = {} THEN Done(w) ELSE Dispatch(w, todo)

Begins(c, kind) ==
    job[c].at = "idle" /\ Request[c].kind = kind /\ Cardinality(Running \ Passes) < Slots

\* assertChairMayClose, for close and for resume.
assertChairMayClose(by) ==
    by = "operator" \/ (Chair = "human" /\ by = "owner") \/ by = Chair

\* Messages that have taken a meeting_seq their row does not carry yet.
Unnumbered == {c \in Calls : job[c].at \in {"append", "index"}}

\* appendMeetingEvent of an entry that is not a message: its number is higher.
appendMeetingEvent == passed' = passed \union Unnumbered /\ UNCHANGED <<row, receipts>>

-----------------------------------------------------------------------------
(* Convene, resume, close *)

\* A convene of a closed room is a resume.
ConveneCheck(c) ==
    /\ Begins(c, "convene")
    /\ IF status = "open" THEN Done(c)
       ELSE Goto(c, IF status = None THEN "convened"
                    ELSE IF assertChairMayClose(Request[c].by) THEN "resumed" ELSE "done")
    /\ UNCHANGED <<room, journal, live, bounds, history>>

ConveneJournal(c) ==
    /\ job[c].at = "convened"
    /\ appendMeetingEvent /\ Goto(c, "snapshot")
    /\ UNCHANGED <<room, live, bounds, history>>

\* upsertMeetingSnapshot refuses a second open room.
ConveneWrite(c) ==
    /\ job[c].at = "snapshot"
    /\ IF status = "open" THEN Done(c) /\ UNCHANGED status
       ELSE status' = "open" /\ Dispatch(c, Seats)
    /\ UNCHANGED <<bound, journal, live, bounds, history>>

ResumeCheck(c) ==
    /\ Begins(c, "resume")
    /\ IF status = "closed" /\ assertChairMayClose(Request[c].by) THEN Goto(c, "resumed") ELSE Done(c)
    /\ UNCHANGED <<room, journal, live, bounds, history>>

ResumeJournal(c) ==
    /\ job[c].at = "resumed"
    /\ appendMeetingEvent /\ Goto(c, "reopen")
    /\ UNCHANGED <<room, live, bounds, history>>

ResumeWrite(c) ==
    /\ job[c].at = "reopen"
    /\ status' = "open" /\ Dispatch(c, Seats)
    /\ UNCHANGED <<bound, journal, live, bounds, history>>

CloseCheck(c) ==
    /\ Begins(c, "close")
    /\ IF status = "open" /\ assertChairMayClose(Request[c].by) THEN Goto(c, "closed") ELSE Done(c)
    /\ UNCHANGED <<room, journal, live, bounds, history>>

CloseJournal(c) ==
    /\ job[c].at = "closed"
    /\ appendMeetingEvent /\ Goto(c, "close")
    /\ UNCHANGED <<room, live, bounds, history>>

persistClosedSnapshot(c) ==
    /\ job[c].at = "close"
    /\ status' = "closed" /\ Goto(c, "revoke")
    /\ UNCHANGED <<bound, journal, live, bounds, history>>

Lost(ps) == UNION {ToSet(pending[p]) \X {p} : p \in ps}
Controllers(ps) == {seat[p].ctl : p \in ps} \ {NoCtl}

\* revoke: the records and the queued notifies go, the processes are told to stop.
revoke(ps) ==
    /\ seat' = [p \in Seats |-> IF p \in ps THEN NoSeat ELSE seat[p]]
    /\ pending' = [p \in Seats |-> IF p \in ps THEN <<>> ELSE pending[p]]
    /\ proc' = [k \in Procs |-> IF k \in Controllers(ps) THEN [proc[k] EXCEPT !.stop = TRUE] ELSE proc[k]]
    /\ history' = [history EXCEPT !.dropped = @ \union Lost(ps)]

Registered == {p \in Seats : seat[p].run # None}

RevokeAll(c) ==
    /\ job[c].at = "revoke"
    /\ revoke(Registered)
    /\ job' = [job EXCEPT ![c] = [at |-> "exits", todo |-> Controllers(Registered)]]
    /\ UNCHANGED <<room, journal, bounds>>

\* close waits for the processes it stopped, then resolves the bound step.
maybeResolveBoundMeetingStep(c) ==
    /\ job[c].at = "exits"
    /\ \A k \in job[c].todo : proc[k].at # "up"
    /\ bound' = IF bound = "working" THEN "resolved" ELSE bound
    /\ Done(c)
    /\ UNCHANGED <<status, journal, live, bounds, history>>

-----------------------------------------------------------------------------
(* A message *)

SayCheck(c) ==
    /\ Begins(c, "say")
    /\ IF status = "open" THEN Goto(c, "number") ELSE Done(c)
    /\ UNCHANGED <<room, journal, live, bounds, history>>

\* appendMeetingEvent takes the number, appends the row, then numbers the row.
allocateMeetingSeq(c) ==
    /\ job[c].at = "number"
    /\ job' = [job EXCEPT ![c] = [at |-> "append", todo |-> Unnumbered]]
    /\ UNCHANGED <<room, journal, live, bounds, history>>

appendSpaceJournal(c) ==
    /\ job[c].at = "append"
    /\ row' = [row EXCEPT ![c] = "appended"]
    /\ Goto(c, "index")
    /\ UNCHANGED <<room, passed, receipts, live, bounds, history>>

setJournalIndexMeetingSeq(c) ==
    /\ job[c].at = "index"
    /\ row' = [row EXCEPT ![c] = "numbered"]
    /\ passed' = (passed \union (job[c].todo \intersect Unnumbered)) \ {c}
    /\ IF Request[c].to = {} THEN Done(c) ELSE Dispatch(c, Request[c].to)
    /\ UNCHANGED <<room, receipts, live, bounds, history>>

-----------------------------------------------------------------------------
(* Delivery to one seat: dispatchMeetingSaidTargets, dispatchMeetingConveneTargets *)

Message(w) == IF IsSay(w) THEN w ELSE Wake

\* The receipt of a target of a message; a wake has none.
Receipt(w, p, how) ==
    IF IsSay(w)
    THEN receipts' = receipts \union {[msg |-> w, seat |-> p, how |-> how]}
         /\ passed' = passed \union Unnumbered /\ UNCHANGED row
    ELSE UNCHANGED journal

\* Mutant: a target without a handler is passed over in silence.
FindLiveSilent(w) ==
    LET p == Target(w) IN
    /\ job[w].at = "dispatch"
    /\ IF p \in Unhandled THEN NextTarget(w)
       ELSE Goto(w, IF seat[p].run # None THEN "notify" ELSE "admit")
    /\ UNCHANGED <<room, journal, live, bounds, history>>

\* resolveEventDeliveryTarget: a live seat is notified, another one started.
FindLive(w) ==
    LET p == Target(w) IN
    /\ job[w].at = "dispatch"
    /\ IF p \in Unhandled
       THEN Receipt(w, p, "failed") /\ NextTarget(w)
       ELSE UNCHANGED journal /\ Goto(w, IF seat[p].run # None THEN "notify" ELSE "admit")
    /\ UNCHANGED <<room, live, bounds, history>>

\* Mutant: a turn is put before those that wait.
WriteFirst(q, ms) ==
    IF q.at # "up" \/ q.stop \/ ms = <<>> THEN q
    ELSE IF q.busy THEN [q EXCEPT !.queue = ms \o @]
    ELSE [q EXCEPT !.busy = TRUE, !.got = Append(@, Head(ms)), !.queue = Tail(ms) \o @]

\* controller.write: queued while the process is busy, ignored by one that stops.
Write(q, ms) ==
    IF q.at # "up" \/ q.stop \/ ms = <<>> THEN q
    ELSE IF q.busy THEN [q EXCEPT !.queue = @ \o ms]
    ELSE [q EXCEPT !.busy = TRUE, !.got = Append(@, Head(ms)), !.queue = @ \o Tail(ms)]

\* notify: typed into the process, or queued until there is one.
notify(w) ==
    LET p == Target(w)
        m == Message(w)
        k == seat[p].ctl
        known == m \in seat[p].notified \/ (k = NoCtl /\ m \in ToSet(pending[p]))
    IN
    /\ job[w].at = "notify"
    /\ IF known THEN UNCHANGED <<seat, pending, proc, history>>
       ELSE /\ history' = [history EXCEPT !.told[p] = Append(@, m),
                  !.dropped = IF k # NoCtl /\ (proc[k].at # "up" \/ proc[k].stop)
                              THEN @ \union {<<m, p>>} ELSE @]
            /\ IF k = NoCtl
               THEN pending' = [pending EXCEPT ![p] = Append(@, m)] /\ UNCHANGED <<seat, proc>>
               ELSE /\ proc' = [proc EXCEPT ![k] = Write(@, <<m>>)]
                    /\ seat' = [seat EXCEPT ![p].notified = @ \union {m}]
                    /\ UNCHANGED pending
    /\ Receipt(w, p, "delivered") /\ NextTarget(w)
    /\ UNCHANGED <<room, bounds>>

\* admitAndCreateRun may be refused.
Admit(w) ==
    LET p == Target(w) IN
    /\ job[w].at = "admit"
    /\ \/ Goto(w, "start") /\ UNCHANGED journal
       \/ Receipt(w, p, "failed") /\ NextTarget(w)
    /\ history' = [history EXCEPT !.doubled = @ \/ \E v \in Workers \ {w} :
                      job[v].at \in {"admit", "start", "invoke"} /\ Target(v) = p]
    /\ UNCHANGED <<room, live, bounds>>

\* The seat is registered before its process is launched.
StartSeat(w) ==
    LET p == Target(w) IN
    /\ job[w].at = "start"
    /\ seat' = [seat EXCEPT ![p].run = w]
    /\ history' = [history EXCEPT !.doubled = @ \/ seat[p].run # None]
    /\ Goto(w, "invoke")
    /\ UNCHANGED <<room, journal, pending, proc, bounds>>

\* Mutant: what was queued for the seat is forgotten.
attachNoFlush(k) ==
    LET up == [NoProc EXCEPT !.at = "up"] IN
    IF seat[k[2]].run = None
    THEN proc' = [proc EXCEPT ![k] = [up EXCEPT !.stop = TRUE]] /\ UNCHANGED <<seat, pending>>
    ELSE /\ proc' = [proc EXCEPT ![k] = up] /\ seat' = [seat EXCEPT ![k[2]].ctl = k]
         /\ pending' = [pending EXCEPT ![k[2]] = <<>>]

\* Mutant: a process whose seat is gone is left running.
attachUnguarded(k) ==
    /\ proc' = [proc EXCEPT ![k] = [NoProc EXCEPT !.at = "up"]]
    /\ IF seat[k[2]].run = None THEN UNCHANGED seat ELSE seat' = [seat EXCEPT ![k[2]].ctl = k]
    /\ pending' = [pending EXCEPT ![k[2]] = <<>>]

\* flushPending passes over what the seat was notified of already.
Unseen(queued, seen) ==
    IF ToSet(queued) \intersect seen = {} THEN queued
    ELSE SelectSeq(queued, LAMBDA m : m \notin seen)

\* attachController: a process whose seat is gone is told to stop; else it is
\* given what was queued for the seat.
attachController(k) ==
    LET p == k[2]
        fresh == Unseen(pending[p], seat[p].notified)
        up == [NoProc EXCEPT !.at = "up"]
    IN
    IF seat[p].run = None
    THEN proc' = [proc EXCEPT ![k] = [up EXCEPT !.stop = TRUE]] /\ UNCHANGED <<seat, pending>>
    ELSE /\ proc' = [proc EXCEPT ![k] = Write(up, fresh)]
         /\ seat' = [seat EXCEPT ![p].ctl = k, ![p].notified = @ \union ToSet(fresh)]
         /\ pending' = [pending EXCEPT ![p] = <<>>]

\* invokeAction launches the process, refuses, or throws: a throw ends the loop.
Invoke(w) ==
    LET p == Target(w) IN
    /\ job[w].at = "invoke"
    /\ \/ /\ attachController(<<w, p>>)
          /\ Receipt(w, p, "delivered") /\ NextTarget(w) /\ UNCHANGED history
       \/ /\ revoke({p})
          /\ \/ Receipt(w, p, "failed") /\ NextTarget(w)
             \/ UNCHANGED journal /\ Goto(w, "done")
    /\ UNCHANGED <<room, bounds>>

-----------------------------------------------------------------------------
(* The terminal process of a seat: runPersistentCommand *)

\* flushNextTurn: the next turn is submitted, if there is one.
FlushNext(q) ==
    IF q.queue = <<>> THEN [q EXCEPT !.busy = FALSE]
    ELSE [q EXCEPT !.got = Append(@, Head(q.queue)), !.queue = Tail(@)]

\* Quiet for a while.
PtyIdle(k) ==
    /\ proc[k].at = "up" /\ ~proc[k].stop /\ proc[k].busy
    /\ proc' = [proc EXCEPT ![k] = FlushNext(@)]
    /\ UNCHANGED <<room, journal, seat, pending, job, bounds, history>>

PtyExits(k) ==
    /\ proc[k].at = "up"
    /\ proc[k].stop \/ exits < plan.exits
    /\ exits' = IF proc[k].stop THEN exits ELSE exits + 1
    /\ proc' = [proc EXCEPT ![k] = [@ EXCEPT !.at = "exited", !.queue = <<>>]]
    /\ history' = [history EXCEPT !.dropped = @ \union {<<m, k[2]>> : m \in ToSet(proc[k].queue)}]
    /\ UNCHANGED <<room, journal, seat, pending, job, plan, crashes>>

\* handleShellComplete revokes the seat of the participant, whoever holds it now.
handleShellComplete(k) ==
    /\ proc[k].at = "exited"
    /\ LET p == k[2] IN
       /\ seat' = [seat EXCEPT ![p] = NoSeat] /\ pending' = [pending EXCEPT ![p] = <<>>]
       /\ history' = [history EXCEPT !.dropped = @ \union Lost({p})]
       /\ proc' = [j \in Procs |->
             IF j = k THEN [proc[j] EXCEPT !.at = "gone"]
             ELSE IF j = seat[p].ctl THEN [proc[j] EXCEPT !.stop = TRUE] ELSE proc[j]]
    /\ UNCHANGED <<room, journal, job, bounds>>

-----------------------------------------------------------------------------
(* A crash of the hub, and its boot *)

Crash ==
    /\ crashes < plan.crashes
    /\ crashes' = crashes + 1
    /\ seat' = [p \in Seats |-> NoSeat] /\ pending' = [p \in Seats |-> <<>>]
    /\ proc' = [k \in Procs |-> IF proc[k].at = None THEN NoProc ELSE [proc[k] EXCEPT !.at = "gone", !.queue = <<>>]]
    /\ job' = [w \in Workers |-> IF w = Boots[crashes + 1] THEN [Idle EXCEPT !.at = "orphans"]
                                 ELSE IF job[w].at = "idle" THEN Idle ELSE [Idle EXCEPT !.at = "done"]]
    /\ history' = [history EXCEPT !.dropped = @ \union Lost(Seats)
          \union UNION {ToSet(proc[k].queue) \X {k[2]} : k \in Procs}]
    /\ passed' = {}
    /\ UNCHANGED <<room, row, receipts, plan, exits>>

\* Mutant: the run bound to any room is spared.
failOrphansSparesClosed(b) ==
    /\ job[b].at = "orphans" /\ Goto(b, "rehydrate")
    /\ UNCHANGED <<room, journal, live, bounds, history>>

\* failOrphanedWorkingRuns spares the run bound to an open room.
failOrphanedWorkingRuns(b) ==
    /\ job[b].at = "orphans"
    /\ bound' = IF bound = "working" /\ status # "open" THEN "failed" ELSE bound
    /\ Goto(b, "rehydrate")
    /\ UNCHANGED <<status, journal, live, bounds, history>>

rehydrateOpenMeetings(b) ==
    /\ job[b].at = "rehydrate"
    /\ IF status = "open" THEN Dispatch(b, Seats) ELSE Done(b)
    /\ UNCHANGED <<room, journal, live, bounds, history>>

-----------------------------------------------------------------------------
CallStep(c) ==
    \/ ConveneCheck(c) \/ ConveneJournal(c) \/ ConveneWrite(c)
    \/ ResumeCheck(c) \/ ResumeJournal(c) \/ ResumeWrite(c)
    \/ CloseCheck(c) \/ CloseJournal(c) \/ persistClosedSnapshot(c) \/ RevokeAll(c)
    \/ maybeResolveBoundMeetingStep(c)
    \/ SayCheck(c) \/ allocateMeetingSeq(c) \/ appendSpaceJournal(c) \/ setJournalIndexMeetingSeq(c)

DispatchStep(w) == FindLive(w) \/ notify(w) \/ Admit(w) \/ StartSeat(w) \/ Invoke(w)
BootStep(b) == failOrphanedWorkingRuns(b) \/ rehydrateOpenMeetings(b)

Next ==
    \/ \E c \in Calls : CallStep(c)
    \/ \E w \in Workers : DispatchStep(w)
    \/ \E k \in Procs : PtyIdle(k) \/ PtyExits(k) \/ handleShellComplete(k)
    \/ (\E b \in Passes : BootStep(b)) \/ Crash

Spec == Init /\ [][Next]_vars

\* A call that has begun goes on, the boot pass runs, and a process that was told
\* to stop is killed after the grace period.
FairSpec ==
    /\ Spec
    /\ \A c \in Calls : WF_vars(job[c].at # "idle" /\ CallStep(c))
    /\ \A w \in Workers : WF_vars(DispatchStep(w))
    /\ \A k \in Procs : WF_vars(proc[k].stop /\ PtyExits(k)) /\ WF_vars(handleShellComplete(k))
    /\ \A b \in Passes : WF_vars(BootStep(b))

-----------------------------------------------------------------------------
(* Properties *)

TypeOK ==
    /\ status \in {None, "open", "closed"} /\ bound \in {"working", "resolved", "failed"}
    /\ \A p \in Seats :
          /\ seat[p].run \in Workers \union {None}
          /\ seat[p].run = None => seat[p] = NoSeat
          /\ seat[p].ctl # NoCtl => seat[p].ctl \in Workers \X {p} /\ pending[p] = <<>>
    /\ \A k \in Procs : proc[k].at \in {None, "up", "exited", "gone"}
    /\ row \in [Calls -> {None, "appended", "numbered"}] /\ passed \subseteq Unnumbered

\* One message, one receipt for each target: never two, and all of them once the
\* loop has come to its end (dispatchMeetingSaidTargets).
OneReceipt ==
    \A c \in Calls : IsSay(c) =>
        LET of(p) == {r \in receipts : r.msg = c /\ r.seat = p} IN
        /\ \A p \in Seats : Cardinality(of(p)) <= (IF p \in Request[c].to THEN 1 ELSE 0)
        /\ job[c].at = "dispatch" =>
              \A p \in Request[c].to : of(p) # {} <=> p \notin job[c].todo

\* A process is given the turns of its seat in the order they were notified, each
\* once, whether they waited for the process, for its idle moment, or not at all
\* (notify, attachController, runPersistentCommand).
TurnsInOrder ==
    \A k \in Procs : IsSubSeq(proc[k].got \o proc[k].queue, history.told[k[2]])

\* A message that was reported as delivered to a live seat is in the hands of its
\* process, or waits for it, unless the seat was revoked or its process ended.
DeliveredIsHeld ==
    \A r \in receipts : r.how = "delivered" =>
        \/ <<r.msg, r.seat>> \in history.dropped
        \/ r.msg \in ToSet(pending[r.seat])
        \/ proc[<<r.msg, r.seat>>].at # None
        \/ \E w \in Workers : r.msg \in ToSet(proc[<<w, r.seat>>].got \o proc[<<w, r.seat>>].queue)

\* The receipts of a message tell the truth: one for each target, and a delivered
\* message is not lost while its seat lives (dispatchMeetingSaidTargets, notify).
ReceiptsAreTrue == OneReceipt /\ DeliveredIsHeld

\* Close finds every process: one that runs and was not told to stop is the
\* controller of its seat. Two dispatches to one seat at once break this.
ReachableProcess ==
    ~history.doubled =>
        \A k \in Procs : proc[k].at = "up" /\ ~proc[k].stop => seat[k[2]].ctl = k

\* A room that closes ends the step that convened it, although the close waits for
\* processes and the hub may crash meanwhile.
ClosedEndsStep == status = "closed" ~> bound # "working"

\* A reader that pulls the transcript from its last up_to_seq misses no message: a
\* number that was handed out is not passed before its row carries it.
TranscriptComplete == [][\A c \in passed : row'[c] # "numbered"]_vars

\* Join-once: a seat has one process (studio-specs meetings/spec.md).
JoinOnce == \A p \in Seats :
    Cardinality({w \in Workers : proc[<<w, p>>].at = "up" /\ ~proc[<<w, p>>].stop}) <= 1

\* "Close revokes every live seat immediately": no seat is started in a closed room.
ClosedIsQuiet == [][status = "closed" => \A p \in Seats : seat'[p].run # None => seat[p].run # None]_vars

\* Resume starts a replacement process: the end of the old one does not stop it.
ReplacementKept ==
    [][\A k \in Procs : proc[k].at = "exited" /\ proc'[k].at = "gone" =>
          \A j \in Procs \ {k} : proc'[j].stop => proc[j].stop]_vars
=============================================================================
