------------------------------ MODULE Delivery ------------------------------
(***************************************************************************)
(* What an event, or the clock, sets going in one space.                   *)
(*                                                                         *)
(* POST /v1/spaces/:id/events journals the event, then delivers it to the  *)
(* indexed hooks and handlers, then to the legacy triggers, then starts    *)
(* the flows whose conditions match, one after the other and all before    *)
(* the answer.  The minute tick starts the flows whose schedule is due.    *)
(* A delivery is known by its key (event and listener), which becomes the  *)
(* idempotency key of the run; a client that gets no answer posts the      *)
(* event again.  A step is what runs between two awaits; the section of    *)
(* the space guard is one step (RunAdmission opens it up).  Deliveries to  *)
(* the seats of a meeting are in Meetings.                                 *)
(***************************************************************************)
EXTENDS Naturals, Sequences, FiniteSets

CONSTANTS
    Posts,      \* requests that post an event
    Event,      \* Event[c]: the event_id that post c carries
    After,      \* After[c]: the posts that have ended before c is made
    Listeners,  \* the hooks and handlers that match, in index order
    Triggers,   \* the active legacy triggers: the event type each is for
    Flows,      \* the flows with a matching start event, in index order
    Scheduled,  \* the flows with a schedule that is due every minute
    Ticks,      \* the ticks of the scheduler, 1 .. n
    Situations, \* sets of workers: those that are there in one behaviour
    MaxMinute,  \* bound on the wall clock
    MaxThrows,  \* bound on calls that throw
    MaxCrashes, \* bound on crashes
    MaxDepth,   \* nested trigger dispatches that are told apart
    FiredCap,   \* the size at which the scheduler forgets what it fired
    None

Events == {Event[c] : c \in Posts}
Workers == Posts \cup Ticks

\* A handler of handlers.yaml invokes its action; a hook has a list of actions.
\* Only a hook's delivery catches what it throws.
Listener == [kind : {"handler", "hook"}, does : Seq({"invoke", "start_flow"})]

\* What an event handed to the triggers can be: the posted one, or the alert.
Topics == {"posted", "integration_failure"}

ASSUME DeliveryAssumption ==
    /\ Listeners \in Seq(Listener) /\ Triggers \in Seq(Topics)
    /\ \A i \in DOMAIN Listeners :
          Listeners[i].kind = "handler" => Listeners[i].does = <<"invoke">>
    /\ Flows \in Seq(STRING) /\ Scheduled \in Seq(STRING)
    /\ After \in [Posts -> SUBSET Posts]
    /\ Situations \subseteq SUBSET Workers
    /\ Posts \cap Ticks = {} /\ Ticks = 1 .. Cardinality(Ticks)
    /\ MaxMinute \in Nat /\ MaxThrows \in Nat /\ MaxCrashes \in Nat /\ FiredCap \in Nat
    /\ MaxDepth \in Nat \ {0}
    /\ None \notin Events \X DOMAIN Listeners

VARIABLES
    journaled,   \* the posts whose event is in the journal
    runs,        \* run rows
    invoked,     \* deliveries whose action the invoke service accepted
    receipts,    \* deliveries with a handler.delivered entry
    log,         \* trigger_deliveries rows
    alerts,      \* how often an integration_failure event was appended, up to MaxDepth
    stepped,     \* runs whose first steps were dispatched
    fired,       \* the scheduler's set, in memory
    minute,      \* the wall clock
    epoch,       \* how often the daemon was started
    throws,
    pc,          \* where each worker is
    at, act,     \* the listener, trigger or flow it is at, and the hook's action
    ran,         \* the delivery at hand has its run_id
    stack,       \* trigger positions to return to from nested dispatches
    results,     \* hook_results: what became of each listener of a post
    now          \* the minute a tick has read

rows == <<journaled, runs, invoked, receipts, log, alerts, stepped>>
memory == <<fired, epoch>>
local == <<pc, at, act, ran, stack, results, now>>
vars == <<rows, memory, minute, throws, local>>

Ended == {"done", "denied", "thrown", "dead"}

Init ==
    /\ journaled = {} /\ runs = {} /\ invoked = {} /\ receipts = {} /\ log = {} /\ alerts = 0
    /\ stepped = {} /\ fired = {} /\ minute = 1 /\ epoch = 0 /\ throws = 0
    /\ \E there \in Situations : pc = [w \in Workers |-> IF w \in there THEN "idle" ELSE "absent"]
    /\ at = [w \in Workers |-> 1] /\ act = [c \in Posts |-> 1]
    /\ ran = [c \in Posts |-> FALSE] /\ stack = [c \in Posts |-> <<>>]
    /\ results = [c \in Posts |-> <<>>] /\ now = [k \in Ticks |-> 0]

Goto(w, label) == pc' = [pc EXCEPT ![w] = label]
\* To item i of the list that the loop at label walks over.
Loop(w, label, i) == Goto(w, label) /\ at' = [at EXCEPT ![w] = i]

\* What a run row says of its origin: the delivery it was made for (its
\* idempotency key), the worker and the minute, and its flow.
Run(w, key, flow) ==
    [by |-> w, key |-> key, flow |-> flow, epoch |-> epoch,
     minute |-> IF w \in Ticks THEN now[w] ELSE 0]

-----------------------------------------------------------------------------
(* emitAndDeliver *)

\* A hub-only type, a missing capability or a payload that is too large is
\* refused before the append; the same event_id is appended again.
journalEvent(c) ==
    /\ pc[c] = "idle" /\ \A b \in After[c] : pc[b] \in Ended
    /\ \/ journaled' = journaled \cup {c} /\ Loop(c, "hooks", 1)
       \/ Goto(c, "denied") /\ UNCHANGED <<journaled, at>>
    /\ UNCHANGED <<runs, invoked, receipts, log, alerts, stepped, memory, minute, throws,
                   act, ran, stack, results, now>>

ListenerOf(c) == Listeners[at[c]]
Key(c) == <<Event[c], at[c]>>

\* Mutant: only a run that a receipt was written for is found.
FindRunByIdempotencyKeyDelivered(key) == key \in receipts /\ \E r \in runs : r.key = key
FindRunByIdempotencyKey(key) == \E r \in runs : r.key = key

\* The listener's outcome is noted, and the next one is at hand.
NextListener(c, outcome) ==
    /\ Loop(c, "hooks", at[c] + 1)
    /\ results' = [results EXCEPT ![c] = Append(@, outcome)]

\* dispatchHook, dispatchMatchedEventHandler: a run with the key ends it.
dispatchHook(c) ==
    /\ pc[c] = "hooks" /\ at[c] <= Len(Listeners)
    /\ IF FindRunByIdempotencyKey(Key(c)) THEN NextListener(c, "deduped")
       ELSE Goto(c, "session") /\ UNCHANGED <<at, results>>
    /\ act' = [act EXCEPT ![c] = 1] /\ ran' = [ran EXCEPT ![c] = FALSE]
    /\ UNCHANGED <<rows, memory, minute, throws, stack, now>>

dispatchHooksDone(c) ==
    /\ pc[c] = "hooks" /\ at[c] > Len(Listeners)
    /\ Loop(c, "triggers", 1)
    /\ UNCHANGED <<rows, memory, minute, throws, act, ran, stack, results, now>>

createSession(c) ==
    /\ pc[c] = "session"
    /\ Goto(c, "act")
    /\ UNCHANGED <<rows, memory, minute, throws, at, act, ran, stack, results, now>>

\* The run of the delivery; nothing looks for the key again here.
admitAndCreateRun(c) == runs' = runs \cup {Run(c, Key(c), None)}

Action(c) == IF act[c] <= Len(ListenerOf(c).does) THEN ListenerOf(c).does[act[c]] ELSE "end"

\* The run before the first invoke, or when no action has made one; or it is
\* refused, which ends the delivery.
CreateHookRun(c) ==
    /\ pc[c] = "act" /\ ~ran[c] /\ Action(c) \in {"invoke", "end"}
    /\ \/ /\ admitAndCreateRun(c)
          /\ ran' = [ran EXCEPT ![c] = TRUE]
          /\ UNCHANGED <<pc, at, results>>
       \/ NextListener(c, "failed") /\ UNCHANGED <<runs, ran>>
    /\ UNCHANGED <<journaled, invoked, receipts, log, alerts, stepped, memory, minute, throws,
                   act, stack, now>>

\* Mutant: a refused invoke ends the dispatch of the event.
invokeActionEnds(c) ==
    /\ pc[c] = "act" /\ ran[c] /\ Action(c) = "invoke"
    /\ \/ /\ invoked' = invoked \cup {Key(c)}
          /\ act' = [act EXCEPT ![c] = @ + 1]
          /\ UNCHANGED <<pc, at, results>>
       \/ Loop(c, "triggers", 1) /\ UNCHANGED <<invoked, act, results>>
    /\ UNCHANGED <<journaled, runs, receipts, log, alerts, stepped, memory, minute, throws,
                   ran, stack, now>>

\* The action is accepted, or answered with an error: a failed delivery, whose
\* run stays.
invokeAction(c) ==
    /\ pc[c] = "act" /\ ran[c] /\ Action(c) = "invoke"
    /\ \/ /\ invoked' = invoked \cup {Key(c)}
          /\ act' = [act EXCEPT ![c] = @ + 1]
          /\ UNCHANGED <<pc, at, results>>
       \/ NextListener(c, "failed") /\ UNCHANGED <<invoked, act>>
    /\ UNCHANGED <<journaled, runs, receipts, log, alerts, stepped, memory, minute, throws,
                   ran, stack, now>>

\* start_flow of a hook, with the delivery's key as idempotency header: a run of
\* the same delivery counts as the flow's. Its first steps are not dispatched.
startFlowFromHook(c) ==
    /\ pc[c] = "act" /\ Action(c) = "start_flow"
    /\ \/ /\ IF FindRunByIdempotencyKey(Key(c)) THEN UNCHANGED runs
             ELSE runs' = runs \cup {Run(c, Key(c), "hook_flow")}
          /\ ran' = [ran EXCEPT ![c] = TRUE] /\ act' = [act EXCEPT ![c] = @ + 1]
          /\ UNCHANGED <<pc, at, results>>
       \/ /\ ~FindRunByIdempotencyKey(Key(c))
          /\ NextListener(c, "failed")
          /\ UNCHANGED <<runs, ran, act>>
    /\ UNCHANGED <<journaled, invoked, receipts, log, alerts, stepped, memory, minute, throws,
                   stack, now>>

\* Mutant: the receipt before the run and the invoke.
handlerDeliveredFirst(c) ==
    /\ pc[c] = "act"
    /\ receipts' = receipts \cup {Key(c)}
    /\ NextListener(c, "delivered")
    /\ UNCHANGED <<journaled, runs, invoked, log, alerts, stepped, memory, minute, throws,
                   act, ran, stack, now>>

\* The handler.delivered entry ends the delivery.
handlerDelivered(c) ==
    /\ pc[c] = "act" /\ ran[c] /\ Action(c) = "end"
    /\ receipts' = receipts \cup {Key(c)}
    /\ NextListener(c, "delivered")
    /\ UNCHANGED <<journaled, runs, invoked, log, alerts, stepped, memory, minute, throws,
                   act, ran, stack, now>>

\* The store or the invoke service throws: a hook's delivery has failed, a
\* handler's exception leaves dispatchHooksForEvent and is dropped by
\* emitAndDeliver, with the listeners that were to follow.
deliveryThrows(c) ==
    /\ pc[c] \in {"session", "act"}
    /\ throws < MaxThrows /\ throws' = throws + 1
    /\ IF ListenerOf(c).kind = "hook" THEN NextListener(c, "failed")
       ELSE Loop(c, "triggers", 1) /\ results' = [results EXCEPT ![c] = <<>>]
    /\ UNCHANGED <<rows, memory, minute, act, ran, stack, now>>

-----------------------------------------------------------------------------
(* TriggerDispatcher.dispatch: every action is retired, so a match is recorded
   as failed and announced by an event, which is dispatched in turn. *)

Topic(c) == IF stack[c] = <<>> THEN "posted" ELSE "integration_failure"

\* checkDedup looks for a delivery that succeeded.
checkDedup(c) == \E d \in log : d.trigger = at[c] /\ d.event = Event[c] /\ d.outcome = "success"

matchesFilter(c) == Triggers[at[c]] = Topic(c)

Delivery(c, outcome) == [trigger |-> at[c], event |-> Event[c], topic |-> Topic(c), outcome |-> outcome]

executeTrigger(c) ==
    /\ pc[c] = "triggers" /\ at[c] <= Len(Triggers)
    /\ IF ~matchesFilter(c) THEN Loop(c, "triggers", at[c] + 1) /\ UNCHANGED log
       ELSE IF checkDedup(c)
       THEN Loop(c, "triggers", at[c] + 1) /\ log' = log \cup {Delivery(c, "deduped")}
       ELSE Goto(c, "alert") /\ log' = log \cup {Delivery(c, "failed")} /\ UNCHANGED at
    /\ UNCHANGED <<journaled, runs, invoked, receipts, alerts, stepped, memory, minute, throws,
                   act, ran, stack, results, now>>

\* emitIntegrationFailure: event.append through the daemon's execute, whose
\* wrapper hands the new event to the triggers before it returns.
emitIntegrationFailure(c) ==
    /\ pc[c] = "alert"
    /\ alerts' = IF alerts < MaxDepth THEN alerts + 1 ELSE alerts
    /\ stack' = [stack EXCEPT ![c] =
          IF Len(@) < MaxDepth THEN @ \o <<at[c]>> ELSE @]
    /\ Loop(c, "triggers", 1)
    /\ UNCHANGED <<journaled, runs, invoked, receipts, log, stepped, memory, minute, throws,
                   act, ran, results, now>>

\* Mutant: back to the trigger that failed, not to the one after it.
dispatchDoneAgain(c) ==
    /\ pc[c] = "triggers" /\ at[c] > Len(Triggers)
    /\ IF stack[c] = <<>> THEN Loop(c, "flows", 1) /\ UNCHANGED stack
       ELSE /\ Loop(c, "triggers", stack[c][Len(stack[c])])
            /\ stack' = [stack EXCEPT ![c] = SubSeq(@, 1, Len(@) - 1)]
    /\ UNCHANGED <<rows, memory, minute, throws, act, ran, results, now>>

\* The end of a dispatch: back to the one it is nested in, or on to the flows.
dispatchDone(c) ==
    /\ pc[c] = "triggers" /\ at[c] > Len(Triggers)
    /\ IF stack[c] = <<>> THEN Loop(c, "flows", 1) /\ UNCHANGED stack
       ELSE /\ Loop(c, "triggers", stack[c][Len(stack[c])] + 1)
            /\ stack' = [stack EXCEPT ![c] = SubSeq(@, 1, Len(@) - 1)]
    /\ UNCHANGED <<rows, memory, minute, throws, act, ran, results, now>>

\* The insert of the delivery row throws: the request is answered with an error,
\* a nested dispatch is given up.
recordDeliveryThrows(c) ==
    /\ pc[c] = "triggers" /\ at[c] <= Len(Triggers) /\ matchesFilter(c)
    /\ throws < MaxThrows /\ throws' = throws + 1
    /\ IF stack[c] = <<>> THEN Goto(c, "thrown") /\ UNCHANGED <<at, stack>>
       ELSE /\ Loop(c, "triggers", stack[c][Len(stack[c])] + 1)
            /\ stack' = [stack EXCEPT ![c] = SubSeq(@, 1, Len(@) - 1)]
    /\ UNCHANGED <<rows, memory, minute, act, ran, results, now>>

-----------------------------------------------------------------------------
(* matchFlowEventStarts, registerFlowSchedulerCron *)

List(w) == IF w \in Ticks THEN Scheduled ELSE Flows

\* startFlowRun with no idempotency key: a run, or refused (capacity).
startFlowRun(w) ==
    /\ pc[w] = IF w \in Ticks THEN "start" ELSE "flows"
    /\ at[w] <= Len(List(w))
    /\ \/ /\ runs' = runs \cup {Run(w, None, List(w)[at[w]])}
          /\ Goto(w, "steps") /\ UNCHANGED at
       \/ Loop(w, IF w \in Ticks THEN "due" ELSE "flows", at[w] + 1) /\ UNCHANGED runs
    /\ UNCHANGED <<journaled, invoked, receipts, log, alerts, stepped, memory, minute, throws,
                   act, ran, stack, results, now>>

dispatchFlowSteps(w) ==
    /\ pc[w] = "steps"
    /\ stepped' = stepped \cup {Run(w, None, List(w)[at[w]])}
    /\ Loop(w, IF w \in Ticks THEN "due" ELSE "flows", at[w] + 1)
    /\ UNCHANGED <<journaled, runs, invoked, receipts, log, alerts, memory, minute, throws,
                   act, ran, stack, results, now>>

\* A flow start that throws ends the loop; the request is answered all the same.
matchFlowEventStartsThrows(c) ==
    /\ c \in Posts /\ pc[c] \in {"flows", "steps"} /\ at[c] <= Len(Flows)
    /\ throws < MaxThrows /\ throws' = throws + 1
    /\ Goto(c, "done")
    /\ UNCHANGED <<rows, memory, minute, at, act, ran, stack, results, now>>

Answer(c) ==
    /\ pc[c] = "flows" /\ at[c] > Len(Flows)
    /\ Goto(c, "done")
    /\ UNCHANGED <<rows, memory, minute, throws, at, act, ran, stack, results, now>>

\* setInterval: the next tick, whatever the wall clock shows by then (the same
\* minute when it was set back, a later one when the loop was late). The daemon's
\* earlier ticks may still await a start.
tick(k) ==
    /\ pc[k] = "idle" /\ \A j \in Ticks : j < k => pc[j] # "idle"
    /\ now' = [now EXCEPT ![k] = minute]
    /\ Goto(k, "due")
    /\ UNCHANGED <<rows, memory, minute, throws, at, act, ran, stack, results>>

\* Mutant: the minute is noted when the flow has been started.
dueScheduledFlowLate(k) ==
    /\ pc[k] = "due" /\ at[k] <= Len(Scheduled)
    /\ LET key == <<Scheduled[at[k]], now[k]>>
       IN  IF key \in fired THEN Loop(k, "due", at[k] + 1) /\ UNCHANGED fired
           ELSE /\ fired' = IF \E r \in runs : r.flow = key[1] /\ r.minute = key[2]
                            THEN fired \cup {key} ELSE fired
                /\ Goto(k, "start") /\ UNCHANGED at
    /\ UNCHANGED <<rows, minute, epoch, throws, act, ran, stack, results, now>>

\* The flow and minute are noted before the start, and stay so if it is refused.
dueScheduledFlow(k) ==
    /\ pc[k] = "due" /\ at[k] <= Len(Scheduled)
    /\ LET key == <<Scheduled[at[k]], now[k]>>
       IN  IF key \in fired THEN Loop(k, "due", at[k] + 1) /\ UNCHANGED fired
           ELSE fired' = fired \cup {key} /\ Goto(k, "start") /\ UNCHANGED at
    /\ UNCHANGED <<rows, minute, epoch, throws, act, ran, stack, results, now>>

tickDone(k) ==
    /\ pc[k] = "due" /\ at[k] > Len(Scheduled)
    /\ fired' = IF Cardinality(fired) > FiredCap THEN {} ELSE fired
    /\ Goto(k, "done")
    /\ UNCHANGED <<rows, minute, epoch, throws, at, act, ran, stack, results, now>>

\* The wall clock moves on.
MinutePasses ==
    /\ minute < MaxMinute /\ minute' = minute + 1
    /\ UNCHANGED <<rows, memory, throws, local>>

\* The daemon dies: by a crash, or by the promise of a tick that is rejected and
\* that nobody handles.
Restart ==
    /\ epoch' = epoch + 1 /\ fired' = {}
    /\ pc' = [w \in Workers |-> IF pc[w] \in Ended \cup {"idle", "absent"} THEN pc[w] ELSE "dead"]
    /\ UNCHANGED <<rows, minute, at, act, ran, stack, results, now>>

Crash == epoch < MaxCrashes /\ Restart /\ UNCHANGED throws

tickRejects(k) ==
    /\ pc[k] \in {"due", "start", "steps"}
    /\ throws < MaxThrows /\ throws' = throws + 1
    /\ Restart

Post(c) ==
    \/ dispatchHook(c) \/ dispatchHooksDone(c) \/ createSession(c) \/ CreateHookRun(c)
    \/ invokeAction(c) \/ startFlowFromHook(c) \/ handlerDelivered(c) \/ deliveryThrows(c)
    \/ executeTrigger(c) \/ emitIntegrationFailure(c) \/ dispatchDone(c) \/ recordDeliveryThrows(c)
    \/ startFlowRun(c) \/ dispatchFlowSteps(c) \/ matchFlowEventStartsThrows(c) \/ Answer(c)

Tick(k) == dueScheduledFlow(k) \/ startFlowRun(k) \/ dispatchFlowSteps(k) \/ tickDone(k)

Next ==
    \/ \E c \in Posts : journalEvent(c) \/ Post(c)
    \/ \E k \in Ticks : tick(k) \/ Tick(k) \/ tickRejects(k)
    \/ MinutePasses
    \/ Crash

Spec == Init /\ [][Next]_vars

\* The event loop goes on with every request; nothing obliges a client to post,
\* a timer to be punctual or the daemon to die.
FairSpec == Spec /\ \A c \in Posts : WF_vars(Post(c))

-----------------------------------------------------------------------------
(* Every row and every local of the dispatchers has a value of its type. *)
TypeOK ==
    /\ journaled \subseteq Posts
    /\ \A r \in runs :
          /\ r.by \in Workers /\ r.epoch \in 0 .. epoch /\ r.minute \in 0 .. minute
          /\ r.key = None \/ (r.key[1] \in Events /\ r.key[2] \in DOMAIN Listeners)
    /\ invoked \cup receipts \subseteq Events \X DOMAIN Listeners
    /\ stepped \subseteq runs
    /\ \A d \in log : d.trigger \in DOMAIN Triggers /\ Triggers[d.trigger] = d.topic
    /\ \A c \in Posts : Len(results[c]) <= Len(Listeners) /\ Len(stack[c]) <= MaxDepth

(* "one redelivered CloudEvent must not produce duplicate hook effects and a
   duplicate Run": a client that posts an event again after a failed, cut off
   or answered post finds the run of the first, whatever of the delivery was
   done when the daemon died (dispatchHook, dispatchMatchedEventHandler). *)
OneRunPerDelivery ==
    \A r, s \in runs : r.key # None /\ r.key = s.key => r = s

(* The answers tell the truth: a listener that is reported as delivered has its
   receipt and, unless it only starts a flow, an accepted action; one that is
   reported as deduped has a run (dispatchHook, deliverToAssignment). *)
ResultsAreTrue ==
    \A c \in Posts : \A i \in DOMAIN results[c] :
        LET key == <<Event[c], i>>
        IN  /\ results[c][i] = "delivered" =>
                  /\ key \in receipts
                  /\ "invoke" \in {Listeners[i].does[j] : j \in DOMAIN Listeners[i].does} => key \in invoked
            /\ results[c][i] \in {"delivered", "deduped"} => FindRunByIdempotencyKey(key)

(* A listener that fails does not keep the event from the others: when a post
   is answered each of them has an outcome, or an exception of a handler was
   dropped with all of them (dispatchHooksForEvent, emitAndDeliver). *)
EveryListenerServed ==
    \A c \in Posts : pc[c] \in {"triggers", "flows", "done"} =>
        \/ Len(results[c]) = Len(Listeners)
        \/ results[c] = <<>> /\ throws > 0

(* A flow is started at most once for one minute of its schedule, ticks that
   overlap and a clock that is set back included, until a restart
   (registerFlowSchedulerCron). *)
OneStartPerMinute ==
    \A r, s \in runs :
        ({r.by, s.by} \subseteq Ticks /\ r.flow = s.flow /\ r.minute = s.minute /\ r.epoch = s.epoch)
            => r = s

(* What is started is started once: the run of a listener whatever the
   redeliveries, the run of a schedule whatever the ticks (dispatchHook, tick). *)
StartedOnce == OneRunPerDelivery /\ OneStartPerMinute

(* The answer of a post accounts for every listener and is true of each
   (dispatchHooksForEvent, emitAndDeliver). *)
AnswersAreTrue == ResultsAreTrue /\ EveryListenerServed

(* A post whose event is in the journal is answered, unless the daemon dies: the
   alert of a failed trigger does not set off triggers without end
   (TriggerDispatcher, the wrapper of execute). *)
PostIsAnswered == \A c \in Posts : c \in journaled ~> pc[c] \in Ended

-----------------------------------------------------------------------------
(* What the documents say and the code does not do. *)

(* The propagation rule for the flows that the event itself starts: a
   redelivered event starts a flow once (matchFlowEventStarts). *)
OneFlowStartPerEvent ==
    \A r, s \in runs :
        ({r.by, s.by} \subseteq Posts /\ r.flow # None /\ r.flow = s.flow /\ Event[r.by] = Event[s.by])
            => r = s

(* "Handler delivery fails -> integration_failure event + delivery log
   outcome: failed" (dispatchHooksForEvent). *)
FailureIsAnnounced ==
    \A c \in Posts : (pc[c] = "done" /\ \E i \in DOMAIN results[c] : results[c][i] = "failed") => alerts > 0

(* "Duplicate emit same business key -> dedup drop in delivery log": a trigger
   handles an event once (checkDedup). *)
DuplicateIsDropped ==
    \A c \in Posts : (pc[c] = "done" /\ (\E b \in After[c] : pc[b] = "done" /\ Event[b] = Event[c])
                        /\ \E d \in log : d.event = Event[c])
        => \E d \in log : d.event = Event[c] /\ d.outcome = "deduped"

(* A hook that was delivered and starts a flow has started it: there is a run of
   the flow and its first steps are dispatched (dispatchHook). *)
DeliveredFlowIsStarted ==
    \A key \in receipts :
        "start_flow" \in {Listeners[key[2]].does[j] : j \in DOMAIN Listeners[key[2]].does}
            => \E r \in stepped : r.key = key /\ r.flow # None
=============================================================================
