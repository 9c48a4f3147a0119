--------------------------- MODULE DeliveryProofs ---------------------------
(***************************************************************************)
(* Proofs about Delivery, for any posts, listeners, triggers, flows and    *)
(* ticks.                                                                  *)
(*                                                                         *)
(* What is started is started once and the answers are true because of     *)
(* what a worker knows at each of its steps: a post that is about to make  *)
(* a run knows that its delivery has none (Deliveries), its list of        *)
(* outcomes is as long as the listeners it has passed (Answers), and a     *)
(* tick that is about to start a flow is the one that noted its minute     *)
(* (Schedule).                                                             *)
(***************************************************************************)
EXTENDS Delivery, FiniteSetTheorems, TLAPS

Outcomes == {"deduped", "failed", "delivered"}
AtListener == {"hooks", "session", "act"}
Delivering == {"session", "act"}
PostLabels == {"absent", "idle", "triggers", "alert", "flows", "steps"} \cup AtListener \cup Ended
Due == {"due", "start", "steps"}
TickLabels == {"absent", "idle"} \cup Due \cup Ended

Deliverable == Events \X DOMAIN Listeners
FlowsOf(list) == {list[i] : i \in DOMAIN list}
Row == [by : Workers, key : {None} \cup Deliverable,
        flow : {None, "hook_flow"} \cup FlowsOf(Flows) \cup FlowsOf(Scheduled),
        epoch : Nat, minute : Nat]

\* Posts of one event are made one after the other: an event is posted again
\* by a client that has seen its post end.
Redelivered ==
    \A b, c \in Posts : b # c /\ Event[b] = Event[c] => b \in After[c] \/ c \in After[b]

\* The flows and minutes there are fit the set the scheduler keeps.
FiredFits == MaxMinute > 0 /\ Len(Scheduled) * MaxMinute <= FiredCap

Types ==
    /\ runs \subseteq Row
    /\ pc \in [Workers -> PostLabels \cup TickLabels]
    /\ \A c \in Posts : pc[c] \in PostLabels
    /\ \A k \in Ticks : pc[k] \in TickLabels
    /\ at \in [Workers -> Nat \ {0}]
    /\ act \in [Posts -> Nat]
    /\ ran \in [Posts -> BOOLEAN]
    /\ stack \in [Posts -> Seq(Nat)]
    /\ results \in [Posts -> Seq(Outcomes)]
    /\ now \in [Ticks -> Nat]
    /\ minute \in Nat /\ epoch \in Nat /\ throws \in Nat
    /\ \A c \in Posts : pc[c] \in Delivering => at[c] \in DOMAIN Listeners /\ act[c] >= 1

(* A post of an event is at work when the earlier ones of it have ended, and *)
(* it has made its delivery's run, or nobody has.                           *)
Waited == \A c \in Posts : pc[c] \notin {"idle", "absent"} => \A b \in After[c] : pc[b] \in Ended
Deliveries ==
    /\ Waited
    /\ OneRunPerDelivery
    /\ \A c \in Posts : pc[c] \in Delivering => (ran[c] <=> FindRunByIdempotencyKey(Key(c)))

(* A post has a true outcome for each listener it has passed, the run it    *)
(* says it has, and an accepted action for each invoke it has passed.       *)
Invokes(i) == "invoke" \in {Listeners[i].does[j] : j \in DOMAIN Listeners[i].does}
TrueOf(c, i, outcome) ==
    /\ outcome = "delivered" =>
          <<Event[c], i>> \in receipts /\ (Invokes(i) => <<Event[c], i>> \in invoked)
    /\ outcome \in {"delivered", "deduped"} => \E r \in runs : r.key = <<Event[c], i>>
Truths(c) == \A i \in DOMAIN results[c] : TrueOf(c, i, results[c][i])
Ran == \A c \in Posts : pc[c] \in Delivering /\ ran[c] => FindRunByIdempotencyKey(Key(c))
Served(c) == Len(results[c]) = Len(Listeners) \/ (results[c] = << >> /\ throws > 0)
\* The listener's invokes before the action at hand were accepted.
Passed(c) ==
    \A j \in DOMAIN ListenerOf(c).does :
        j < act[c] /\ ListenerOf(c).does[j] = "invoke" => Key(c) \in invoked
Own(c) ==
    /\ Truths(c)
    /\ pc[c] \in {"idle", "absent"} => results[c] = << >>
    /\ pc[c] \in AtListener => at[c] = Len(results[c]) + 1 /\ Len(results[c]) <= Len(Listeners)
    /\ pc[c] \in {"triggers", "alert", "flows", "steps", "done"} => Served(c)
    /\ pc[c] = "session" => act[c] = 1
    /\ pc[c] = "act" => Passed(c)
Answers == \A c \in Posts : Own(c)

(* A flow that was started for a minute is noted for it; a tick that starts *)
(* a flow is the only one to do so for its minute.                          *)
Starting(k) == <<Scheduled[at[k]], now[k]>>
Schedule ==
    /\ OneStartPerMinute
    /\ minute \in 1 .. MaxMinute
    /\ fired \subseteq FlowsOf(Scheduled) \X (1 .. MaxMinute)
    /\ \A r \in runs : r.epoch <= epoch
    /\ \A r \in runs : r.by \in Ticks /\ r.epoch = epoch => <<r.flow, r.minute>> \in fired
    /\ \A k \in Ticks :
          /\ pc[k] \in Due => now[k] \in 1 .. MaxMinute
          /\ pc[k] = "start" =>
                /\ at[k] \in DOMAIN Scheduled /\ Starting(k) \in fired
                /\ \A r \in runs : r.by \in Ticks /\ r.epoch = epoch => <<r.flow, r.minute>> # Starting(k)
    /\ \A j, k \in Ticks : pc[j] = "start" /\ pc[k] = "start" /\ Starting(j) = Starting(k) => j = k

-----------------------------------------------------------------------------
(* Types. *)

LEMMA ListenerTyped ==
  ASSUME NEW i \in DOMAIN Listeners
  PROVE  /\ Listeners[i] \in Listener
         /\ Listeners[i].does \in Seq({"invoke", "start_flow"})
         /\ Listeners[i].kind \in {"handler", "hook"}
  <1>1. Listeners[i] \in Listener
    <2>1. Listeners \in Seq(Listener)
      BY DeliveryAssumption
    <2> HIDE DEF Listener
    <2> QED
      BY <2>1
  <1> QED
    BY <1>1 DEF Listener

LEMMA WorkersAre == Posts \cap Ticks = {} /\ Posts \subseteq Workers /\ Ticks \subseteq Workers
  BY DeliveryAssumption DEF Workers

LEMMA RunTyped ==
  ASSUME Types, NEW w \in Workers, NEW key \in {None} \cup Deliverable,
         NEW flow \in {None, "hook_flow"} \cup FlowsOf(Flows) \cup FlowsOf(Scheduled)
  PROVE  Run(w, key, flow) \in Row
  BY DEF Types, Run, Row

LEMMA KeyTyped ==
  ASSUME Types, NEW c \in Posts, pc[c] \in Delivering
  PROVE  Key(c) \in Deliverable
  BY DEF Types, Key, Deliverable, Events

\* The listener's outcome is noted.
LEMMA Noted ==
  ASSUME Types, NEW c \in Posts, NEW outcome \in Outcomes, NextListener(c, outcome)
  PROVE  /\ at' \in [Workers -> Nat \ {0}] /\ at'[c] = at[c] + 1
         /\ pc'[c] = "hooks"
         /\ results' \in [Posts -> Seq(Outcomes)]
         /\ results'[c] = Append(results[c], outcome)
         /\ \A d \in Posts : d # c => results'[d] = results[d]
  <1>1. c \in Workers /\ at[c] \in Nat /\ results[c] \in Seq(Outcomes)
    BY WorkersAre DEF Types
  <1>2. Append(results[c], outcome) \in Seq(Outcomes)
    BY <1>1
  <1>3. at' = [at EXCEPT ![c] = at[c] + 1] /\ pc' = [pc EXCEPT ![c] = "hooks"]
        /\ results' = [results EXCEPT ![c] = Append(results[c], outcome)]
    BY DEF NextListener, Loop, Goto
  <1> DEFINE s == Append(results[c], outcome)
  <1> HIDE DEF s
  <1>4. results' = [results EXCEPT ![c] = s] /\ s \in Seq(Outcomes)
    BY <1>2, <1>3 DEF s
  <1>5. results' \in [Posts -> Seq(Outcomes)] /\ results'[c] = s /\ \A d \in Posts : d # c => results'[d] = results[d]
    BY <1>4 DEF Types
  <1>6. at' \in [Workers -> Nat \ {0}] /\ at'[c] = at[c] + 1 /\ pc'[c] = "hooks"
    BY <1>1, <1>3 DEF Types
  <1> QED
    BY <1>5, <1>6 DEF s

\* The end of a nested dispatch.
LEMMA Popped ==
  ASSUME Types, NEW c \in Posts, stack[c] # << >>
  PROVE  stack[c][Len(stack[c])] + 1 \in Nat \ {0} /\ SubSeq(stack[c], 1, Len(stack[c]) - 1) \in Seq(Nat)
  <1>1. stack[c] \in Seq(Nat)
    BY DEF Types
  <1>2. Len(stack[c]) \in Nat /\ Len(stack[c]) >= 1
    BY <1>1
  <1>3. stack[c][Len(stack[c])] \in Nat
    BY <1>1, <1>2
  <1>4. SubSeq(stack[c], 1, Len(stack[c]) - 1) \in Seq(Nat)
    BY <1>1, <1>2
  <1> QED
    BY <1>3, <1>4

LEMMA PoppedTypes ==
  ASSUME Types, NEW c \in Posts, stack[c] # << >>,
         Loop(c, "triggers", stack[c][Len(stack[c])] + 1),
         stack' = [stack EXCEPT ![c] = SubSeq(@, 1, Len(@) - 1)]
  PROVE  at' \in [Workers -> Nat \ {0}] /\ stack' \in [Posts -> Seq(Nat)]
  <1> DEFINE i == stack[c][Len(stack[c])] + 1
             s == SubSeq(stack[c], 1, Len(stack[c]) - 1)
  <1>1. i \in Nat \ {0} /\ s \in Seq(Nat)
    BY Popped
  <1>2. at' = [at EXCEPT ![c] = i] /\ stack' = [stack EXCEPT ![c] = s]
    BY DEF Loop
  <1> HIDE DEF i, s
  <1> QED
    BY <1>1, <1>2 DEF Types

LEMMA journalEventTypes ==
  ASSUME Types, NEW c \in Posts, journalEvent(c)
  PROVE  Types'
  <1> USE DEF Goto, Loop
  <1>1. c \in Workers /\ Posts \cap Ticks = {} /\ Posts \subseteq Workers /\ Ticks \subseteq Workers
    BY DeliveryAssumption DEF Workers
  <1>2. runs' \subseteq Row
    BY <1>1 DEF NextListener, Types, journalEvent, rows
  <1>3. /\ pc' \in [Workers -> PostLabels \cup TickLabels]
        /\ \A v \in Workers : v # c => pc'[v] = pc[v] /\ at'[v] = at[v]
        /\ c \in Posts => pc'[c] \in PostLabels
        /\ c \in Ticks => pc'[c] \in TickLabels
    BY <1>1 DEF NextListener, Types, journalEvent, PostLabels, TickLabels, Ended, AtListener, Due, local
  <1>4. at' \in [Workers -> Nat \ {0}]
    <2>1. CASE at' = [at EXCEPT ![c] = 1]
      BY <1>1, <2>1 DEF Types
    <2>2. CASE at' = at
      BY <2>2 DEF Types
    <2> QED
      BY <2>1, <2>2 DEF journalEvent
  <1>5. act' \in [Posts -> Nat] /\ ran' \in [Posts -> BOOLEAN] /\ \A d \in Posts : d # c => act'[d] = act[d]
    BY <1>1 DEF NextListener, Types, journalEvent, local
  <1>6. stack' \in [Posts -> Seq(Nat)]
    BY <1>1 DEF NextListener, Types, journalEvent, local
  <1>7. results' \in [Posts -> Seq(Outcomes)]
    BY <1>1 DEF NextListener, Types, journalEvent, Outcomes, local
  <1>8. now' \in [Ticks -> Nat] /\ minute' \in Nat /\ epoch' \in Nat /\ throws' \in Nat
    BY <1>1 DEF NextListener, Types, journalEvent, memory, local
  <1>9. c \in Posts /\ pc'[c] \in Delivering => at'[c] \in DOMAIN Listeners /\ act'[c] >= 1
    BY <1>1, DeliveryAssumption DEF NextListener, Types, journalEvent, Delivering, local
  <1> QED
    BY <1>1, <1>2, <1>3, <1>4, <1>5, <1>6, <1>7, <1>8, <1>9 DEF Types

LEMMA dispatchHookTypes ==
  ASSUME Types, NEW c \in Posts, dispatchHook(c)
  PROVE  Types'
  <1> USE DEF Goto, Loop
  <1>1. c \in Workers /\ Posts \cap Ticks = {} /\ Posts \subseteq Workers /\ Ticks \subseteq Workers
    BY DeliveryAssumption DEF Workers
  <1>2. runs' \subseteq Row
    BY <1>1 DEF NextListener, Types, dispatchHook, rows
  <1>3. /\ pc' \in [Workers -> PostLabels \cup TickLabels]
        /\ \A v \in Workers : v # c => pc'[v] = pc[v] /\ at'[v] = at[v]
        /\ c \in Posts => pc'[c] \in PostLabels
        /\ c \in Ticks => pc'[c] \in TickLabels
    BY <1>1 DEF NextListener, Types, dispatchHook, PostLabels, TickLabels, Ended, AtListener, Due, local
  <1>4. at' \in [Workers -> Nat \ {0}]
    <2>1. CASE NextListener(c, "deduped")
      BY <2>1, Noted DEF Outcomes
    <2>2. CASE UNCHANGED <<at, results>>
      BY <2>2 DEF Types
    <2> QED
      BY <2>1, <2>2 DEF dispatchHook
  <1>5. act' \in [Posts -> Nat] /\ ran' \in [Posts -> BOOLEAN] /\ \A d \in Posts : d # c => act'[d] = act[d]
    BY <1>1 DEF NextListener, Types, dispatchHook, local
  <1>6. stack' \in [Posts -> Seq(Nat)]
    BY <1>1 DEF NextListener, Types, dispatchHook, local
  <1>7. results' \in [Posts -> Seq(Outcomes)]
    <2>1. CASE NextListener(c, "deduped")
      BY <2>1, Noted DEF Outcomes
    <2>2. CASE UNCHANGED <<at, results>>
      BY <2>2 DEF Types
    <2> QED
      BY <2>1, <2>2 DEF dispatchHook
  <1>8. now' \in [Ticks -> Nat] /\ minute' \in Nat /\ epoch' \in Nat /\ throws' \in Nat
    BY <1>1 DEF NextListener, Types, dispatchHook, memory, local
  <1>9. c \in Posts /\ pc'[c] \in Delivering => at'[c] \in DOMAIN Listeners /\ act'[c] >= 1
    <2>1. CASE pc'[c] = "hooks"
      BY <2>1 DEF Delivering
    <2>2. CASE UNCHANGED at
      <3>1. at[c] \in 1 .. Len(Listeners) /\ Listeners \in Seq(Listener)
        BY <1>1, DeliveryAssumption DEF Types, dispatchHook
      <3>2. act' = [act EXCEPT ![c] = 1]
        BY DEF dispatchHook
      <3> QED
        BY <2>2, <3>1, <3>2 DEF Types
    <2> QED
      BY <1>1, <2>1, <2>2, Noted DEF dispatchHook, Outcomes
  <1> QED
    BY <1>1, <1>2, <1>3, <1>4, <1>5, <1>6, <1>7, <1>8, <1>9 DEF Types

LEMMA dispatchHooksDoneTypes ==
  ASSUME Types, NEW c \in Posts, dispatchHooksDone(c)
  PROVE  Types'
  <1> USE DEF Goto, Loop
  <1>1. c \in Workers /\ Posts \cap Ticks = {} /\ Posts \subseteq Workers /\ Ticks \subseteq Workers
    BY DeliveryAssumption DEF Workers
  <1>2. runs' \subseteq Row
    BY <1>1 DEF NextListener, Types, dispatchHooksDone, rows
  <1>3. /\ pc' \in [Workers -> PostLabels \cup TickLabels]
        /\ \A v \in Workers : v # c => pc'[v] = pc[v] /\ at'[v] = at[v]
        /\ c \in Posts => pc'[c] \in PostLabels
        /\ c \in Ticks => pc'[c] \in TickLabels
    BY <1>1 DEF NextListener, Types, dispatchHooksDone, PostLabels, TickLabels, Ended, AtListener, Due, local
  <1>4. at' \in [Workers -> Nat \ {0}]
    BY <1>1 DEF NextListener, Types, dispatchHooksDone, local
  <1>5. act' \in [Posts -> Nat] /\ ran' \in [Posts -> BOOLEAN] /\ \A d \in Posts : d # c => act'[d] = act[d]
    BY <1>1 DEF NextListener, Types, dispatchHooksDone, local
  <1>6. stack' \in [Posts -> Seq(Nat)]
    BY <1>1 DEF NextListener, Types, dispatchHooksDone, local
  <1>7. results' \in [Posts -> Seq(Outcomes)]
    BY <1>1 DEF NextListener, Types, dispatchHooksDone, Outcomes, local
  <1>8. now' \in [Ticks -> Nat] /\ minute' \in Nat /\ epoch' \in Nat /\ throws' \in Nat
    BY <1>1 DEF NextListener, Types, dispatchHooksDone, memory, local
  <1>9. c \in Posts /\ pc'[c] \in Delivering => at'[c] \in DOMAIN Listeners /\ act'[c] >= 1
    BY <1>1, DeliveryAssumption DEF NextListener, Types, dispatchHooksDone, Delivering, local
  <1> QED
    BY <1>1, <1>2, <1>3, <1>4, <1>5, <1>6, <1>7, <1>8, <1>9 DEF Types

LEMMA createSessionTypes ==
  ASSUME Types, NEW c \in Posts, createSession(c)
  PROVE  Types'
  <1> USE DEF Goto, Loop
  <1>1. c \in Workers /\ Posts \cap Ticks = {} /\ Posts \subseteq Workers /\ Ticks \subseteq Workers
    BY DeliveryAssumption DEF Workers
  <1>2. runs' \subseteq Row
    BY <1>1 DEF NextListener, Types, createSession, rows
  <1>3. /\ pc' \in [Workers -> PostLabels \cup TickLabels]
        /\ \A v \in Workers : v # c => pc'[v] = pc[v] /\ at'[v] = at[v]
        /\ c \in Posts => pc'[c] \in PostLabels
        /\ c \in Ticks => pc'[c] \in TickLabels
    BY <1>1 DEF NextListener, Types, createSession, PostLabels, TickLabels, Ended, AtListener, Due, local
  <1>4. at' \in [Workers -> Nat \ {0}]
    BY <1>1 DEF NextListener, Types, createSession, local
  <1>5. act' \in [Posts -> Nat] /\ ran' \in [Posts -> BOOLEAN] /\ \A d \in Posts : d # c => act'[d] = act[d]
    BY <1>1 DEF NextListener, Types, createSession, local
  <1>6. stack' \in [Posts -> Seq(Nat)]
    BY <1>1 DEF NextListener, Types, createSession, local
  <1>7. results' \in [Posts -> Seq(Outcomes)]
    BY <1>1 DEF NextListener, Types, createSession, Outcomes, local
  <1>8. now' \in [Ticks -> Nat] /\ minute' \in Nat /\ epoch' \in Nat /\ throws' \in Nat
    BY <1>1 DEF NextListener, Types, createSession, memory, local
  <1>9. c \in Posts /\ pc'[c] \in Delivering => at'[c] \in DOMAIN Listeners /\ act'[c] >= 1
    BY <1>1, DeliveryAssumption DEF NextListener, Types, createSession, Delivering, local
  <1> QED
    BY <1>1, <1>2, <1>3, <1>4, <1>5, <1>6, <1>7, <1>8, <1>9 DEF Types

LEMMA CreateHookRunTypes ==
  ASSUME Types, NEW c \in Posts, CreateHookRun(c)
  PROVE  Types'
  <1> USE DEF Goto, Loop
  <1>1. c \in Workers /\ Posts \cap Ticks = {} /\ Posts \subseteq Workers /\ Ticks \subseteq Workers
    BY DeliveryAssumption DEF Workers
  <1>2. runs' \subseteq Row
    BY <1>1, RunTyped, KeyTyped DEF Types, CreateHookRun, admitAndCreateRun, Delivering
  <1>3. /\ pc' \in [Workers -> PostLabels \cup TickLabels]
        /\ \A v \in Workers : v # c => pc'[v] = pc[v] /\ at'[v] = at[v]
        /\ c \in Posts => pc'[c] \in PostLabels
        /\ c \in Ticks => pc'[c] \in TickLabels
    BY <1>1 DEF NextListener, Types, CreateHookRun, PostLabels, TickLabels, Ended, AtListener, Due, local
  <1>4. at' \in [Workers -> Nat \ {0}]
    <2>1. CASE NextListener(c, "failed")
      BY <2>1, Noted DEF Outcomes
    <2>2. CASE UNCHANGED <<at, results>>
      BY <2>2 DEF Types
    <2> QED
      BY <2>1, <2>2 DEF CreateHookRun
  <1>5. act' \in [Posts -> Nat] /\ ran' \in [Posts -> BOOLEAN] /\ \A d \in Posts : d # c => act'[d] = act[d]
    BY <1>1 DEF NextListener, Types, CreateHookRun, local
  <1>6. stack' \in [Posts -> Seq(Nat)]
    BY <1>1 DEF NextListener, Types, CreateHookRun, local
  <1>7. results' \in [Posts -> Seq(Outcomes)]
    <2>1. CASE NextListener(c, "failed")
      BY <2>1, Noted DEF Outcomes
    <2>2. CASE UNCHANGED <<at, results>>
      BY <2>2 DEF Types
    <2> QED
      BY <2>1, <2>2 DEF CreateHookRun
  <1>8. now' \in [Ticks -> Nat] /\ minute' \in Nat /\ epoch' \in Nat /\ throws' \in Nat
    BY <1>1 DEF NextListener, Types, CreateHookRun, memory, local
  <1>9. c \in Posts /\ pc'[c] \in Delivering => at'[c] \in DOMAIN Listeners /\ act'[c] >= 1
    BY <1>1, DeliveryAssumption DEF NextListener, Types, CreateHookRun, Delivering, local
  <1> QED
    BY <1>1, <1>2, <1>3, <1>4, <1>5, <1>6, <1>7, <1>8, <1>9 DEF Types

LEMMA invokeActionTypes ==
  ASSUME Types, NEW c \in Posts, invokeAction(c)
  PROVE  Types'
  <1> USE DEF Goto, Loop
  <1>1. c \in Workers /\ Posts \cap Ticks = {} /\ Posts \subseteq Workers /\ Ticks \subseteq Workers
    BY DeliveryAssumption DEF Workers
  <1>2. runs' \subseteq Row
    BY <1>1 DEF NextListener, Types, invokeAction, rows
  <1>3. /\ pc' \in [Workers -> PostLabels \cup TickLabels]
        /\ \A v \in Workers : v # c => pc'[v] = pc[v] /\ at'[v] = at[v]
        /\ c \in Posts => pc'[c] \in PostLabels
        /\ c \in Ticks => pc'[c] \in TickLabels
    BY <1>1 DEF NextListener, Types, invokeAction, PostLabels, TickLabels, Ended, AtListener, Due, local
  <1>4. at' \in [Workers -> Nat \ {0}]
    <2>1. CASE NextListener(c, "failed")
      BY <2>1, Noted DEF Outcomes
    <2>2. CASE UNCHANGED <<at, results>>
      BY <2>2 DEF Types
    <2> QED
      BY <2>1, <2>2 DEF invokeAction
  <1>5. act' \in [Posts -> Nat] /\ ran' \in [Posts -> BOOLEAN] /\ \A d \in Posts : d # c => act'[d] = act[d]
    <2>1. CASE act' = [act EXCEPT ![c] = @ + 1]
      BY <2>1 DEF Types, invokeAction
    <2>2. CASE act' = act
      BY <2>2 DEF Types, invokeAction
    <2> QED
      BY <2>1, <2>2 DEF invokeAction
  <1>6. stack' \in [Posts -> Seq(Nat)]
    BY <1>1 DEF NextListener, Types, invokeAction, local
  <1>7. results' \in [Posts -> Seq(Outcomes)]
    <2>1. CASE NextListener(c, "failed")
      BY <2>1, Noted DEF Outcomes
    <2>2. CASE UNCHANGED <<at, results>>
      BY <2>2 DEF Types
    <2> QED
      BY <2>1, <2>2 DEF invokeAction
  <1>8. now' \in [Ticks -> Nat] /\ minute' \in Nat /\ epoch' \in Nat /\ throws' \in Nat
    BY <1>1 DEF NextListener, Types, invokeAction, memory, local
  <1>9. c \in Posts /\ pc'[c] \in Delivering => at'[c] \in DOMAIN Listeners /\ act'[c] >= 1
    BY <1>1, DeliveryAssumption DEF NextListener, Types, invokeAction, Delivering, local
  <1> QED
    BY <1>1, <1>2, <1>3, <1>4, <1>5, <1>6, <1>7, <1>8, <1>9 DEF Types

LEMMA startFlowFromHookTypes ==
  ASSUME Types, NEW c \in Posts, startFlowFromHook(c)
  PROVE  Types'
  <1> USE DEF Goto, Loop
  <1>1. c \in Workers /\ Posts \cap Ticks = {} /\ Posts \subseteq Workers /\ Ticks \subseteq Workers
    BY DeliveryAssumption DEF Workers
  <1>2. runs' \subseteq Row
    BY <1>1, RunTyped, KeyTyped DEF Types, startFlowFromHook, Delivering
  <1>3. /\ pc' \in [Workers -> PostLabels \cup TickLabels]
        /\ \A v \in Workers : v # c => pc'[v] = pc[v] /\ at'[v] = at[v]
        /\ c \in Posts => pc'[c] \in PostLabels
        /\ c \in Ticks => pc'[c] \in TickLabels
    BY <1>1 DEF NextListener, Types, startFlowFromHook, PostLabels, TickLabels, Ended, AtListener, Due, local
  <1>4. at' \in [Workers -> Nat \ {0}]
    <2>1. CASE NextListener(c, "failed")
      BY <2>1, Noted DEF Outcomes
    <2>2. CASE UNCHANGED <<at, results>>
      BY <2>2 DEF Types
    <2> QED
      BY <2>1, <2>2 DEF startFlowFromHook
  <1>5. act' \in [Posts -> Nat] /\ ran' \in [Posts -> BOOLEAN] /\ \A d \in Posts : d # c => act'[d] = act[d]
    <2>1. CASE act' = [act EXCEPT ![c] = @ + 1] /\ ran' = [ran EXCEPT ![c] = TRUE]
      BY <2>1 DEF Types
    <2>2. CASE act' = act /\ ran' = ran
      BY <2>2 DEF Types
    <2> QED
      BY <2>1, <2>2 DEF startFlowFromHook
  <1>6. stack' \in [Posts -> Seq(Nat)]
    BY <1>1 DEF NextListener, Types, startFlowFromHook, local
  <1>7. results' \in [Posts -> Seq(Outcomes)]
    <2>1. CASE NextListener(c, "failed")
      BY <2>1, Noted DEF Outcomes
    <2>2. CASE UNCHANGED <<at, results>>
      BY <2>2 DEF Types
    <2> QED
      BY <2>1, <2>2 DEF startFlowFromHook
  <1>8. now' \in [Ticks -> Nat] /\ minute' \in Nat /\ epoch' \in Nat /\ throws' \in Nat
    BY <1>1 DEF NextListener, Types, startFlowFromHook, memory, local
  <1>9. c \in Posts /\ pc'[c] \in Delivering => at'[c] \in DOMAIN Listeners /\ act'[c] >= 1
    BY <1>1, DeliveryAssumption DEF NextListener, Types, startFlowFromHook, Delivering, local
  <1> QED
    BY <1>1, <1>2, <1>3, <1>4, <1>5, <1>6, <1>7, <1>8, <1>9 DEF Types

LEMMA handlerDeliveredTypes ==
  ASSUME Types, NEW c \in Posts, handlerDelivered(c)
  PROVE  Types'
  <1> USE DEF Goto, Loop
  <1>1. c \in Workers /\ Posts \cap Ticks = {} /\ Posts \subseteq Workers /\ Ticks \subseteq Workers
    BY DeliveryAssumption DEF Workers
  <1>2. runs' \subseteq Row
    BY <1>1 DEF NextListener, Types, handlerDelivered, rows
  <1>3. /\ pc' \in [Workers -> PostLabels \cup TickLabels]
        /\ \A v \in Workers : v # c => pc'[v] = pc[v] /\ at'[v] = at[v]
        /\ c \in Posts => pc'[c] \in PostLabels
        /\ c \in Ticks => pc'[c] \in TickLabels
    BY <1>1 DEF NextListener, Types, handlerDelivered, PostLabels, TickLabels, Ended, AtListener, Due, local
  <1>4. at' \in [Workers -> Nat \ {0}]
    BY <1>1 DEF NextListener, Types, handlerDelivered, local
  <1>5. act' \in [Posts -> Nat] /\ ran' \in [Posts -> BOOLEAN] /\ \A d \in Posts : d # c => act'[d] = act[d]
    BY <1>1 DEF NextListener, Types, handlerDelivered, local
  <1>6. stack' \in [Posts -> Seq(Nat)]
    BY <1>1 DEF NextListener, Types, handlerDelivered, local
  <1>7. results' \in [Posts -> Seq(Outcomes)]
    BY <1>1 DEF NextListener, Types, handlerDelivered, Outcomes, local
  <1>8. now' \in [Ticks -> Nat] /\ minute' \in Nat /\ epoch' \in Nat /\ throws' \in Nat
    BY <1>1 DEF NextListener, Types, handlerDelivered, memory, local
  <1>9. c \in Posts /\ pc'[c] \in Delivering => at'[c] \in DOMAIN Listeners /\ act'[c] >= 1
    BY <1>1, DeliveryAssumption DEF NextListener, Types, handlerDelivered, Delivering, local
  <1> QED
    BY <1>1, <1>2, <1>3, <1>4, <1>5, <1>6, <1>7, <1>8, <1>9 DEF Types

LEMMA deliveryThrowsTypes ==
  ASSUME Types, NEW c \in Posts, deliveryThrows(c)
  PROVE  Types'
  <1> USE DEF Goto, Loop
  <1>1. c \in Workers /\ Posts \cap Ticks = {} /\ Posts \subseteq Workers /\ Ticks \subseteq Workers
    BY DeliveryAssumption DEF Workers
  <1>2. runs' \subseteq Row
    BY <1>1 DEF NextListener, Types, deliveryThrows, rows
  <1>3. /\ pc' \in [Workers -> PostLabels \cup TickLabels]
        /\ \A v \in Workers : v # c => pc'[v] = pc[v] /\ at'[v] = at[v]
        /\ c \in Posts => pc'[c] \in PostLabels
        /\ c \in Ticks => pc'[c] \in TickLabels
    BY <1>1 DEF NextListener, Types, deliveryThrows, PostLabels, TickLabels, Ended, AtListener, Due, local
  <1>4. at' \in [Workers -> Nat \ {0}]
    <2>1. CASE NextListener(c, "failed")
      BY <2>1, Noted DEF Outcomes
    <2>2. CASE Loop(c, "triggers", 1) /\ results' = [results EXCEPT ![c] = <<>>]
      BY <1>1, <2>2 DEF Types
    <2> QED
      BY <2>1, <2>2 DEF deliveryThrows
  <1>5. act' \in [Posts -> Nat] /\ ran' \in [Posts -> BOOLEAN] /\ \A d \in Posts : d # c => act'[d] = act[d]
    BY <1>1 DEF NextListener, Types, deliveryThrows, local
  <1>6. stack' \in [Posts -> Seq(Nat)]
    BY <1>1 DEF NextListener, Types, deliveryThrows, local
  <1>7. results' \in [Posts -> Seq(Outcomes)]
    <2>1. CASE NextListener(c, "failed")
      BY <2>1, Noted DEF Outcomes
    <2>2. CASE Loop(c, "triggers", 1) /\ results' = [results EXCEPT ![c] = <<>>]
      BY <1>1, <2>2 DEF Types
    <2> QED
      BY <2>1, <2>2 DEF deliveryThrows
  <1>8. now' \in [Ticks -> Nat] /\ minute' \in Nat /\ epoch' \in Nat /\ throws' \in Nat
    BY <1>1 DEF NextListener, Types, deliveryThrows, memory, local
  <1>9. c \in Posts /\ pc'[c] \in Delivering => at'[c] \in DOMAIN Listeners /\ act'[c] >= 1
    BY <1>1, DeliveryAssumption DEF NextListener, Types, deliveryThrows, Delivering, local
  <1> QED
    BY <1>1, <1>2, <1>3, <1>4, <1>5, <1>6, <1>7, <1>8, <1>9 DEF Types

LEMMA executeTriggerTypes ==
  ASSUME Types, NEW c \in Posts, executeTrigger(c)
  PROVE  Types'
  <1> USE DEF Goto, Loop
  <1>1. c \in Workers /\ Posts \cap Ticks = {} /\ Posts \subseteq Workers /\ Ticks \subseteq Workers
    BY DeliveryAssumption DEF Workers
  <1>2. runs' \subseteq Row
    BY <1>1 DEF NextListener, Types, executeTrigger, rows
  <1>3. /\ pc' \in [Workers -> PostLabels \cup TickLabels]
        /\ \A v \in Workers : v # c => pc'[v] = pc[v] /\ at'[v] = at[v]
        /\ c \in Posts => pc'[c] \in PostLabels
        /\ c \in Ticks => pc'[c] \in TickLabels
    BY <1>1 DEF NextListener, Types, executeTrigger, PostLabels, TickLabels, Ended, AtListener, Due, local
  <1>4. at' \in [Workers -> Nat \ {0}]
    BY <1>1 DEF NextListener, Types, executeTrigger, local
  <1>5. act' \in [Posts -> Nat] /\ ran' \in [Posts -> BOOLEAN] /\ \A d \in Posts : d # c => act'[d] = act[d]
    BY <1>1 DEF NextListener, Types, executeTrigger, local
  <1>6. stack' \in [Posts -> Seq(Nat)]
    BY <1>1 DEF NextListener, Types, executeTrigger, local
  <1>7. results' \in [Posts -> Seq(Outcomes)]
    BY <1>1 DEF NextListener, Types, executeTrigger, Outcomes, local
  <1>8. now' \in [Ticks -> Nat] /\ minute' \in Nat /\ epoch' \in Nat /\ throws' \in Nat
    BY <1>1 DEF NextListener, Types, executeTrigger, memory, local
  <1>9. c \in Posts /\ pc'[c] \in Delivering => at'[c] \in DOMAIN Listeners /\ act'[c] >= 1
    BY <1>1, DeliveryAssumption DEF NextListener, Types, executeTrigger, Delivering, local
  <1> QED
    BY <1>1, <1>2, <1>3, <1>4, <1>5, <1>6, <1>7, <1>8, <1>9 DEF Types

LEMMA emitIntegrationFailureTypes ==
  ASSUME Types, NEW c \in Posts, emitIntegrationFailure(c)
  PROVE  Types'
  <1> USE DEF Goto, Loop
  <1>1. c \in Workers /\ Posts \cap Ticks = {} /\ Posts \subseteq Workers /\ Ticks \subseteq Workers
    BY DeliveryAssumption DEF Workers
  <1>2. runs' \subseteq Row
    BY <1>1 DEF NextListener, Types, emitIntegrationFailure, rows
  <1>3. /\ pc' \in [Workers -> PostLabels \cup TickLabels]
        /\ \A v \in Workers : v # c => pc'[v] = pc[v] /\ at'[v] = at[v]
        /\ c \in Posts => pc'[c] \in PostLabels
        /\ c \in Ticks => pc'[c] \in TickLabels
    BY <1>1 DEF NextListener, Types, emitIntegrationFailure, PostLabels, TickLabels, Ended, AtListener, Due, local
  <1>4. at' \in [Workers -> Nat \ {0}]
    BY <1>1 DEF NextListener, Types, emitIntegrationFailure, local
  <1>5. act' \in [Posts -> Nat] /\ ran' \in [Posts -> BOOLEAN] /\ \A d \in Posts : d # c => act'[d] = act[d]
    BY <1>1 DEF NextListener, Types, emitIntegrationFailure, local
  <1>6. stack' \in [Posts -> Seq(Nat)]
    BY <1>1 DEF NextListener, Types, emitIntegrationFailure, local
  <1>7. results' \in [Posts -> Seq(Outcomes)]
    BY <1>1 DEF NextListener, Types, emitIntegrationFailure, Outcomes, local
  <1>8. now' \in [Ticks -> Nat] /\ minute' \in Nat /\ epoch' \in Nat /\ throws' \in Nat
    BY <1>1 DEF NextListener, Types, emitIntegrationFailure, memory, local
  <1>9. c \in Posts /\ pc'[c] \in Delivering => at'[c] \in DOMAIN Listeners /\ act'[c] >= 1
    BY <1>1, DeliveryAssumption DEF NextListener, Types, emitIntegrationFailure, Delivering, local
  <1> QED
    BY <1>1, <1>2, <1>3, <1>4, <1>5, <1>6, <1>7, <1>8, <1>9 DEF Types

LEMMA dispatchDoneTypes ==
  ASSUME Types, NEW c \in Posts, dispatchDone(c)
  PROVE  Types'
  <1> USE DEF Goto, Loop
  <1>1. c \in Workers /\ Posts \cap Ticks = {} /\ Posts \subseteq Workers /\ Ticks \subseteq Workers
    BY DeliveryAssumption DEF Workers
  <1>2. runs' \subseteq Row
    BY <1>1 DEF NextListener, Types, dispatchDone, rows
  <1>3. /\ pc' \in [Workers -> PostLabels \cup TickLabels]
        /\ \A v \in Workers : v # c => pc'[v] = pc[v] /\ at'[v] = at[v]
        /\ c \in Posts => pc'[c] \in PostLabels
        /\ c \in Ticks => pc'[c] \in TickLabels
    BY <1>1 DEF NextListener, Types, dispatchDone, PostLabels, TickLabels, Ended, AtListener, Due, local
  <1>4. at' \in [Workers -> Nat \ {0}]
    <2>1. CASE stack[c] = << >>
      <3>1. at' \in {at, [at EXCEPT ![c] = 1]} /\ stack' = stack
        BY <2>1 DEF dispatchDone
      <3>2. CASE at' = at
        BY <3>1, <3>2 DEF Types
      <3>3. CASE at' = [at EXCEPT ![c] = 1]
        BY <1>1, <3>1, <3>3 DEF Types
      <3> QED
        BY <3>1, <3>2, <3>3
    <2>2. CASE stack[c] # << >>
      BY <2>2, PoppedTypes DEF dispatchDone
    <2> QED
      BY <2>1, <2>2
  <1>5. act' \in [Posts -> Nat] /\ ran' \in [Posts -> BOOLEAN] /\ \A d \in Posts : d # c => act'[d] = act[d]
    BY <1>1 DEF NextListener, Types, dispatchDone, local
  <1>6. stack' \in [Posts -> Seq(Nat)]
    <2>1. CASE stack[c] = << >>
      <3>1. at' \in {at, [at EXCEPT ![c] = 1]} /\ stack' = stack
        BY <2>1 DEF dispatchDone
      <3>2. CASE at' = at
        BY <3>1, <3>2 DEF Types
      <3>3. CASE at' = [at EXCEPT ![c] = 1]
        BY <1>1, <3>1, <3>3 DEF Types
      <3> QED
        BY <3>1, <3>2, <3>3
    <2>2. CASE stack[c] # << >>
      BY <2>2, PoppedTypes DEF dispatchDone
    <2> QED
      BY <2>1, <2>2
  <1>7. results' \in [Posts -> Seq(Outcomes)]
    BY <1>1 DEF NextListener, Types, dispatchDone, Outcomes, local
  <1>8. now' \in [Ticks -> Nat] /\ minute' \in Nat /\ epoch' \in Nat /\ throws' \in Nat
    BY <1>1 DEF NextListener, Types, dispatchDone, memory, local
  <1>9. c \in Posts /\ pc'[c] \in Delivering => at'[c] \in DOMAIN Listeners /\ act'[c] >= 1
    BY <1>1, DeliveryAssumption DEF NextListener, Types, dispatchDone, Delivering, local
  <1> QED
    BY <1>1, <1>2, <1>3, <1>4, <1>5, <1>6, <1>7, <1>8, <1>9 DEF Types

LEMMA recordDeliveryThrowsTypes ==
  ASSUME Types, NEW c \in Posts, recordDeliveryThrows(c)
  PROVE  Types'
  <1> USE DEF Goto, Loop
  <1>1. c \in Workers /\ Posts \cap Ticks = {} /\ Posts \subseteq Workers /\ Ticks \subseteq Workers
    BY DeliveryAssumption DEF Workers
  <1>2. runs' \subseteq Row
    BY <1>1 DEF NextListener, Types, recordDeliveryThrows, rows
  <1>3. /\ pc' \in [Workers -> PostLabels \cup TickLabels]
        /\ \A v \in Workers : v # c => pc'[v] = pc[v] /\ at'[v] = at[v]
        /\ c \in Posts => pc'[c] \in PostLabels
        /\ c \in Ticks => pc'[c] \in TickLabels
    BY <1>1 DEF NextListener, Types, recordDeliveryThrows, PostLabels, TickLabels, Ended, AtListener, Due, local
  <1>4. at' \in [Workers -> Nat \ {0}]
    <2>1. CASE stack[c] = << >>
      <3>1. at' \in {at, [at EXCEPT ![c] = 1]} /\ stack' = stack
        BY <2>1 DEF recordDeliveryThrows
      <3>2. CASE at' = at
        BY <3>1, <3>2 DEF Types
      <3>3. CASE at' = [at EXCEPT ![c] = 1]
        BY <1>1, <3>1, <3>3 DEF Types
      <3> QED
        BY <3>1, <3>2, <3>3
    <2>2. CASE stack[c] # << >>
      BY <2>2, PoppedTypes DEF recordDeliveryThrows
    <2> QED
      BY <2>1, <2>2
  <1>5. act' \in [Posts -> Nat] /\ ran' \in [Posts -> BOOLEAN] /\ \A d \in Posts : d # c => act'[d] = act[d]
    BY <1>1 DEF NextListener, Types, recordDeliveryThrows, local
  <1>6. stack' \in [Posts -> Seq(Nat)]
    <2>1. CASE stack[c] = << >>
      <3>1. at' \in {at, [at EXCEPT ![c] = 1]} /\ stack' = stack
        BY <2>1 DEF recordDeliveryThrows
      <3>2. CASE at' = at
        BY <3>1, <3>2 DEF Types
      <3>3. CASE at' = [at EXCEPT ![c] = 1]
        BY <1>1, <3>1, <3>3 DEF Types
      <3> QED
        BY <3>1, <3>2, <3>3
    <2>2. CASE stack[c] # << >>
      BY <2>2, PoppedTypes DEF recordDeliveryThrows
    <2> QED
      BY <2>1, <2>2
  <1>7. results' \in [Posts -> Seq(Outcomes)]
    BY <1>1 DEF NextListener, Types, recordDeliveryThrows, Outcomes, local
  <1>8. now' \in [Ticks -> Nat] /\ minute' \in Nat /\ epoch' \in Nat /\ throws' \in Nat
    BY <1>1 DEF NextListener, Types, recordDeliveryThrows, memory, local
  <1>9. c \in Posts /\ pc'[c] \in Delivering => at'[c] \in DOMAIN Listeners /\ act'[c] >= 1
    BY <1>1, DeliveryAssumption DEF NextListener, Types, recordDeliveryThrows, Delivering, local
  <1> QED
    BY <1>1, <1>2, <1>3, <1>4, <1>5, <1>6, <1>7, <1>8, <1>9 DEF Types

LEMMA matchFlowEventStartsThrowsTypes ==
  ASSUME Types, NEW c \in Posts, matchFlowEventStartsThrows(c)
  PROVE  Types'
  <1> USE DEF Goto, Loop
  <1>1. c \in Workers /\ Posts \cap Ticks = {} /\ Posts \subseteq Workers /\ Ticks \subseteq Workers
    BY DeliveryAssumption DEF Workers
  <1>2. runs' \subseteq Row
    BY <1>1 DEF NextListener, Types, matchFlowEventStartsThrows, rows
  <1>3. /\ pc' \in [Workers -> PostLabels \cup TickLabels]
        /\ \A v \in Workers : v # c => pc'[v] = pc[v] /\ at'[v] = at[v]
        /\ c \in Posts => pc'[c] \in PostLabels
        /\ c \in Ticks => pc'[c] \in TickLabels
    BY <1>1 DEF NextListener, Types, matchFlowEventStartsThrows, PostLabels, TickLabels, Ended, AtListener, Due, local
  <1>4. at' \in [Workers -> Nat \ {0}]
    BY <1>1 DEF NextListener, Types, matchFlowEventStartsThrows, local
  <1>5. act' \in [Posts -> Nat] /\ ran' \in [Posts -> BOOLEAN] /\ \A d \in Posts : d # c => act'[d] = act[d]
    BY <1>1 DEF NextListener, Types, matchFlowEventStartsThrows, local
  <1>6. stack' \in [Posts -> Seq(Nat)]
    BY <1>1 DEF NextListener, Types, matchFlowEventStartsThrows, local
  <1>7. results' \in [Posts -> Seq(Outcomes)]
    BY <1>1 DEF NextListener, Types, matchFlowEventStartsThrows, Outcomes, local
  <1>8. now' \in [Ticks -> Nat] /\ minute' \in Nat /\ epoch' \in Nat /\ throws' \in Nat
    BY <1>1 DEF NextListener, Types, matchFlowEventStartsThrows, memory, local
  <1>9. c \in Posts /\ pc'[c] \in Delivering => at'[c] \in DOMAIN Listeners /\ act'[c] >= 1
    BY <1>1, DeliveryAssumption DEF NextListener, Types, matchFlowEventStartsThrows, Delivering, local
  <1> QED
    BY <1>1, <1>2, <1>3, <1>4, <1>5, <1>6, <1>7, <1>8, <1>9 DEF Types

LEMMA AnswerTypes ==
  ASSUME Types, NEW c \in Posts, Answer(c)
  PROVE  Types'
  <1> USE DEF Goto, Loop
  <1>1. c \in Workers /\ Posts \cap Ticks = {} /\ Posts \subseteq Workers /\ Ticks \subseteq Workers
    BY DeliveryAssumption DEF Workers
  <1>2. runs' \subseteq Row
    BY <1>1 DEF NextListener, Types, Answer, rows
  <1>3. /\ pc' \in [Workers -> PostLabels \cup TickLabels]
        /\ \A v \in Workers : v # c => pc'[v] = pc[v] /\ at'[v] = at[v]
        /\ c \in Posts => pc'[c] \in PostLabels
        /\ c \in Ticks => pc'[c] \in TickLabels
    BY <1>1 DEF NextListener, Types, Answer, PostLabels, TickLabels, Ended, AtListener, Due, local
  <1>4. at' \in [Workers -> Nat \ {0}]
    BY <1>1 DEF NextListener, Types, Answer, local
  <1>5. act' \in [Posts -> Nat] /\ ran' \in [Posts -> BOOLEAN] /\ \A d \in Posts : d # c => act'[d] = act[d]
    BY <1>1 DEF NextListener, Types, Answer, local
  <1>6. stack' \in [Posts -> Seq(Nat)]
    BY <1>1 DEF NextListener, Types, Answer, local
  <1>7. results' \in [Posts -> Seq(Outcomes)]
    BY <1>1 DEF NextListener, Types, Answer, Outcomes, local
  <1>8. now' \in [Ticks -> Nat] /\ minute' \in Nat /\ epoch' \in Nat /\ throws' \in Nat
    BY <1>1 DEF NextListener, Types, Answer, memory, local
  <1>9. c \in Posts /\ pc'[c] \in Delivering => at'[c] \in DOMAIN Listeners /\ act'[c] >= 1
    BY <1>1, DeliveryAssumption DEF NextListener, Types, Answer, Delivering, local
  <1> QED
    BY <1>1, <1>2, <1>3, <1>4, <1>5, <1>6, <1>7, <1>8, <1>9 DEF Types

LEMMA startFlowRunTypes ==
  ASSUME Types, NEW w \in Workers, startFlowRun(w)
  PROVE  Types'
  <1> USE DEF Goto, Loop
  <1>1. w \in Workers /\ Posts \cap Ticks = {} /\ Posts \subseteq Workers /\ Ticks \subseteq Workers
    BY DeliveryAssumption DEF Workers
  <1>2. runs' \subseteq Row
    <2>1. List(w)[at[w]] \in FlowsOf(Flows) \cup FlowsOf(Scheduled)
      <3>1. List(w) \in Seq(STRING) /\ FlowsOf(List(w)) \subseteq FlowsOf(Flows) \cup FlowsOf(Scheduled)
        BY DeliveryAssumption DEF List
      <3>2. at[w] \in DOMAIN List(w)
        <4>1. at[w] \in Nat \ {0} /\ at[w] <= Len(List(w))
          BY <1>1 DEF startFlowRun, Types
        <4> QED
          BY <3>1, <4>1
      <3> QED
        BY <3>1, <3>2 DEF FlowsOf
    <2>2. UNCHANGED runs \/ runs' = runs \cup {Run(w, None, List(w)[at[w]])}
      BY DEF startFlowRun
    <2>3. Run(w, None, List(w)[at[w]]) \in Row
      BY <1>1, <2>1, RunTyped
    <2> QED
      BY <2>2, <2>3 DEF Types
  <1>3. /\ pc' \in [Workers -> PostLabels \cup TickLabels]
        /\ \A v \in Workers : v # w => pc'[v] = pc[v] /\ at'[v] = at[v]
        /\ w \in Posts => pc'[w] \in PostLabels
        /\ w \in Ticks => pc'[w] \in TickLabels
    BY <1>1 DEF NextListener, Types, startFlowRun, PostLabels, TickLabels, Ended, AtListener, Due, local
  <1>4. at' \in [Workers -> Nat \ {0}]
    <2>1. CASE at' = [at EXCEPT ![w] = at[w] + 1]
      BY <1>1, <2>1 DEF Types
    <2>2. CASE at' = at
      BY <2>2 DEF Types
    <2> QED
      BY <2>1, <2>2 DEF startFlowRun
  <1>5. act' \in [Posts -> Nat] /\ ran' \in [Posts -> BOOLEAN] /\ \A d \in Posts : d # w => act'[d] = act[d]
    BY <1>1 DEF NextListener, Types, startFlowRun, local
  <1>6. stack' \in [Posts -> Seq(Nat)]
    BY <1>1 DEF NextListener, Types, startFlowRun, local
  <1>7. results' \in [Posts -> Seq(Outcomes)]
    BY <1>1 DEF NextListener, Types, startFlowRun, Outcomes, local
  <1>8. now' \in [Ticks -> Nat] /\ minute' \in Nat /\ epoch' \in Nat /\ throws' \in Nat
    BY <1>1 DEF NextListener, Types, startFlowRun, memory, local
  <1>9. w \in Posts /\ pc'[w] \in Delivering => at'[w] \in DOMAIN Listeners /\ act'[w] >= 1
    BY <1>1, DeliveryAssumption DEF NextListener, Types, startFlowRun, Delivering, local
  <1> QED
    BY <1>1, <1>2, <1>3, <1>4, <1>5, <1>6, <1>7, <1>8, <1>9 DEF Types

LEMMA dispatchFlowStepsTypes ==
  ASSUME Types, NEW w \in Workers, dispatchFlowSteps(w)
  PROVE  Types'
  <1> USE DEF Goto, Loop
  <1>1. w \in Workers /\ Posts \cap Ticks = {} /\ Posts \subseteq Workers /\ Ticks \subseteq Workers
    BY DeliveryAssumption DEF Workers
  <1>2. runs' \subseteq Row
    BY <1>1 DEF NextListener, Types, dispatchFlowSteps, rows
  <1>3. /\ pc' \in [Workers -> PostLabels \cup TickLabels]
        /\ \A v \in Workers : v # w => pc'[v] = pc[v] /\ at'[v] = at[v]
        /\ w \in Posts => pc'[w] \in PostLabels
        /\ w \in Ticks => pc'[w] \in TickLabels
    BY <1>1 DEF NextListener, Types, dispatchFlowSteps, PostLabels, TickLabels, Ended, AtListener, Due, local
  <1>4. at' \in [Workers -> Nat \ {0}]
    BY <1>1 DEF NextListener, Types, dispatchFlowSteps, local
  <1>5. act' \in [Posts -> Nat] /\ ran' \in [Posts -> BOOLEAN] /\ \A d \in Posts : d # w => act'[d] = act[d]
    BY <1>1 DEF NextListener, Types, dispatchFlowSteps, local
  <1>6. stack' \in [Posts -> Seq(Nat)]
    BY <1>1 DEF NextListener, Types, dispatchFlowSteps, local
  <1>7. results' \in [Posts -> Seq(Outcomes)]
    BY <1>1 DEF NextListener, Types, dispatchFlowSteps, Outcomes, local
  <1>8. now' \in [Ticks -> Nat] /\ minute' \in Nat /\ epoch' \in Nat /\ throws' \in Nat
    BY <1>1 DEF NextListener, Types, dispatchFlowSteps, memory, local
  <1>9. w \in Posts /\ pc'[w] \in Delivering => at'[w] \in DOMAIN Listeners /\ act'[w] >= 1
    BY <1>1, DeliveryAssumption DEF NextListener, Types, dispatchFlowSteps, Delivering, local
  <1> QED
    BY <1>1, <1>2, <1>3, <1>4, <1>5, <1>6, <1>7, <1>8, <1>9 DEF Types

LEMMA tickTypes ==
  ASSUME Types, NEW k \in Ticks, tick(k)
  PROVE  Types'
  <1> USE DEF Goto, Loop
  <1>1. k \in Workers /\ Posts \cap Ticks = {} /\ Posts \subseteq Workers /\ Ticks \subseteq Workers
    BY DeliveryAssumption DEF Workers
  <1>2. runs' \subseteq Row
    BY <1>1 DEF NextListener, Types, tick, rows
  <1>3. /\ pc' \in [Workers -> PostLabels \cup TickLabels]
        /\ \A v \in Workers : v # k => pc'[v] = pc[v] /\ at'[v] = at[v]
        /\ k \in Posts => pc'[k] \in PostLabels
        /\ k \in Ticks => pc'[k] \in TickLabels
    BY <1>1 DEF NextListener, Types, tick, PostLabels, TickLabels, Ended, AtListener, Due, local
  <1>4. at' \in [Workers -> Nat \ {0}]
    BY <1>1 DEF NextListener, Types, tick, local
  <1>5. act' \in [Posts -> Nat] /\ ran' \in [Posts -> BOOLEAN] /\ \A d \in Posts : d # k => act'[d] = act[d]
    BY <1>1 DEF NextListener, Types, tick, local
  <1>6. stack' \in [Posts -> Seq(Nat)]
    BY <1>1 DEF NextListener, Types, tick, local
  <1>7. results' \in [Posts -> Seq(Outcomes)]
    BY <1>1 DEF NextListener, Types, tick, Outcomes, local
  <1>8. now' \in [Ticks -> Nat] /\ minute' \in Nat /\ epoch' \in Nat /\ throws' \in Nat
    BY <1>1 DEF NextListener, Types, tick, memory, local
  <1>9. k \in Posts /\ pc'[k] \in Delivering => at'[k] \in DOMAIN Listeners /\ act'[k] >= 1
    BY <1>1, DeliveryAssumption DEF NextListener, Types, tick, Delivering, local
  <1> QED
    BY <1>1, <1>2, <1>3, <1>4, <1>5, <1>6, <1>7, <1>8, <1>9 DEF Types

LEMMA dueScheduledFlowTypes ==
  ASSUME Types, NEW k \in Ticks, dueScheduledFlow(k)
  PROVE  Types'
  <1> USE DEF Goto, Loop
  <1>1. k \in Workers /\ Posts \cap Ticks = {} /\ Posts \subseteq Workers /\ Ticks \subseteq Workers
    BY DeliveryAssumption DEF Workers
  <1>2. runs' \subseteq Row
    BY <1>1 DEF NextListener, Types, dueScheduledFlow, rows
  <1>3. /\ pc' \in [Workers -> PostLabels \cup TickLabels]
        /\ \A v \in Workers : v # k => pc'[v] = pc[v] /\ at'[v] = at[v]
        /\ k \in Posts => pc'[k] \in PostLabels
        /\ k \in Ticks => pc'[k] \in TickLabels
    BY <1>1 DEF NextListener, Types, dueScheduledFlow, PostLabels, TickLabels, Ended, AtListener, Due, local
  <1>4. at' \in [Workers -> Nat \ {0}]
    <2>1. CASE at' = [at EXCEPT ![k] = at[k] + 1]
      BY <1>1, <2>1 DEF Types
    <2>2. CASE at' = at
      BY <2>2 DEF Types
    <2> QED
      BY <2>1, <2>2 DEF dueScheduledFlow
  <1>5. act' \in [Posts -> Nat] /\ ran' \in [Posts -> BOOLEAN] /\ \A d \in Posts : d # k => act'[d] = act[d]
    BY <1>1 DEF NextListener, Types, dueScheduledFlow, local
  <1>6. stack' \in [Posts -> Seq(Nat)]
    BY <1>1 DEF NextListener, Types, dueScheduledFlow, local
  <1>7. results' \in [Posts -> Seq(Outcomes)]
    BY <1>1 DEF NextListener, Types, dueScheduledFlow, Outcomes, local
  <1>8. now' \in [Ticks -> Nat] /\ minute' \in Nat /\ epoch' \in Nat /\ throws' \in Nat
    BY <1>1 DEF NextListener, Types, dueScheduledFlow, memory, local
  <1>9. k \in Posts /\ pc'[k] \in Delivering => at'[k] \in DOMAIN Listeners /\ act'[k] >= 1
    BY <1>1, DeliveryAssumption DEF NextListener, Types, dueScheduledFlow, Delivering, local
  <1> QED
    BY <1>1, <1>2, <1>3, <1>4, <1>5, <1>6, <1>7, <1>8, <1>9 DEF Types

LEMMA tickDoneTypes ==
  ASSUME Types, NEW k \in Ticks, tickDone(k)
  PROVE  Types'
  <1> USE DEF Goto, Loop
  <1>1. k \in Workers /\ Posts \cap Ticks = {} /\ Posts \subseteq Workers /\ Ticks \subseteq Workers
    BY DeliveryAssumption DEF Workers
  <1>2. runs' \subseteq Row
    BY <1>1 DEF NextListener, Types, tickDone, rows
  <1>3. /\ pc' \in [Workers -> PostLabels \cup TickLabels]
        /\ \A v \in Workers : v # k => pc'[v] = pc[v] /\ at'[v] = at[v]
        /\ k \in Posts => pc'[k] \in PostLabels
        /\ k \in Ticks => pc'[k] \in TickLabels
    BY <1>1 DEF NextListener, Types, tickDone, PostLabels, TickLabels, Ended, AtListener, Due, local
  <1>4. at' \in [Workers -> Nat \ {0}]
    BY <1>1 DEF NextListener, Types, tickDone, local
  <1>5. act' \in [Posts -> Nat] /\ ran' \in [Posts -> BOOLEAN] /\ \A d \in Posts : d # k => act'[d] = act[d]
    BY <1>1 DEF NextListener, Types, tickDone, local
  <1>6. stack' \in [Posts -> Seq(Nat)]
    BY <1>1 DEF NextListener, Types, tickDone, local
  <1>7. results' \in [Posts -> Seq(Outcomes)]
    BY <1>1 DEF NextListener, Types, tickDone, Outcomes, local
  <1>8. now' \in [Ticks -> Nat] /\ minute' \in Nat /\ epoch' \in Nat /\ throws' \in Nat
    BY <1>1 DEF NextListener, Types, tickDone, memory, local
  <1>9. k \in Posts /\ pc'[k] \in Delivering => at'[k] \in DOMAIN Listeners /\ act'[k] >= 1
    BY <1>1, DeliveryAssumption DEF NextListener, Types, tickDone, Delivering, local
  <1> QED
    BY <1>1, <1>2, <1>3, <1>4, <1>5, <1>6, <1>7, <1>8, <1>9 DEF Types

LEMMA RestartTypes ==
  ASSUME Types, Restart, throws' \in Nat
  PROVE  Types'
  <1>1. Posts \cap Ticks = {} /\ Posts \subseteq Workers /\ Ticks \subseteq Workers
    BY WorkersAre
  <1>2. pc' = [w \in Workers |-> IF pc[w] \in Ended \cup {"idle", "absent"} THEN pc[w] ELSE "dead"]
    BY DEF Restart
  <1>3. \A w \in Workers : pc'[w] \in {pc[w], "dead"}
    BY <1>2
  <1>4. pc' \in [Workers -> PostLabels \cup TickLabels]
    BY <1>2 DEF Types, PostLabels, TickLabels, Ended
  <1>5. /\ \A c \in Posts : pc'[c] \in PostLabels
        /\ \A k \in Ticks : pc'[k] \in TickLabels
    BY <1>1, <1>3 DEF Types, PostLabels, TickLabels, Ended
  <1>6. \A c \in Posts : pc'[c] \notin Delivering
    BY <1>1, <1>2 DEF Delivering, Ended
  <1>7. /\ UNCHANGED <<runs, at, act, ran, stack, results, now, minute>>
        /\ epoch' \in Nat
    BY DEF Restart, rows, Types
  <1> QED
    BY <1>4, <1>5, <1>6, <1>7 DEF Types

LEMMA MinuteTypes == Types /\ MinutePasses => Types'
  BY DEF Types, MinutePasses, rows, memory, local

-----------------------------------------------------------------------------
(* What the step of a worker leaves alone. *)

Frame(w) ==
    /\ pc[w] \notin Ended \cup {"absent"} /\ pc'[w] \notin {"idle", "absent"}
    /\ \A v \in Workers : v # w => pc'[v] = pc[v] /\ at'[v] = at[v]
    /\ \A d \in Posts : d # w => act'[d] = act[d] /\ ran'[d] = ran[d] /\ results'[d] = results[d]
    /\ \A j \in Ticks : j # w => now'[j] = now[j]
    /\ runs \subseteq runs' /\ invoked \subseteq invoked' /\ receipts \subseteq receipts'
    /\ throws' \in Nat /\ throws' >= throws /\ epoch' = epoch /\ minute' = minute

LEMMA journalEventFrame ==
  ASSUME Types, NEW c \in Posts, journalEvent(c)
  PROVE  Frame(c)
  <1> USE DEF Goto, Loop, NextListener
  <1>1. c \in Workers /\ Posts \cap Ticks = {} /\ Posts \subseteq Workers /\ Ticks \subseteq Workers
    BY WorkersAre DEF Workers
  <1>2. pc[c] \notin Ended \cup {"absent"} /\ pc'[c] \notin {"idle", "absent"}
    BY <1>1 DEF Types, journalEvent, Ended, Delivering
  <1>3. \A v \in Workers : v # c => pc'[v] = pc[v] /\ at'[v] = at[v]
    BY <1>1 DEF Types, journalEvent, local
  <1>4. \A d \in Posts : d # c => act'[d] = act[d] /\ ran'[d] = ran[d] /\ results'[d] = results[d]
    BY <1>1 DEF Types, journalEvent, local
  <1>5. \A j \in Ticks : j # c => now'[j] = now[j]
    BY <1>1 DEF Types, journalEvent, local
  <1>6. /\ runs \subseteq runs' /\ invoked \subseteq invoked' /\ receipts \subseteq receipts'
        /\ throws' \in Nat /\ throws' >= throws /\ epoch' = epoch /\ minute' = minute
    BY DEF Types, journalEvent, rows, memory, admitAndCreateRun
  <1> QED
    BY <1>2, <1>3, <1>4, <1>5, <1>6 DEF Frame

LEMMA dispatchHookFrame ==
  ASSUME Types, NEW c \in Posts, dispatchHook(c)
  PROVE  Frame(c)
  <1> USE DEF Goto, Loop, NextListener
  <1>1. c \in Workers /\ Posts \cap Ticks = {} /\ Posts \subseteq Workers /\ Ticks \subseteq Workers
    BY WorkersAre DEF Workers
  <1>2. pc[c] \notin Ended \cup {"absent"} /\ pc'[c] \notin {"idle", "absent"}
    BY <1>1 DEF Types, dispatchHook, Ended, Delivering
  <1>3. \A v \in Workers : v # c => pc'[v] = pc[v] /\ at'[v] = at[v]
    BY <1>1 DEF Types, dispatchHook, local
  <1>4. \A d \in Posts : d # c => act'[d] = act[d] /\ ran'[d] = ran[d] /\ results'[d] = results[d]
    BY <1>1 DEF Types, dispatchHook, local
  <1>5. \A j \in Ticks : j # c => now'[j] = now[j]
    BY <1>1 DEF Types, dispatchHook, local
  <1>6. /\ runs \subseteq runs' /\ invoked \subseteq invoked' /\ receipts \subseteq receipts'
        /\ throws' \in Nat /\ throws' >= throws /\ epoch' = epoch /\ minute' = minute
    BY DEF Types, dispatchHook, rows, memory, admitAndCreateRun
  <1> QED
    BY <1>2, <1>3, <1>4, <1>5, <1>6 DEF Frame

LEMMA dispatchHooksDoneFrame ==
  ASSUME Types, NEW c \in Posts, dispatchHooksDone(c)
  PROVE  Frame(c)
  <1> USE DEF Goto, Loop, NextListener
  <1>1. c \in Workers /\ Posts \cap Ticks = {} /\ Posts \subseteq Workers /\ Ticks \subseteq Workers
    BY WorkersAre DEF Workers
  <1>2. pc[c] \notin Ended \cup {"absent"} /\ pc'[c] \notin {"idle", "absent"}
    BY <1>1 DEF Types, dispatchHooksDone, Ended, Delivering
  <1>3. \A v \in Workers : v # c => pc'[v] = pc[v] /\ at'[v] = at[v]
    BY <1>1 DEF Types, dispatchHooksDone, local
  <1>4. \A d \in Posts : d # c => act'[d] = act[d] /\ ran'[d] = ran[d] /\ results'[d] = results[d]
    BY <1>1 DEF Types, dispatchHooksDone, local
  <1>5. \A j \in Ticks : j # c => now'[j] = now[j]
    BY <1>1 DEF Types, dispatchHooksDone, local
  <1>6. /\ runs \subseteq runs' /\ invoked \subseteq invoked' /\ receipts \subseteq receipts'
        /\ throws' \in Nat /\ throws' >= throws /\ epoch' = epoch /\ minute' = minute
    BY DEF Types, dispatchHooksDone, rows, memory, admitAndCreateRun
  <1> QED
    BY <1>2, <1>3, <1>4, <1>5, <1>6 DEF Frame

LEMMA createSessionFrame ==
  ASSUME Types, NEW c \in Posts, createSession(c)
  PROVE  Frame(c)
  <1> USE DEF Goto, Loop, NextListener
  <1>1. c \in Workers /\ Posts \cap Ticks = {} /\ Posts \subseteq Workers /\ Ticks \subseteq Workers
    BY WorkersAre DEF Workers
  <1>2. pc[c] \notin Ended \cup {"absent"} /\ pc'[c] \notin {"idle", "absent"}
    BY <1>1 DEF Types, createSession, Ended, Delivering
  <1>3. \A v \in Workers : v # c => pc'[v] = pc[v] /\ at'[v] = at[v]
    BY <1>1 DEF Types, createSession, local
  <1>4. \A d \in Posts : d # c => act'[d] = act[d] /\ ran'[d] = ran[d] /\ results'[d] = results[d]
    BY <1>1 DEF Types, createSession, local
  <1>5. \A j \in Ticks : j # c => now'[j] = now[j]
    BY <1>1 DEF Types, createSession, local
  <1>6. /\ runs \subseteq runs' /\ invoked \subseteq invoked' /\ receipts \subseteq receipts'
        /\ throws' \in Nat /\ throws' >= throws /\ epoch' = epoch /\ minute' = minute
    BY DEF Types, createSession, rows, memory, admitAndCreateRun
  <1> QED
    BY <1>2, <1>3, <1>4, <1>5, <1>6 DEF Frame

LEMMA CreateHookRunFrame ==
  ASSUME Types, NEW c \in Posts, CreateHookRun(c)
  PROVE  Frame(c)
  <1> USE DEF Goto, Loop, NextListener
  <1>1. c \in Workers /\ Posts \cap Ticks = {} /\ Posts \subseteq Workers /\ Ticks \subseteq Workers
    BY WorkersAre DEF Workers
  <1>2. pc[c] \notin Ended \cup {"absent"} /\ pc'[c] \notin {"idle", "absent"}
    BY <1>1 DEF Types, CreateHookRun, Ended, Delivering
  <1>3. \A v \in Workers : v # c => pc'[v] = pc[v] /\ at'[v] = at[v]
    BY <1>1 DEF Types, CreateHookRun, local
  <1>4. \A d \in Posts : d # c => act'[d] = act[d] /\ ran'[d] = ran[d] /\ results'[d] = results[d]
    BY <1>1 DEF Types, CreateHookRun, local
  <1>5. \A j \in Ticks : j # c => now'[j] = now[j]
    BY <1>1 DEF Types, CreateHookRun, local
  <1>6. /\ runs \subseteq runs' /\ invoked \subseteq invoked' /\ receipts \subseteq receipts'
        /\ throws' \in Nat /\ throws' >= throws /\ epoch' = epoch /\ minute' = minute
    BY DEF Types, CreateHookRun, rows, memory, admitAndCreateRun
  <1> QED
    BY <1>2, <1>3, <1>4, <1>5, <1>6 DEF Frame

LEMMA invokeActionFrame ==
  ASSUME Types, NEW c \in Posts, invokeAction(c)
  PROVE  Frame(c)
  <1> USE DEF Goto, Loop, NextListener
  <1>1. c \in Workers /\ Posts \cap Ticks = {} /\ Posts \subseteq Workers /\ Ticks \subseteq Workers
    BY WorkersAre DEF Workers
  <1>2. pc[c] \notin Ended \cup {"absent"} /\ pc'[c] \notin {"idle", "absent"}
    BY <1>1 DEF Types, invokeAction, Ended, Delivering
  <1>3. \A v \in Workers : v # c => pc'[v] = pc[v] /\ at'[v] = at[v]
    BY <1>1 DEF Types, invokeAction, local
  <1>4. \A d \in Posts : d # c => act'[d] = act[d] /\ ran'[d] = ran[d] /\ results'[d] = results[d]
    BY <1>1 DEF Types, invokeAction, local
  <1>5. \A j \in Ticks : j # c => now'[j] = now[j]
    BY <1>1 DEF Types, invokeAction, local
  <1>6. /\ runs \subseteq runs' /\ invoked \subseteq invoked' /\ receipts \subseteq receipts'
        /\ throws' \in Nat /\ throws' >= throws /\ epoch' = epoch /\ minute' = minute
    BY DEF Types, invokeAction, rows, memory, admitAndCreateRun
  <1> QED
    BY <1>2, <1>3, <1>4, <1>5, <1>6 DEF Frame

LEMMA startFlowFromHookFrame ==
  ASSUME Types, NEW c \in Posts, startFlowFromHook(c)
  PROVE  Frame(c)
  <1> USE DEF Goto, Loop, NextListener
  <1>1. c \in Workers /\ Posts \cap Ticks = {} /\ Posts \subseteq Workers /\ Ticks \subseteq Workers
    BY WorkersAre DEF Workers
  <1>2. pc[c] \notin Ended \cup {"absent"} /\ pc'[c] \notin {"idle", "absent"}
    BY <1>1 DEF Types, startFlowFromHook, Ended, Delivering
  <1>3. \A v \in Workers : v # c => pc'[v] = pc[v] /\ at'[v] = at[v]
    BY <1>1 DEF Types, startFlowFromHook, local
  <1>4. \A d \in Posts : d # c => act'[d] = act[d] /\ ran'[d] = ran[d] /\ results'[d] = results[d]
    BY <1>1 DEF Types, startFlowFromHook, local
  <1>5. \A j \in Ticks : j # c => now'[j] = now[j]
    BY <1>1 DEF Types, startFlowFromHook, local
  <1>6. /\ runs \subseteq runs' /\ invoked \subseteq invoked' /\ receipts \subseteq receipts'
        /\ throws' \in Nat /\ throws' >= throws /\ epoch' = epoch /\ minute' = minute
    BY DEF Types, startFlowFromHook, rows, memory, admitAndCreateRun
  <1> QED
    BY <1>2, <1>3, <1>4, <1>5, <1>6 DEF Frame

LEMMA handlerDeliveredFrame ==
  ASSUME Types, NEW c \in Posts, handlerDelivered(c)
  PROVE  Frame(c)
  <1> USE DEF Goto, Loop, NextListener
  <1>1. c \in Workers /\ Posts \cap Ticks = {} /\ Posts \subseteq Workers /\ Ticks \subseteq Workers
    BY WorkersAre DEF Workers
  <1>2. pc[c] \notin Ended \cup {"absent"} /\ pc'[c] \notin {"idle", "absent"}
    BY <1>1 DEF Types, handlerDelivered, Ended, Delivering
  <1>3. \A v \in Workers : v # c => pc'[v] = pc[v] /\ at'[v] = at[v]
    BY <1>1 DEF Types, handlerDelivered, local
  <1>4. \A d \in Posts : d # c => act'[d] = act[d] /\ ran'[d] = ran[d] /\ results'[d] = results[d]
    BY <1>1 DEF Types, handlerDelivered, local
  <1>5. \A j \in Ticks : j # c => now'[j] = now[j]
    BY <1>1 DEF Types, handlerDelivered, local
  <1>6. /\ runs \subseteq runs' /\ invoked \subseteq invoked' /\ receipts \subseteq receipts'
        /\ throws' \in Nat /\ throws' >= throws /\ epoch' = epoch /\ minute' = minute
    BY DEF Types, handlerDelivered, rows, memory, admitAndCreateRun
  <1> QED
    BY <1>2, <1>3, <1>4, <1>5, <1>6 DEF Frame

LEMMA deliveryThrowsFrame ==
  ASSUME Types, NEW c \in Posts, deliveryThrows(c)
  PROVE  Frame(c)
  <1> USE DEF Goto, Loop, NextListener
  <1>1. c \in Workers /\ Posts \cap Ticks = {} /\ Posts \subseteq Workers /\ Ticks \subseteq Workers
    BY WorkersAre DEF Workers
  <1>2. pc[c] \notin Ended \cup {"absent"} /\ pc'[c] \notin {"idle", "absent"}
    BY <1>1 DEF Types, deliveryThrows, Ended, Delivering
  <1>3. \A v \in Workers : v # c => pc'[v] = pc[v] /\ at'[v] = at[v]
    BY <1>1 DEF Types, deliveryThrows, local
  <1>4. \A d \in Posts : d # c => act'[d] = act[d] /\ ran'[d] = ran[d] /\ results'[d] = results[d]
    BY <1>1 DEF Types, deliveryThrows, local
  <1>5. \A j \in Ticks : j # c => now'[j] = now[j]
    BY <1>1 DEF Types, deliveryThrows, local
  <1>6. /\ runs \subseteq runs' /\ invoked \subseteq invoked' /\ receipts \subseteq receipts'
        /\ throws' \in Nat /\ throws' >= throws /\ epoch' = epoch /\ minute' = minute
    BY DEF Types, deliveryThrows, rows, memory, admitAndCreateRun
  <1> QED
    BY <1>2, <1>3, <1>4, <1>5, <1>6 DEF Frame

LEMMA executeTriggerFrame ==
  ASSUME Types, NEW c \in Posts, executeTrigger(c)
  PROVE  Frame(c)
  <1> USE DEF Goto, Loop, NextListener
  <1>1. c \in Workers /\ Posts \cap Ticks = {} /\ Posts \subseteq Workers /\ Ticks \subseteq Workers
    BY WorkersAre DEF Workers
  <1>2. pc[c] \notin Ended \cup {"absent"} /\ pc'[c] \notin {"idle", "absent"}
    BY <1>1 DEF Types, executeTrigger, Ended, Delivering
  <1>3. \A v \in Workers : v # c => pc'[v] = pc[v] /\ at'[v] = at[v]
    BY <1>1 DEF Types, executeTrigger, local
  <1>4. \A d \in Posts : d # c => act'[d] = act[d] /\ ran'[d] = ran[d] /\ results'[d] = results[d]
    BY <1>1 DEF Types, executeTrigger, local
  <1>5. \A j \in Ticks : j # c => now'[j] = now[j]
    BY <1>1 DEF Types, executeTrigger, local
  <1>6. /\ runs \subseteq runs' /\ invoked \subseteq invoked' /\ receipts \subseteq receipts'
        /\ throws' \in Nat /\ throws' >= throws /\ epoch' = epoch /\ minute' = minute
    BY DEF Types, executeTrigger, rows, memory, admitAndCreateRun
  <1> QED
    BY <1>2, <1>3, <1>4, <1>5, <1>6 DEF Frame

LEMMA emitIntegrationFailureFrame ==
  ASSUME Types, NEW c \in Posts, emitIntegrationFailure(c)
  PROVE  Frame(c)
  <1> USE DEF Goto, Loop, NextListener
  <1>1. c \in Workers /\ Posts \cap Ticks = {} /\ Posts \subseteq Workers /\ Ticks \subseteq Workers
    BY WorkersAre DEF Workers
  <1>2. pc[c] \notin Ended \cup {"absent"} /\ pc'[c] \notin {"idle", "absent"}
    BY <1>1 DEF Types, emitIntegrationFailure, Ended, Delivering
  <1>3. \A v \in Workers : v # c => pc'[v] = pc[v] /\ at'[v] = at[v]
    BY <1>1 DEF Types, emitIntegrationFailure, local
  <1>4. \A d \in Posts : d # c => act'[d] = act[d] /\ ran'[d] = ran[d] /\ results'[d] = results[d]
    BY <1>1 DEF Types, emitIntegrationFailure, local
  <1>5. \A j \in Ticks : j # c => now'[j] = now[j]
    BY <1>1 DEF Types, emitIntegrationFailure, local
  <1>6. /\ runs \subseteq runs' /\ invoked \subseteq invoked' /\ receipts \subseteq receipts'
        /\ throws' \in Nat /\ throws' >= throws /\ epoch' = epoch /\ minute' = minute
    BY DEF Types, emitIntegrationFailure, rows, memory, admitAndCreateRun
  <1> QED
    BY <1>2, <1>3, <1>4, <1>5, <1>6 DEF Frame

LEMMA dispatchDoneFrame ==
  ASSUME Types, NEW c \in Posts, dispatchDone(c)
  PROVE  Frame(c)
  <1> USE DEF Goto, Loop, NextListener
  <1>1. c \in Workers /\ Posts \cap Ticks = {} /\ Posts \subseteq Workers /\ Ticks \subseteq Workers
    BY WorkersAre DEF Workers
  <1>2. pc[c] \notin Ended \cup {"absent"} /\ pc'[c] \notin {"idle", "absent"}
    BY <1>1 DEF Types, dispatchDone, Ended, Delivering
  <1>3. \A v \in Workers : v # c => pc'[v] = pc[v] /\ at'[v] = at[v]
    BY <1>1 DEF Types, dispatchDone, local
  <1>4. \A d \in Posts : d # c => act'[d] = act[d] /\ ran'[d] = ran[d] /\ results'[d] = results[d]
    BY <1>1 DEF Types, dispatchDone, local
  <1>5. \A j \in Ticks : j # c => now'[j] = now[j]
    BY <1>1 DEF Types, dispatchDone, local
  <1>6. /\ runs \subseteq runs' /\ invoked \subseteq invoked' /\ receipts \subseteq receipts'
        /\ throws' \in Nat /\ throws' >= throws /\ epoch' = epoch /\ minute' = minute
    BY DEF Types, dispatchDone, rows, memory, admitAndCreateRun
  <1> QED
    BY <1>2, <1>3, <1>4, <1>5, <1>6 DEF Frame

LEMMA recordDeliveryThrowsFrame ==
  ASSUME Types, NEW c \in Posts, recordDeliveryThrows(c)
  PROVE  Frame(c)
  <1> USE DEF Goto, Loop, NextListener
  <1>1. c \in Workers /\ Posts \cap Ticks = {} /\ Posts \subseteq Workers /\ Ticks \subseteq Workers
    BY WorkersAre DEF Workers
  <1>2. pc[c] \notin Ended \cup {"absent"} /\ pc'[c] \notin {"idle", "absent"}
    BY <1>1 DEF Types, recordDeliveryThrows, Ended, Delivering
  <1>3. \A v \in Workers : v # c => pc'[v] = pc[v] /\ at'[v] = at[v]
    BY <1>1 DEF Types, recordDeliveryThrows, local
  <1>4. \A d \in Posts : d # c => act'[d] = act[d] /\ ran'[d] = ran[d] /\ results'[d] = results[d]
    BY <1>1 DEF Types, recordDeliveryThrows, local
  <1>5. \A j \in Ticks : j # c => now'[j] = now[j]
    BY <1>1 DEF Types, recordDeliveryThrows, local
  <1>6. /\ runs \subseteq runs' /\ invoked \subseteq invoked' /\ receipts \subseteq receipts'
        /\ throws' \in Nat /\ throws' >= throws /\ epoch' = epoch /\ minute' = minute
    BY DEF Types, recordDeliveryThrows, rows, memory, admitAndCreateRun
  <1> QED
    BY <1>2, <1>3, <1>4, <1>5, <1>6 DEF Frame

LEMMA matchFlowEventStartsThrowsFrame ==
  ASSUME Types, NEW c \in Posts, matchFlowEventStartsThrows(c)
  PROVE  Frame(c)
  <1> USE DEF Goto, Loop, NextListener
  <1>1. c \in Workers /\ Posts \cap Ticks = {} /\ Posts \subseteq Workers /\ Ticks \subseteq Workers
    BY WorkersAre DEF Workers
  <1>2. pc[c] \notin Ended \cup {"absent"} /\ pc'[c] \notin {"idle", "absent"}
    BY <1>1 DEF Types, matchFlowEventStartsThrows, Ended, Delivering
  <1>3. \A v \in Workers : v # c => pc'[v] = pc[v] /\ at'[v] = at[v]
    BY <1>1 DEF Types, matchFlowEventStartsThrows, local
  <1>4. \A d \in Posts : d # c => act'[d] = act[d] /\ ran'[d] = ran[d] /\ results'[d] = results[d]
    BY <1>1 DEF Types, matchFlowEventStartsThrows, local
  <1>5. \A j \in Ticks : j # c => now'[j] = now[j]
    BY <1>1 DEF Types, matchFlowEventStartsThrows, local
  <1>6. /\ runs \subseteq runs' /\ invoked \subseteq invoked' /\ receipts \subseteq receipts'
        /\ throws' \in Nat /\ throws' >= throws /\ epoch' = epoch /\ minute' = minute
    BY DEF Types, matchFlowEventStartsThrows, rows, memory, admitAndCreateRun
  <1> QED
    BY <1>2, <1>3, <1>4, <1>5, <1>6 DEF Frame

LEMMA AnswerFrame ==
  ASSUME Types, NEW c \in Posts, Answer(c)
  PROVE  Frame(c)
  <1> USE DEF Goto, Loop, NextListener
  <1>1. c \in Workers /\ Posts \cap Ticks = {} /\ Posts \subseteq Workers /\ Ticks \subseteq Workers
    BY WorkersAre DEF Workers
  <1>2. pc[c] \notin Ended \cup {"absent"} /\ pc'[c] \notin {"idle", "absent"}
    BY <1>1 DEF Types, Answer, Ended, Delivering
  <1>3. \A v \in Workers : v # c => pc'[v] = pc[v] /\ at'[v] = at[v]
    BY <1>1 DEF Types, Answer, local
  <1>4. \A d \in Posts : d # c => act'[d] = act[d] /\ ran'[d] = ran[d] /\ results'[d] = results[d]
    BY <1>1 DEF Types, Answer, local
  <1>5. \A j \in Ticks : j # c => now'[j] = now[j]
    BY <1>1 DEF Types, Answer, local
  <1>6. /\ runs \subseteq runs' /\ invoked \subseteq invoked' /\ receipts \subseteq receipts'
        /\ throws' \in Nat /\ throws' >= throws /\ epoch' = epoch /\ minute' = minute
    BY DEF Types, Answer, rows, memory, admitAndCreateRun
  <1> QED
    BY <1>2, <1>3, <1>4, <1>5, <1>6 DEF Frame

LEMMA startFlowRunFrame ==
  ASSUME Types, NEW w \in Workers, startFlowRun(w)
  PROVE  Frame(w)
  <1> USE DEF Goto, Loop, NextListener
  <1>1. w \in Workers /\ Posts \cap Ticks = {} /\ Posts \subseteq Workers /\ Ticks \subseteq Workers
    BY WorkersAre DEF Workers
  <1>2. pc[w] \notin Ended \cup {"absent"} /\ pc'[w] \notin {"idle", "absent"}
    BY <1>1 DEF Types, startFlowRun, Ended, Delivering
  <1>3. \A v \in Workers : v # w => pc'[v] = pc[v] /\ at'[v] = at[v]
    BY <1>1 DEF Types, startFlowRun, local
  <1>4. \A d \in Posts : d # w => act'[d] = act[d] /\ ran'[d] = ran[d] /\ results'[d] = results[d]
    BY <1>1 DEF Types, startFlowRun, local
  <1>5. \A j \in Ticks : j # w => now'[j] = now[j]
    BY <1>1 DEF Types, startFlowRun, local
  <1>6. /\ runs \subseteq runs' /\ invoked \subseteq invoked' /\ receipts \subseteq receipts'
        /\ throws' \in Nat /\ throws' >= throws /\ epoch' = epoch /\ minute' = minute
    BY DEF Types, startFlowRun, rows, memory, admitAndCreateRun
  <1> QED
    BY <1>2, <1>3, <1>4, <1>5, <1>6 DEF Frame

LEMMA dispatchFlowStepsFrame ==
  ASSUME Types, NEW w \in Workers, dispatchFlowSteps(w)
  PROVE  Frame(w)
  <1> USE DEF Goto, Loop, NextListener
  <1>1. w \in Workers /\ Posts \cap Ticks = {} /\ Posts \subseteq Workers /\ Ticks \subseteq Workers
    BY WorkersAre DEF Workers
  <1>2. pc[w] \notin Ended \cup {"absent"} /\ pc'[w] \notin {"idle", "absent"}
    BY <1>1 DEF Types, dispatchFlowSteps, Ended, Delivering
  <1>3. \A v \in Workers : v # w => pc'[v] = pc[v] /\ at'[v] = at[v]
    BY <1>1 DEF Types, dispatchFlowSteps, local
  <1>4. \A d \in Posts : d # w => act'[d] = act[d] /\ ran'[d] = ran[d] /\ results'[d] = results[d]
    BY <1>1 DEF Types, dispatchFlowSteps, local
  <1>5. \A j \in Ticks : j # w => now'[j] = now[j]
    BY <1>1 DEF Types, dispatchFlowSteps, local
  <1>6. /\ runs \subseteq runs' /\ invoked \subseteq invoked' /\ receipts \subseteq receipts'
        /\ throws' \in Nat /\ throws' >= throws /\ epoch' = epoch /\ minute' = minute
    BY DEF Types, dispatchFlowSteps, rows, memory, admitAndCreateRun
  <1> QED
    BY <1>2, <1>3, <1>4, <1>5, <1>6 DEF Frame

LEMMA tickFrame ==
  ASSUME Types, NEW k \in Ticks, tick(k)
  PROVE  Frame(k)
  <1> USE DEF Goto, Loop, NextListener
  <1>1. k \in Workers /\ Posts \cap Ticks = {} /\ Posts \subseteq Workers /\ Ticks \subseteq Workers
    BY WorkersAre DEF Workers
  <1>2. pc[k] \notin Ended \cup {"absent"} /\ pc'[k] \notin {"idle", "absent"}
    BY <1>1 DEF Types, tick, Ended, Delivering
  <1>3. \A v \in Workers : v # k => pc'[v] = pc[v] /\ at'[v] = at[v]
    BY <1>1 DEF Types, tick, local
  <1>4. \A d \in Posts : d # k => act'[d] = act[d] /\ ran'[d] = ran[d] /\ results'[d] = results[d]
    BY <1>1 DEF Types, tick, local
  <1>5. \A j \in Ticks : j # k => now'[j] = now[j]
    BY <1>1 DEF Types, tick, local
  <1>6. /\ runs \subseteq runs' /\ invoked \subseteq invoked' /\ receipts \subseteq receipts'
        /\ throws' \in Nat /\ throws' >= throws /\ epoch' = epoch /\ minute' = minute
    BY DEF Types, tick, rows, memory, admitAndCreateRun
  <1> QED
    BY <1>2, <1>3, <1>4, <1>5, <1>6 DEF Frame

LEMMA dueScheduledFlowFrame ==
  ASSUME Types, NEW k \in Ticks, dueScheduledFlow(k)
  PROVE  Frame(k)
  <1> USE DEF Goto, Loop, NextListener
  <1>1. k \in Workers /\ Posts \cap Ticks = {} /\ Posts \subseteq Workers /\ Ticks \subseteq Workers
    BY WorkersAre DEF Workers
  <1>2. pc[k] \notin Ended \cup {"absent"} /\ pc'[k] \notin {"idle", "absent"}
    BY <1>1 DEF Types, dueScheduledFlow, Ended, Delivering
  <1>3. \A v \in Workers : v # k => pc'[v] = pc[v] /\ at'[v] = at[v]
    BY <1>1 DEF Types, dueScheduledFlow, local
  <1>4. \A d \in Posts : d # k => act'[d] = act[d] /\ ran'[d] = ran[d] /\ results'[d] = results[d]
    BY <1>1 DEF Types, dueScheduledFlow, local
  <1>5. \A j \in Ticks : j # k => now'[j] = now[j]
    BY <1>1 DEF Types, dueScheduledFlow, local
  <1>6. /\ runs \subseteq runs' /\ invoked \subseteq invoked' /\ receipts \subseteq receipts'
        /\ throws' \in Nat /\ throws' >= throws /\ epoch' = epoch /\ minute' = minute
    BY DEF Types, dueScheduledFlow, rows, memory, admitAndCreateRun
  <1> QED
    BY <1>2, <1>3, <1>4, <1>5, <1>6 DEF Frame

LEMMA tickDoneFrame ==
  ASSUME Types, NEW k \in Ticks, tickDone(k)
  PROVE  Frame(k)
  <1> USE DEF Goto, Loop, NextListener
  <1>1. k \in Workers /\ Posts \cap Ticks = {} /\ Posts \subseteq Workers /\ Ticks \subseteq Workers
    BY WorkersAre DEF Workers
  <1>2. pc[k] \notin Ended \cup {"absent"} /\ pc'[k] \notin {"idle", "absent"}
    BY <1>1 DEF Types, tickDone, Ended, Delivering
  <1>3. \A v \in Workers : v # k => pc'[v] = pc[v] /\ at'[v] = at[v]
    BY <1>1 DEF Types, tickDone, local
  <1>4. \A d \in Posts : d # k => act'[d] = act[d] /\ ran'[d] = ran[d] /\ results'[d] = results[d]
    BY <1>1 DEF Types, tickDone, local
  <1>5. \A j \in Ticks : j # k => now'[j] = now[j]
    BY <1>1 DEF Types, tickDone, local
  <1>6. /\ runs \subseteq runs' /\ invoked \subseteq invoked' /\ receipts \subseteq receipts'
        /\ throws' \in Nat /\ throws' >= throws /\ epoch' = epoch /\ minute' = minute
    BY DEF Types, tickDone, rows, memory, admitAndCreateRun
  <1> QED
    BY <1>2, <1>3, <1>4, <1>5, <1>6 DEF Frame

-----------------------------------------------------------------------------
(* Deliveries. *)

LEMMA WaitedKept ==
  ASSUME Types, Waited, NEW w \in Workers, Frame(w),
         w \in Posts /\ pc[w] = "idle" => \A b \in After[w] : pc[b] \in Ended
  PROVE  Waited'
  <1>1. After \in [Posts -> SUBSET Posts] /\ Posts \subseteq Workers
    BY DeliveryAssumption, WorkersAre
  <1> SUFFICES ASSUME NEW c \in Posts, pc'[c] \notin {"idle", "absent"}, NEW b \in After[c]
               PROVE  pc'[b] \in Ended
    BY DEF Waited
  <1>2. b \in Workers
    BY <1>1
  <1>3. pc[b] \in Ended
    BY <1>1 DEF Waited, Frame
  <1> QED
    BY <1>2, <1>3 DEF Frame

\* One post of an event is at work.
LEMMA OneAtWork ==
  ASSUME Types, Waited, Redelivered, NEW b \in Posts, NEW c \in Posts, Event[b] = Event[c],
         pc[b] \notin Ended \cup {"idle", "absent"}, pc[c] \notin Ended \cup {"idle", "absent"}
  PROVE  b = c
  BY DEF Waited, Redelivered

\* A step that makes no run of a delivery.
LEMMA DeliveriesKept ==
  ASSUME Types, Deliveries, NEW w \in Workers, Frame(w),
         w \in Posts /\ pc[w] = "idle" => \A b \in After[w] : pc[b] \in Ended,
         \A r \in runs' : r \in runs \/ r.key = None,
         w \in Posts /\ pc'[w] \in Delivering => pc[w] \in Delivering /\ ran'[w] = ran[w] /\ at'[w] = at[w]
  PROVE  Deliveries'
  <1>1. Posts \subseteq Workers /\ None \notin Deliverable
    BY WorkersAre, DeliveryAssumption DEF Deliverable
  <1>2. Waited'
    BY WaitedKept DEF Deliveries
  <1>3. OneRunPerDelivery'
    BY DEF Deliveries, OneRunPerDelivery
  <1>4. ASSUME NEW c \in Posts, pc'[c] \in Delivering
        PROVE  ran'[c] <=> FindRunByIdempotencyKey(Key(c))'
    <2>1. pc[c] \in Delivering /\ ran'[c] = ran[c] /\ at'[c] = at[c]
      BY <1>1, <1>4 DEF Frame
    <2>2. Key(c) \in Deliverable /\ Key(c)' = Key(c)
      BY <2>1, KeyTyped DEF Key
    <2> DEFINE key == Key(c)
    <2>3. key # None
      BY <1>1, <2>2
    <2>4. ran[c] <=> \E r \in runs : r.key = key
      BY <2>1 DEF Deliveries, FindRunByIdempotencyKey
    <2> HIDE DEF key
    <2>5. (\E r \in runs' : r.key = key) <=> (\E r \in runs : r.key = key)
      BY <2>3 DEF Frame
    <2>6. FindRunByIdempotencyKey(Key(c))' <=> \E r \in runs' : r.key = key
      BY <2>2 DEF FindRunByIdempotencyKey, key
    <2> QED
      BY <2>1, <2>4, <2>5, <2>6
  <1> QED
    BY <1>2, <1>3, <1>4 DEF Deliveries

LEMMA dispatchHookDeliveries ==
  ASSUME Types, Deliveries, NEW c \in Posts, dispatchHook(c), Frame(c)
  PROVE  Deliveries'
  <1>1. c \in Workers /\ pc[c] = "hooks" /\ runs' = runs /\ ran' = [ran EXCEPT ![c] = FALSE]
    BY WorkersAre DEF dispatchHook, rows
  <1>2. Waited' /\ OneRunPerDelivery'
    BY <1>1, WaitedKept DEF Deliveries, OneRunPerDelivery
  <1>3. ASSUME NEW d \in Posts, pc'[d] \in Delivering
        PROVE  ran'[d] <=> FindRunByIdempotencyKey(Key(d))'
    <2>1. CASE d = c
      <3>1. ~ ran'[c]
        BY <1>1 DEF Types
      <3>2. ~ FindRunByIdempotencyKey(Key(c)) /\ at' = at
        <4>1. CASE FindRunByIdempotencyKey(Key(c))
          <5>1. pc'[c] = "hooks"
            BY <4>1, Noted DEF dispatchHook, Outcomes
          <5> QED
            BY <1>3, <2>1, <5>1 DEF Delivering
        <4> QED
          BY <4>1 DEF dispatchHook
      <3>3. ~ FindRunByIdempotencyKey(Key(c))'
        BY <1>1, <3>2 DEF FindRunByIdempotencyKey, Key
      <3> QED
        BY <2>1, <3>1, <3>3
    <2>2. CASE d # c
      <3>1. pc[d] \in Delivering /\ ran'[d] = ran[d] /\ at'[d] = at[d]
        BY <1>3, <2>2, WorkersAre DEF Frame
      <3> QED
        BY <1>1, <3>1 DEF Deliveries, FindRunByIdempotencyKey, Key
    <2> QED
      BY <2>1, <2>2
  <1> QED
    BY <1>2, <1>3 DEF Deliveries

\* A step that makes the delivery's run, or finds it.
LEMMA RunMade ==
  ASSUME Types, Deliveries, Redelivered, NEW c \in Posts, Frame(c), pc[c] = "act", pc'[c] = "act",
         at'[c] = at[c], ran'[c] = TRUE, NEW flow,
         \/ runs' = runs /\ FindRunByIdempotencyKey(Key(c))
         \/ runs' = runs \cup {Run(c, Key(c), flow)} /\ ~ FindRunByIdempotencyKey(Key(c))
  PROVE  Deliveries'
  <1>1. c \in Workers /\ Waited'
    BY WorkersAre, WaitedKept DEF Deliveries
  <1> DEFINE run == Run(c, Key(c), flow)
             key == Key(c)
  <1>2. run.key = key
    BY DEF Run
  <1>3. \/ runs' = runs /\ \E r \in runs : r.key = key
        \/ runs' = runs \cup {run} /\ ~ \E r \in runs : r.key = key
    BY DEF FindRunByIdempotencyKey
  <1>4. Key(c)' = key
    BY DEF Key
  <1>5. key[1] = Event[c]
    BY DEF Key
  <1> HIDE DEF run, key
  <1>6. OneRunPerDelivery'
    BY <1>2, <1>3 DEF Deliveries, OneRunPerDelivery
  <1>7. ASSUME NEW d \in Posts, pc'[d] \in Delivering
        PROVE  ran'[d] <=> FindRunByIdempotencyKey(Key(d))'
    <2>1. CASE d = c
      BY <1>2, <1>3, <1>4, <2>1 DEF FindRunByIdempotencyKey
    <2>2. CASE d # c
      <3>1. pc[d] \in Delivering /\ ran'[d] = ran[d] /\ at'[d] = at[d]
        BY <1>7, <2>2, WorkersAre DEF Frame
      <3>2. Event[d] # Event[c]
        BY <2>2, <3>1, OneAtWork DEF Deliveries, Delivering, Ended
      <3>3. Key(d) # key /\ Key(d)' = Key(d)
        BY <1>5, <3>1, <3>2 DEF Key
      <3>4. FindRunByIdempotencyKey(Key(d))' <=> FindRunByIdempotencyKey(Key(d))
        BY <1>2, <1>3, <3>3 DEF FindRunByIdempotencyKey
      <3> QED
        BY <3>1, <3>4 DEF Deliveries
    <2> QED
      BY <2>1, <2>2
  <1> QED
    BY <1>1, <1>6, <1>7 DEF Deliveries

LEMMA CreateHookRunDeliveries ==
  ASSUME Types, Deliveries, Redelivered, NEW c \in Posts, CreateHookRun(c), Frame(c)
  PROVE  Deliveries'
  <1>1. c \in Workers /\ pc[c] = "act" /\ ~ ran[c]
    BY WorkersAre DEF CreateHookRun
  <1>2. CASE admitAndCreateRun(c) /\ ran' = [ran EXCEPT ![c] = TRUE] /\ UNCHANGED <<pc, at, results>>
    <2>1. ~ FindRunByIdempotencyKey(Key(c))
      BY <1>1 DEF Deliveries, Delivering
    <2> QED
      BY <1>1, <1>2, <2>1, RunMade DEF admitAndCreateRun, Types
  <1>3. CASE NextListener(c, "failed") /\ UNCHANGED <<runs, ran>>
    <2>1. pc'[c] = "hooks"
      BY <1>3, Noted DEF Outcomes
    <2> QED
      BY <1>1, <1>3, <2>1, DeliveriesKept DEF Delivering
  <1> QED
    BY <1>2, <1>3 DEF CreateHookRun

LEMMA startFlowFromHookDeliveries ==
  ASSUME Types, Deliveries, Redelivered, NEW c \in Posts, startFlowFromHook(c), Frame(c)
  PROVE  Deliveries'
  <1>1. c \in Workers /\ pc[c] = "act"
    BY WorkersAre DEF startFlowFromHook
  <1>2. CASE /\ IF FindRunByIdempotencyKey(Key(c)) THEN UNCHANGED runs
                ELSE runs' = runs \cup {Run(c, Key(c), "hook_flow")}
             /\ ran' = [ran EXCEPT ![c] = TRUE] /\ UNCHANGED <<pc, at, results>>
    BY <1>1, <1>2, RunMade DEF Types
  <1>3. CASE NextListener(c, "failed") /\ UNCHANGED <<runs, ran, act>>
    <2>1. pc'[c] = "hooks"
      BY <1>3, Noted DEF Outcomes
    <2> QED
      BY <1>1, <1>3, <2>1, DeliveriesKept DEF Delivering
  <1> QED
    BY <1>2, <1>3 DEF startFlowFromHook

LEMMA RestartDeliveries ==
  ASSUME Types, Deliveries, Restart
  PROVE  Deliveries'
  <1>1. Posts \subseteq Workers /\ After \in [Posts -> SUBSET Posts]
    BY WorkersAre, DeliveryAssumption
  <1>2. pc' = [w \in Workers |-> IF pc[w] \in Ended \cup {"idle", "absent"} THEN pc[w] ELSE "dead"]
    BY DEF Restart
  <1>3. \A c \in Posts : pc'[c] \notin Delivering
    BY <1>1, <1>2 DEF Delivering, Ended
  <1>4. \A w \in Workers : (pc[w] \in Ended => pc'[w] \in Ended)
                           /\ (pc[w] \in {"idle", "absent"} => pc'[w] = pc[w])
    BY <1>2 DEF Ended
  <1>5. Waited'
    BY <1>1, <1>4 DEF Deliveries, Waited
  <1>6. OneRunPerDelivery'
    BY DEF Deliveries, OneRunPerDelivery, Restart, rows
  <1> QED
    BY <1>3, <1>5, <1>6 DEF Deliveries

LEMMA journalEventDeliveries ==
  ASSUME Types, Deliveries, NEW c \in Posts, journalEvent(c), Frame(c)
  PROVE  Deliveries'
  <1> USE DEF Goto, Loop, NextListener
  <1>1. c \in Workers /\ (c \in Posts => c \notin Ticks)
    BY WorkersAre DEF Workers
  <1>2. c \in Posts /\ pc[c] = "idle" => \A b \in After[c] : pc[b] \in Ended
    BY <1>1 DEF journalEvent, Delivering
  <1>3. \A r \in runs' : r \in runs \/ r.key = None
    BY DEF journalEvent, rows, Run
  <1>4. c \in Posts /\ pc'[c] \in Delivering => pc[c] \in Delivering /\ ran'[c] = ran[c] /\ at'[c] = at[c]
    BY <1>1 DEF journalEvent, Delivering, Types, local
  <1> QED
    BY <1>1, <1>2, <1>3, <1>4, DeliveriesKept

LEMMA dispatchHooksDoneDeliveries ==
  ASSUME Types, Deliveries, NEW c \in Posts, dispatchHooksDone(c), Frame(c)
  PROVE  Deliveries'
  <1> USE DEF Goto, Loop, NextListener
  <1>1. c \in Workers /\ (c \in Posts => c \notin Ticks)
    BY WorkersAre DEF Workers
  <1>2. c \in Posts /\ pc[c] = "idle" => \A b \in After[c] : pc[b] \in Ended
    BY <1>1 DEF dispatchHooksDone, Delivering
  <1>3. \A r \in runs' : r \in runs \/ r.key = None
    BY DEF dispatchHooksDone, rows, Run
  <1>4. c \in Posts /\ pc'[c] \in Delivering => pc[c] \in Delivering /\ ran'[c] = ran[c] /\ at'[c] = at[c]
    BY <1>1 DEF dispatchHooksDone, Delivering, Types, local
  <1> QED
    BY <1>1, <1>2, <1>3, <1>4, DeliveriesKept

LEMMA createSessionDeliveries ==
  ASSUME Types, Deliveries, NEW c \in Posts, createSession(c), Frame(c)
  PROVE  Deliveries'
  <1> USE DEF Goto, Loop, NextListener
  <1>1. c \in Workers /\ (c \in Posts => c \notin Ticks)
    BY WorkersAre DEF Workers
  <1>2. c \in Posts /\ pc[c] = "idle" => \A b \in After[c] : pc[b] \in Ended
    BY <1>1 DEF createSession, Delivering
  <1>3. \A r \in runs' : r \in runs \/ r.key = None
    BY DEF createSession, rows, Run
  <1>4. c \in Posts /\ pc'[c] \in Delivering => pc[c] \in Delivering /\ ran'[c] = ran[c] /\ at'[c] = at[c]
    BY <1>1 DEF createSession, Delivering, Types, local
  <1> QED
    BY <1>1, <1>2, <1>3, <1>4, DeliveriesKept

LEMMA invokeActionDeliveries ==
  ASSUME Types, Deliveries, NEW c \in Posts, invokeAction(c), Frame(c)
  PROVE  Deliveries'
  <1> USE DEF Goto, Loop, NextListener
  <1>1. c \in Workers /\ (c \in Posts => c \notin Ticks)
    BY WorkersAre DEF Workers
  <1>2. c \in Posts /\ pc[c] = "idle" => \A b \in After[c] : pc[b] \in Ended
    BY <1>1 DEF invokeAction, Delivering
  <1>3. \A r \in runs' : r \in runs \/ r.key = None
    BY DEF invokeAction, rows, Run
  <1>4. c \in Posts /\ pc'[c] \in Delivering => pc[c] \in Delivering /\ ran'[c] = ran[c] /\ at'[c] = at[c]
    BY <1>1 DEF invokeAction, Delivering, Types, local
  <1> QED
    BY <1>1, <1>2, <1>3, <1>4, DeliveriesKept

LEMMA handlerDeliveredDeliveries ==
  ASSUME Types, Deliveries, NEW c \in Posts, handlerDelivered(c), Frame(c)
  PROVE  Deliveries'
  <1> USE DEF Goto, Loop, NextListener
  <1>1. c \in Workers /\ (c \in Posts => c \notin Ticks)
    BY WorkersAre DEF Workers
  <1>2. c \in Posts /\ pc[c] = "idle" => \A b \in After[c] : pc[b] \in Ended
    BY <1>1 DEF handlerDelivered, Delivering
  <1>3. \A r \in runs' : r \in runs \/ r.key = None
    BY DEF handlerDelivered, rows, Run
  <1>4. c \in Posts /\ pc'[c] \in Delivering => pc[c] \in Delivering /\ ran'[c] = ran[c] /\ at'[c] = at[c]
    BY <1>1 DEF handlerDelivered, Delivering, Types, local
  <1> QED
    BY <1>1, <1>2, <1>3, <1>4, DeliveriesKept

LEMMA deliveryThrowsDeliveries ==
  ASSUME Types, Deliveries, NEW c \in Posts, deliveryThrows(c), Frame(c)
  PROVE  Deliveries'
  <1> USE DEF Goto, Loop, NextListener
  <1>1. c \in Workers /\ (c \in Posts => c \notin Ticks)
    BY WorkersAre DEF Workers
  <1>2. c \in Posts /\ pc[c] = "idle" => \A b \in After[c] : pc[b] \in Ended
    BY <1>1 DEF deliveryThrows, Delivering
  <1>3. \A r \in runs' : r \in runs \/ r.key = None
    BY DEF deliveryThrows, rows, Run
  <1>4. c \in Posts /\ pc'[c] \in Delivering => pc[c] \in Delivering /\ ran'[c] = ran[c] /\ at'[c] = at[c]
    BY <1>1 DEF deliveryThrows, Delivering, Types, local
  <1> QED
    BY <1>1, <1>2, <1>3, <1>4, DeliveriesKept

LEMMA executeTriggerDeliveries ==
  ASSUME Types, Deliveries, NEW c \in Posts, executeTrigger(c), Frame(c)
  PROVE  Deliveries'
  <1> USE DEF Goto, Loop, NextListener
  <1>1. c \in Workers /\ (c \in Posts => c \notin Ticks)
    BY WorkersAre DEF Workers
  <1>2. c \in Posts /\ pc[c] = "idle" => \A b \in After[c] : pc[b] \in Ended
    BY <1>1 DEF executeTrigger, Delivering
  <1>3. \A r \in runs' : r \in runs \/ r.key = None
    BY DEF executeTrigger, rows, Run
  <1>4. c \in Posts /\ pc'[c] \in Delivering => pc[c] \in Delivering /\ ran'[c] = ran[c] /\ at'[c] = at[c]
    BY <1>1 DEF executeTrigger, Delivering, Types, local
  <1> QED
    BY <1>1, <1>2, <1>3, <1>4, DeliveriesKept

LEMMA emitIntegrationFailureDeliveries ==
  ASSUME Types, Deliveries, NEW c \in Posts, emitIntegrationFailure(c), Frame(c)
  PROVE  Deliveries'
  <1> USE DEF Goto, Loop, NextListener
  <1>1. c \in Workers /\ (c \in Posts => c \notin Ticks)
    BY WorkersAre DEF Workers
  <1>2. c \in Posts /\ pc[c] = "idle" => \A b \in After[c] : pc[b] \in Ended
    BY <1>1 DEF emitIntegrationFailure, Delivering
  <1>3. \A r \in runs' : r \in runs \/ r.key = None
    BY DEF emitIntegrationFailure, rows, Run
  <1>4. c \in Posts /\ pc'[c] \in Delivering => pc[c] \in Delivering /\ ran'[c] = ran[c] /\ at'[c] = at[c]
    BY <1>1 DEF emitIntegrationFailure, Delivering, Types, local
  <1> QED
    BY <1>1, <1>2, <1>3, <1>4, DeliveriesKept

LEMMA dispatchDoneDeliveries ==
  ASSUME Types, Deliveries, NEW c \in Posts, dispatchDone(c), Frame(c)
  PROVE  Deliveries'
  <1> USE DEF Goto, Loop, NextListener
  <1>1. c \in Workers /\ (c \in Posts => c \notin Ticks)
    BY WorkersAre DEF Workers
  <1>2. c \in Posts /\ pc[c] = "idle" => \A b \in After[c] : pc[b] \in Ended
    BY <1>1 DEF dispatchDone, Delivering
  <1>3. \A r \in runs' : r \in runs \/ r.key = None
    BY DEF dispatchDone, rows, Run
  <1>4. c \in Posts /\ pc'[c] \in Delivering => pc[c] \in Delivering /\ ran'[c] = ran[c] /\ at'[c] = at[c]
    BY <1>1 DEF dispatchDone, Delivering, Types, local
  <1> QED
    BY <1>1, <1>2, <1>3, <1>4, DeliveriesKept

LEMMA recordDeliveryThrowsDeliveries ==
  ASSUME Types, Deliveries, NEW c \in Posts, recordDeliveryThrows(c), Frame(c)
  PROVE  Deliveries'
  <1> USE DEF Goto, Loop, NextListener
  <1>1. c \in Workers /\ (c \in Posts => c \notin Ticks)
    BY WorkersAre DEF Workers
  <1>2. c \in Posts /\ pc[c] = "idle" => \A b \in After[c] : pc[b] \in Ended
    BY <1>1 DEF recordDeliveryThrows, Delivering
  <1>3. \A r \in runs' : r \in runs \/ r.key = None
    BY DEF recordDeliveryThrows, rows, Run
  <1>4. c \in Posts /\ pc'[c] \in Delivering => pc[c] \in Delivering /\ ran'[c] = ran[c] /\ at'[c] = at[c]
    BY <1>1 DEF recordDeliveryThrows, Delivering, Types, local
  <1> QED
    BY <1>1, <1>2, <1>3, <1>4, DeliveriesKept

LEMMA matchFlowEventStartsThrowsDeliveries ==
  ASSUME Types, Deliveries, NEW c \in Posts, matchFlowEventStartsThrows(c), Frame(c)
  PROVE  Deliveries'
  <1> USE DEF Goto, Loop, NextListener
  <1>1. c \in Workers /\ (c \in Posts => c \notin Ticks)
    BY WorkersAre DEF Workers
  <1>2. c \in Posts /\ pc[c] = "idle" => \A b \in After[c] : pc[b] \in Ended
    BY <1>1 DEF matchFlowEventStartsThrows, Delivering
  <1>3. \A r \in runs' : r \in runs \/ r.key = None
    BY DEF matchFlowEventStartsThrows, rows, Run
  <1>4. c \in Posts /\ pc'[c] \in Delivering => pc[c] \in Delivering /\ ran'[c] = ran[c] /\ at'[c] = at[c]
    BY <1>1 DEF matchFlowEventStartsThrows, Delivering, Types, local
  <1> QED
    BY <1>1, <1>2, <1>3, <1>4, DeliveriesKept

LEMMA AnswerDeliveries ==
  ASSUME Types, Deliveries, NEW c \in Posts, Answer(c), Frame(c)
  PROVE  Deliveries'
  <1> USE DEF Goto, Loop, NextListener
  <1>1. c \in Workers /\ (c \in Posts => c \notin Ticks)
    BY WorkersAre DEF Workers
  <1>2. c \in Posts /\ pc[c] = "idle" => \A b \in After[c] : pc[b] \in Ended
    BY <1>1 DEF Answer, Delivering
  <1>3. \A r \in runs' : r \in runs \/ r.key = None
    BY DEF Answer, rows, Run
  <1>4. c \in Posts /\ pc'[c] \in Delivering => pc[c] \in Delivering /\ ran'[c] = ran[c] /\ at'[c] = at[c]
    BY <1>1 DEF Answer, Delivering, Types, local
  <1> QED
    BY <1>1, <1>2, <1>3, <1>4, DeliveriesKept

LEMMA startFlowRunDeliveries ==
  ASSUME Types, Deliveries, NEW w \in Workers, startFlowRun(w), Frame(w)
  PROVE  Deliveries'
  <1> USE DEF Goto, Loop, NextListener
  <1>1. w \in Workers /\ (w \in Posts => w \notin Ticks)
    BY WorkersAre DEF Workers
  <1>2. w \in Posts /\ pc[w] = "idle" => \A b \in After[w] : pc[b] \in Ended
    BY <1>1 DEF startFlowRun, Delivering
  <1>3. \A r \in runs' : r \in runs \/ r.key = None
    BY DEF startFlowRun, rows, Run
  <1>4. w \in Posts /\ pc'[w] \in Delivering => pc[w] \in Delivering /\ ran'[w] = ran[w] /\ at'[w] = at[w]
    BY <1>1 DEF startFlowRun, Delivering, Types, local
  <1> QED
    BY <1>1, <1>2, <1>3, <1>4, DeliveriesKept

LEMMA dispatchFlowStepsDeliveries ==
  ASSUME Types, Deliveries, NEW w \in Workers, dispatchFlowSteps(w), Frame(w)
  PROVE  Deliveries'
  <1> USE DEF Goto, Loop, NextListener
  <1>1. w \in Workers /\ (w \in Posts => w \notin Ticks)
    BY WorkersAre DEF Workers
  <1>2. w \in Posts /\ pc[w] = "idle" => \A b \in After[w] : pc[b] \in Ended
    BY <1>1 DEF dispatchFlowSteps, Delivering
  <1>3. \A r \in runs' : r \in runs \/ r.key = None
    BY DEF dispatchFlowSteps, rows, Run
  <1>4. w \in Posts /\ pc'[w] \in Delivering => pc[w] \in Delivering /\ ran'[w] = ran[w] /\ at'[w] = at[w]
    BY <1>1 DEF dispatchFlowSteps, Delivering, Types, local
  <1> QED
    BY <1>1, <1>2, <1>3, <1>4, DeliveriesKept

LEMMA tickDeliveries ==
  ASSUME Types, Deliveries, NEW k \in Ticks, tick(k), Frame(k)
  PROVE  Deliveries'
  <1> USE DEF Goto, Loop, NextListener
  <1>1. k \in Workers /\ (k \in Posts => k \notin Ticks)
    BY WorkersAre DEF Workers
  <1>2. k \in Posts /\ pc[k] = "idle" => \A b \in After[k] : pc[b] \in Ended
    BY <1>1 DEF tick, Delivering
  <1>3. \A r \in runs' : r \in runs \/ r.key = None
    BY DEF tick, rows, Run
  <1>4. k \in Posts /\ pc'[k] \in Delivering => pc[k] \in Delivering /\ ran'[k] = ran[k] /\ at'[k] = at[k]
    BY <1>1 DEF tick, Delivering, Types, local
  <1> QED
    BY <1>1, <1>2, <1>3, <1>4, DeliveriesKept

LEMMA dueScheduledFlowDeliveries ==
  ASSUME Types, Deliveries, NEW k \in Ticks, dueScheduledFlow(k), Frame(k)
  PROVE  Deliveries'
  <1> USE DEF Goto, Loop, NextListener
  <1>1. k \in Workers /\ (k \in Posts => k \notin Ticks)
    BY WorkersAre DEF Workers
  <1>2. k \in Posts /\ pc[k] = "idle" => \A b \in After[k] : pc[b] \in Ended
    BY <1>1 DEF dueScheduledFlow, Delivering
  <1>3. \A r \in runs' : r \in runs \/ r.key = None
    BY DEF dueScheduledFlow, rows, Run
  <1>4. k \in Posts /\ pc'[k] \in Delivering => pc[k] \in Delivering /\ ran'[k] = ran[k] /\ at'[k] = at[k]
    BY <1>1 DEF dueScheduledFlow, Delivering, Types, local
  <1> QED
    BY <1>1, <1>2, <1>3, <1>4, DeliveriesKept

LEMMA tickDoneDeliveries ==
  ASSUME Types, Deliveries, NEW k \in Ticks, tickDone(k), Frame(k)
  PROVE  Deliveries'
  <1> USE DEF Goto, Loop, NextListener
  <1>1. k \in Workers /\ (k \in Posts => k \notin Ticks)
    BY WorkersAre DEF Workers
  <1>2. k \in Posts /\ pc[k] = "idle" => \A b \in After[k] : pc[b] \in Ended
    BY <1>1 DEF tickDone, Delivering
  <1>3. \A r \in runs' : r \in runs \/ r.key = None
    BY DEF tickDone, rows, Run
  <1>4. k \in Posts /\ pc'[k] \in Delivering => pc[k] \in Delivering /\ ran'[k] = ran[k] /\ at'[k] = at[k]
    BY <1>1 DEF tickDone, Delivering, Types, local
  <1> QED
    BY <1>1, <1>2, <1>3, <1>4, DeliveriesKept

-----------------------------------------------------------------------------
(* Answers. *)

LEMMA TruthsKept ==
  ASSUME runs \subseteq runs', invoked \subseteq invoked', receipts \subseteq receipts',
         NEW c, results'[c] = results[c], Truths(c)
  PROVE  Truths(c)'
  BY DEF Truths, TrueOf

LEMMA OthersOwn ==
  ASSUME Types, Answers, NEW w \in Workers, Frame(w), NEW d \in Posts, d # w
  PROVE  Own(d)'
  <1>1. /\ pc'[d] = pc[d] /\ at'[d] = at[d] /\ act'[d] = act[d] /\ results'[d] = results[d]
        /\ Own(d)
    BY WorkersAre DEF Frame, Answers
  <1>2. Truths(d)'
    BY <1>1, TruthsKept DEF Own, Frame
  <1>3. Served(d) => Served(d)'
    BY <1>1 DEF Served, Frame, Types
  <1>4. Passed(d) => Passed(d)'
    BY <1>1 DEF Passed, ListenerOf, Key, Frame
  <1> QED
    BY <1>1, <1>2, <1>3, <1>4 DEF Own

\* What is left to show is about the post that took the step.
LEMMA AnswersKept ==
  ASSUME Types, Answers, NEW w \in Workers, Frame(w), w \in Posts => Own(w)'
  PROVE  Answers'
  BY OthersOwn DEF Answers

\* A step of a post that notes no outcome.
LEMMA ResultsKept ==
  ASSUME Types, Answers, NEW c \in Posts, Frame(c), results'[c] = results[c]
  PROVE  Truths(c)' /\ (Served(c) => Served(c)')
  <1>1. Truths(c)'
    BY TruthsKept DEF Answers, Own, Frame
  <1>2. Served(c) => Served(c)'
    BY DEF Served, Frame, Types
  <1> QED
    BY <1>1, <1>2

\* A step that notes one.
NowTrue(c, i, outcome) ==
    /\ outcome = "delivered" =>
          <<Event[c], i>> \in receipts' /\ (Invokes(i) => <<Event[c], i>> \in invoked')
    /\ outcome \in {"delivered", "deduped"} => \E r \in runs' : r.key = <<Event[c], i>>

LEMMA NotedOwn ==
  ASSUME Types, Answers, NEW c \in Posts, Frame(c), pc[c] \in AtListener, at[c] \in DOMAIN Listeners,
         NEW outcome \in Outcomes, NextListener(c, outcome), NowTrue(c, at[c], outcome)
  PROVE  Own(c)'
  <1>1. /\ at'[c] = at[c] + 1 /\ pc'[c] = "hooks"
        /\ results'[c] = Append(results[c], outcome)
        /\ results[c] \in Seq(Outcomes) /\ Len(results[c]) \in Nat
    BY Noted DEF Types
  <1>2. Own(c) /\ at[c] = Len(results[c]) + 1 /\ Len(results[c]) <= Len(Listeners)
    BY DEF Answers, Own
  <1>3. Len(results'[c]) = Len(results[c]) + 1 /\ DOMAIN results'[c] = 1 .. at[c]
        /\ results'[c][at[c]] = outcome
        /\ \A i \in DOMAIN results[c] : results'[c][i] = results[c][i]
        /\ DOMAIN results[c] = 1 .. Len(results[c])
    BY <1>1, <1>2
  <1>4. \A i \in DOMAIN results'[c] : i = at[c] \/ i \in DOMAIN results[c]
    BY <1>1, <1>2, <1>3
  <1>5. \A i \in DOMAIN results'[c] : NowTrue(c, i, results'[c][i])
    <2>1. NowTrue(c, at[c], results'[c][at[c]])
      BY <1>3
    <2>2. ASSUME NEW i \in DOMAIN results[c] PROVE NowTrue(c, i, results'[c][i])
      <3>1. TrueOf(c, i, results[c][i])
        BY <1>2, <2>2 DEF Own, Truths
      <3>2. results'[c][i] = results[c][i]
        BY <1>3, <2>2
      <3> QED
        BY <3>1, <3>2 DEF TrueOf, NowTrue, Frame
    <2> QED
      BY <1>4, <2>1, <2>2
  <1>6. Truths(c)'
    BY <1>5 DEF Truths, TrueOf, NowTrue
  <1>7. Len(results'[c]) <= Len(Listeners) /\ at'[c] = Len(results'[c]) + 1
    BY <1>1, <1>2, <1>3, DeliveryAssumption
  <1> QED
    BY <1>1, <1>6, <1>7 DEF Own, AtListener

LEMMA journalEventAnswers ==
  ASSUME Types, Answers, NEW c \in Posts, journalEvent(c), Frame(c)
  PROVE  Answers'
  <1>1. c \in Workers /\ results' = results /\ results[c] = << >>
    BY WorkersAre DEF journalEvent, Answers, Own
  <1>2. \/ pc'[c] = "hooks" /\ at'[c] = 1
        \/ pc'[c] = "denied"
    BY <1>1 DEF journalEvent, Loop, Goto, Types
  <1>3. Len(results'[c]) = 0 /\ Len(Listeners) \in Nat
    BY <1>1, DeliveryAssumption
  <1>4. Own(c)'
    BY <1>1, <1>2, <1>3, ResultsKept DEF Own, AtListener
  <1> QED
    BY <1>1, <1>4, AnswersKept

LEMMA dispatchHookAnswers ==
  ASSUME Types, Answers, NEW c \in Posts, dispatchHook(c), Frame(c)
  PROVE  Answers'
  <1>1. c \in Workers /\ pc[c] = "hooks" /\ at[c] \in DOMAIN Listeners /\ act'[c] = 1
        /\ UNCHANGED <<runs, invoked, receipts>>
    BY WorkersAre, DeliveryAssumption DEF dispatchHook, Types, rows
  <1>2. CASE FindRunByIdempotencyKey(Key(c))
    <2>1. NowTrue(c, at[c], "deduped")
      BY <1>1, <1>2 DEF NowTrue, FindRunByIdempotencyKey, Key
    <2>2. Own(c)'
      BY <1>1, <1>2, <2>1, NotedOwn DEF dispatchHook, Outcomes, AtListener
    <2> QED
      BY <1>1, <2>2, AnswersKept
  <1>3. CASE ~ FindRunByIdempotencyKey(Key(c))
    <2>1. UNCHANGED <<at, results>> /\ pc'[c] = "session"
      BY <1>1, <1>3 DEF dispatchHook, Goto, Types
    <2>2. Own(c)
      BY DEF Answers
    <2>3. Own(c)'
      BY <1>1, <2>1, <2>2, ResultsKept DEF Own, AtListener
    <2> QED
      BY <1>1, <2>3, AnswersKept
  <1> QED
    BY <1>2, <1>3

LEMMA dispatchHooksDoneAnswers ==
  ASSUME Types, Answers, NEW c \in Posts, dispatchHooksDone(c), Frame(c)
  PROVE  Answers'
  <1>1. c \in Workers /\ pc[c] = "hooks" /\ at[c] > Len(Listeners) /\ results' = results /\ pc'[c] = "triggers"
    BY WorkersAre DEF dispatchHooksDone, Types, Loop, Goto
  <1>2. Own(c)
    BY DEF Answers
  <1>3. Len(results[c]) = Len(Listeners)
    BY <1>1, <1>2, DeliveryAssumption DEF Own, AtListener, Types
  <1>4. Own(c)'
    BY <1>1, <1>3, ResultsKept DEF Own, AtListener, Served
  <1> QED
    BY <1>1, <1>4, AnswersKept

LEMMA createSessionAnswers ==
  ASSUME Types, Answers, NEW c \in Posts, createSession(c), Frame(c)
  PROVE  Answers'
  <1>1. c \in Workers /\ pc[c] = "session" /\ UNCHANGED <<results, at, act>> /\ pc'[c] = "act"
    BY WorkersAre DEF createSession, Types, Goto
  <1>2. Own(c) /\ at[c] \in DOMAIN Listeners
    BY <1>1 DEF Answers, Types, Delivering
  <1>3. Passed(c)'
    <2>1. Listeners[at[c]].does \in Seq({"invoke", "start_flow"}) /\ act'[c] = 1 /\ at'[c] = at[c]
      BY <1>1, <1>2, ListenerTyped DEF Own
    <2> QED
      BY <2>1 DEF Passed, ListenerOf
  <1>4. Own(c)'
    BY <1>1, <1>2, <1>3, ResultsKept DEF Own, AtListener
  <1> QED
    BY <1>1, <1>4, AnswersKept

\* The delivery goes on with the same listener.
LEMMA GoesOn ==
  ASSUME Types, Answers, NEW c \in Posts, Frame(c), pc[c] = "act", UNCHANGED <<pc, at, results>>,
         \A j \in DOMAIN ListenerOf(c).does :
            act[c] <= j /\ j < act'[c] /\ ListenerOf(c).does[j] = "invoke" => Key(c) \in invoked',
         act'[c] \in Nat
  PROVE  Answers'
  <1>1. c \in Workers /\ Own(c) /\ at[c] \in DOMAIN Listeners /\ act[c] \in Nat
    BY WorkersAre DEF Answers, Types, Delivering
  <1>2. ListenerOf(c)' = ListenerOf(c) /\ Key(c)' = Key(c) /\ DOMAIN ListenerOf(c).does \subseteq Nat
    BY <1>1, ListenerTyped DEF ListenerOf, Key
  <1>3. Passed(c)'
    BY <1>1, <1>2 DEF Own, Passed, Frame
  <1>4. Own(c)'
    BY <1>1, <1>3, ResultsKept DEF Own, AtListener
  <1> QED
    BY <1>1, <1>4, AnswersKept

\* The delivery has failed.
LEMMA Fails ==
  ASSUME Types, Answers, NEW c \in Posts, Frame(c), pc[c] \in Delivering, NextListener(c, "failed")
  PROVE  Answers'
  <1>1. c \in Workers /\ at[c] \in DOMAIN Listeners
    BY WorkersAre DEF Types
  <1>2. NowTrue(c, at[c], "failed")
    BY DEF NowTrue
  <1>3. Own(c)'
    BY <1>1, <1>2, NotedOwn DEF Outcomes, AtListener, Delivering
  <1> QED
    BY <1>1, <1>3, AnswersKept

LEMMA CreateHookRunAnswers ==
  ASSUME Types, Answers, NEW c \in Posts, CreateHookRun(c), Frame(c)
  PROVE  Answers'
  <1>1. pc[c] = "act" /\ act' = act
    BY DEF CreateHookRun
  <1>2. CASE UNCHANGED <<pc, at, results>>
    <2>1. act[c] \in Nat
      BY DEF Types
    <2>2. \A j \in DOMAIN ListenerOf(c).does : ~ (act[c] <= j /\ j < act'[c])
      <3>1. DOMAIN ListenerOf(c).does \subseteq Nat
        BY <1>1, ListenerTyped DEF Types, Delivering, ListenerOf
      <3> QED
        BY <1>1, <2>1, <3>1
    <2> QED
      BY <1>1, <1>2, <2>1, <2>2, GoesOn
  <1>3. CASE NextListener(c, "failed")
    BY <1>1, <1>3, Fails DEF Delivering
  <1> QED
    BY <1>2, <1>3 DEF CreateHookRun

LEMMA invokeActionAnswers ==
  ASSUME Types, Answers, NEW c \in Posts, invokeAction(c), Frame(c)
  PROVE  Answers'
  <1>1. pc[c] = "act" /\ act[c] \in Nat
    BY DEF invokeAction, Types
  <1>2. CASE invoked' = invoked \cup {Key(c)} /\ act' = [act EXCEPT ![c] = @ + 1] /\ UNCHANGED <<pc, at, results>>
    <2>1. act'[c] = act[c] + 1 /\ act'[c] \in Nat /\ Key(c) \in invoked'
      BY <1>1, <1>2 DEF Types
    <2> QED
      BY <1>1, <1>2, <2>1, GoesOn
  <1>3. CASE NextListener(c, "failed")
    BY <1>1, <1>3, Fails DEF Delivering
  <1> QED
    BY <1>2, <1>3 DEF invokeAction

LEMMA startFlowFromHookAnswers ==
  ASSUME Types, Answers, NEW c \in Posts, startFlowFromHook(c), Frame(c)
  PROVE  Answers'
  <1>1. pc[c] = "act" /\ act[c] \in Nat /\ Action(c) = "start_flow" /\ at[c] \in DOMAIN Listeners
    BY DEF startFlowFromHook, Types, Delivering
  <1>2. CASE act' = [act EXCEPT ![c] = @ + 1] /\ UNCHANGED <<pc, at, results>>
    <2>1. act'[c] = act[c] + 1 /\ act'[c] \in Nat
      BY <1>1, <1>2 DEF Types
    <2>2. ListenerOf(c).does[act[c]] = "start_flow" /\ DOMAIN ListenerOf(c).does \subseteq Nat
      BY <1>1, ListenerTyped DEF Action, ListenerOf
    <2>3. \A j \in DOMAIN ListenerOf(c).does :
             act[c] <= j /\ j < act'[c] => j = act[c]
      BY <1>1, <2>1, <2>2
    <2> QED
      BY <1>1, <1>2, <2>1, <2>2, <2>3, GoesOn
  <1>3. CASE NextListener(c, "failed")
    BY <1>1, <1>3, Fails DEF Delivering
  <1> QED
    BY <1>2, <1>3 DEF startFlowFromHook

LEMMA handlerDeliveredAnswers ==
  ASSUME Types, Answers, Ran, NEW c \in Posts, handlerDelivered(c), Frame(c)
  PROVE  Answers'
  <1>1. c \in Workers /\ pc[c] = "act" /\ ran[c] /\ Action(c) = "end" /\ at[c] \in DOMAIN Listeners /\ act[c] \in Nat
        /\ UNCHANGED <<runs, invoked>> /\ receipts' = receipts \cup {Key(c)}
    BY WorkersAre DEF handlerDelivered, Types, Delivering
  <1>2. ListenerOf(c).does \in Seq({"invoke", "start_flow"})
    BY <1>1, ListenerTyped DEF ListenerOf
  <1>3. act[c] > Len(ListenerOf(c).does)
    <2> DEFINE does == ListenerOf(c).does
    <2>1. Action(c) = IF act[c] <= Len(does) THEN does[act[c]] ELSE "end"
      BY DEF Action
    <2>2. act[c] >= 1 /\ does \in Seq({"invoke", "start_flow"}) /\ Len(does) \in Nat
      BY <1>1, <1>2 DEF Types, Delivering
    <2> HIDE DEF does
    <2>3. act[c] <= Len(does) => does[act[c]] \in {"invoke", "start_flow"}
      BY <1>1, <2>2
    <2> QED
      BY <1>1, <2>1, <2>2, <2>3 DEF does
  <1>4. \A j \in DOMAIN ListenerOf(c).does : ListenerOf(c).does[j] = "invoke" => Key(c) \in invoked
    BY <1>1, <1>2, <1>3 DEF Answers, Own, Passed
  <1>5. FindRunByIdempotencyKey(Key(c))
    BY <1>1 DEF Ran, Delivering
  <1>6. NowTrue(c, at[c], "delivered")
    BY <1>1, <1>4, <1>5 DEF NowTrue, Invokes, FindRunByIdempotencyKey, Key, ListenerOf
  <1>7. Own(c)'
    BY <1>1, <1>6, NotedOwn DEF handlerDelivered, Outcomes, AtListener
  <1> QED
    BY <1>1, <1>7, AnswersKept

LEMMA deliveryThrowsAnswers ==
  ASSUME Types, Answers, NEW c \in Posts, deliveryThrows(c), Frame(c)
  PROVE  Answers'
  <1>1. c \in Workers /\ pc[c] \in Delivering /\ throws' > 0
    BY WorkersAre DEF deliveryThrows, Delivering, Types
  <1>2. CASE NextListener(c, "failed")
    BY <1>1, <1>2, Fails
  <1>3. CASE Loop(c, "triggers", 1) /\ results' = [results EXCEPT ![c] = <<>>]
    <2>1. pc'[c] = "triggers" /\ results'[c] = << >>
      BY <1>1, <1>3 DEF Types, Loop, Goto
    <2>2. Truths(c)'
      BY <2>1 DEF Truths
    <2>3. Own(c)'
      BY <1>1, <2>1, <2>2 DEF Own, Served, AtListener
    <2> QED
      BY <1>1, <2>3, AnswersKept
  <1> QED
    BY <1>2, <1>3 DEF deliveryThrows

\* Past the listeners the outcomes are those it was left with.
LEMMA PastAnswers ==
  ASSUME Types, Answers, NEW w \in Workers, Frame(w),
         w \in Posts => /\ results'[w] = results[w]
                        /\ pc[w] \in {"triggers", "alert", "flows", "steps"}
                        /\ pc'[w] \in {"triggers", "alert", "flows", "steps", "done", "thrown"}
  PROVE  Answers'
  <1>1. w \in Posts => Own(w)'
    <2> SUFFICES ASSUME w \in Posts PROVE Own(w)'
      OBVIOUS
    <2>1. Own(w) /\ Served(w)
      BY DEF Answers, Own
    <2> QED
      BY <2>1, ResultsKept DEF Own, AtListener
  <1> QED
    BY <1>1, AnswersKept

LEMMA RestartAnswers ==
  ASSUME Types, Answers, Restart, throws' >= throws, throws' \in Nat
  PROVE  Answers'
  <1> SUFFICES ASSUME NEW c \in Posts PROVE Own(c)'
    BY DEF Answers
  <1>1. pc' = [w \in Workers |-> IF pc[w] \in Ended \cup {"idle", "absent"} THEN pc[w] ELSE "dead"]
        /\ UNCHANGED <<runs, invoked, receipts, results>> /\ c \in Workers
    BY WorkersAre DEF Restart, rows
  <1>2. pc'[c] \in {"idle", "absent"} \cup Ended /\ (pc'[c] # "dead" => pc'[c] = pc[c])
    BY <1>1 DEF Ended
  <1>3. Own(c)
    BY DEF Answers
  <1>4. Truths(c)'
    BY <1>1, <1>3, TruthsKept DEF Own
  <1>5. Served(c) => Served(c)'
    BY <1>1 DEF Served, Types
  <1> QED
    BY <1>1, <1>2, <1>3, <1>4, <1>5 DEF Own, AtListener, Ended

LEMMA RanKept ==
  ASSUME Types, Ran, NEW w \in Workers, Frame(w),
         w \in Posts /\ pc'[w] \in Delivering /\ ran'[w] =>
            /\ at'[w] = at[w]
            /\ (pc[w] \in Delivering /\ ran[w]) \/ \E r \in runs' : r.key = Key(w)
  PROVE  Ran'
  <1> SUFFICES ASSUME NEW c \in Posts, pc'[c] \in Delivering, ran'[c] PROVE FindRunByIdempotencyKey(Key(c))'
    BY DEF Ran
  <1>1. at'[c] = at[c] /\ ((pc[c] \in Delivering /\ ran[c]) \/ \E r \in runs' : r.key = Key(c))
    BY WorkersAre DEF Frame
  <1> DEFINE key == Key(c)
  <1>2. Key(c)' = key
    BY <1>1 DEF Key
  <1>3. \E r \in runs' : r.key = key
    BY <1>1 DEF Ran, FindRunByIdempotencyKey, Frame
  <1> QED
    BY <1>2, <1>3 DEF FindRunByIdempotencyKey

LEMMA RestartRan == ASSUME Restart PROVE Ran'
  <1>1. pc' = [w \in Workers |-> IF pc[w] \in Ended \cup {"idle", "absent"} THEN pc[w] ELSE "dead"]
    BY DEF Restart
  <1>2. \A c \in Posts : pc'[c] \notin Delivering
    BY <1>1, WorkersAre DEF Delivering, Ended
  <1> QED
    BY <1>2 DEF Ran

LEMMA executeTriggerAnswers ==
  ASSUME Types, Answers, NEW c \in Posts, executeTrigger(c), Frame(c)
  PROVE  Answers'
  <1> USE DEF Goto, Loop
  <1>1. c \in Workers /\ (c \in Posts => c \notin Ticks)
    BY WorkersAre DEF Workers
  <1>2. c \in Posts => /\ results'[c] = results[c]
                     /\ pc[c] \in {"triggers", "alert", "flows", "steps"}
                     /\ pc'[c] \in {"triggers", "alert", "flows", "steps", "done", "thrown"}
    BY <1>1 DEF executeTrigger, Types, local
  <1> QED
    BY <1>1, <1>2, PastAnswers

LEMMA emitIntegrationFailureAnswers ==
  ASSUME Types, Answers, NEW c \in Posts, emitIntegrationFailure(c), Frame(c)
  PROVE  Answers'
  <1> USE DEF Goto, Loop
  <1>1. c \in Workers /\ (c \in Posts => c \notin Ticks)
    BY WorkersAre DEF Workers
  <1>2. c \in Posts => /\ results'[c] = results[c]
                     /\ pc[c] \in {"triggers", "alert", "flows", "steps"}
                     /\ pc'[c] \in {"triggers", "alert", "flows", "steps", "done", "thrown"}
    BY <1>1 DEF emitIntegrationFailure, Types, local
  <1> QED
    BY <1>1, <1>2, PastAnswers

LEMMA dispatchDoneAnswers ==
  ASSUME Types, Answers, NEW c \in Posts, dispatchDone(c), Frame(c)
  PROVE  Answers'
  <1> USE DEF Goto, Loop
  <1>1. c \in Workers /\ (c \in Posts => c \notin Ticks)
    BY WorkersAre DEF Workers
  <1>2. c \in Posts => /\ results'[c] = results[c]
                     /\ pc[c] \in {"triggers", "alert", "flows", "steps"}
                     /\ pc'[c] \in {"triggers", "alert", "flows", "steps", "done", "thrown"}
    BY <1>1 DEF dispatchDone, Types, local
  <1> QED
    BY <1>1, <1>2, PastAnswers

LEMMA recordDeliveryThrowsAnswers ==
  ASSUME Types, Answers, NEW c \in Posts, recordDeliveryThrows(c), Frame(c)
  PROVE  Answers'
  <1> USE DEF Goto, Loop
  <1>1. c \in Workers /\ (c \in Posts => c \notin Ticks)
    BY WorkersAre DEF Workers
  <1>2. c \in Posts => /\ results'[c] = results[c]
                     /\ pc[c] \in {"triggers", "alert", "flows", "steps"}
                     /\ pc'[c] \in {"triggers", "alert", "flows", "steps", "done", "thrown"}
    BY <1>1 DEF recordDeliveryThrows, Types, local
  <1> QED
    BY <1>1, <1>2, PastAnswers

LEMMA matchFlowEventStartsThrowsAnswers ==
  ASSUME Types, Answers, NEW c \in Posts, matchFlowEventStartsThrows(c), Frame(c)
  PROVE  Answers'
  <1> USE DEF Goto, Loop
  <1>1. c \in Workers /\ (c \in Posts => c \notin Ticks)
    BY WorkersAre DEF Workers
  <1>2. c \in Posts => /\ results'[c] = results[c]
                     /\ pc[c] \in {"triggers", "alert", "flows", "steps"}
                     /\ pc'[c] \in {"triggers", "alert", "flows", "steps", "done", "thrown"}
    BY <1>1 DEF matchFlowEventStartsThrows, Types, local
  <1> QED
    BY <1>1, <1>2, PastAnswers

LEMMA AnswerAnswers ==
  ASSUME Types, Answers, NEW c \in Posts, Answer(c), Frame(c)
  PROVE  Answers'
  <1> USE DEF Goto, Loop
  <1>1. c \in Workers /\ (c \in Posts => c \notin Ticks)
    BY WorkersAre DEF Workers
  <1>2. c \in Posts => /\ results'[c] = results[c]
                     /\ pc[c] \in {"triggers", "alert", "flows", "steps"}
                     /\ pc'[c] \in {"triggers", "alert", "flows", "steps", "done", "thrown"}
    BY <1>1 DEF Answer, Types, local
  <1> QED
    BY <1>1, <1>2, PastAnswers

LEMMA startFlowRunAnswers ==
  ASSUME Types, Answers, NEW w \in Workers, startFlowRun(w), Frame(w)
  PROVE  Answers'
  <1> USE DEF Goto, Loop
  <1>1. w \in Workers /\ (w \in Posts => w \notin Ticks)
    BY WorkersAre DEF Workers
  <1>2. w \in Posts => /\ results'[w] = results[w]
                     /\ pc[w] \in {"triggers", "alert", "flows", "steps"}
                     /\ pc'[w] \in {"triggers", "alert", "flows", "steps", "done", "thrown"}
    BY <1>1 DEF startFlowRun, Types, local
  <1> QED
    BY <1>1, <1>2, PastAnswers

LEMMA dispatchFlowStepsAnswers ==
  ASSUME Types, Answers, NEW w \in Workers, dispatchFlowSteps(w), Frame(w)
  PROVE  Answers'
  <1> USE DEF Goto, Loop
  <1>1. w \in Workers /\ (w \in Posts => w \notin Ticks)
    BY WorkersAre DEF Workers
  <1>2. w \in Posts => /\ results'[w] = results[w]
                     /\ pc[w] \in {"triggers", "alert", "flows", "steps"}
                     /\ pc'[w] \in {"triggers", "alert", "flows", "steps", "done", "thrown"}
    BY <1>1 DEF dispatchFlowSteps, Types, local
  <1> QED
    BY <1>1, <1>2, PastAnswers

LEMMA tickAnswers ==
  ASSUME Types, Answers, NEW k \in Ticks, tick(k), Frame(k)
  PROVE  Answers'
  <1> USE DEF Goto, Loop
  <1>1. k \in Workers /\ (k \in Posts => k \notin Ticks)
    BY WorkersAre DEF Workers
  <1>2. k \in Posts => /\ results'[k] = results[k]
                     /\ pc[k] \in {"triggers", "alert", "flows", "steps"}
                     /\ pc'[k] \in {"triggers", "alert", "flows", "steps", "done", "thrown"}
    BY <1>1 DEF tick, Types, local
  <1> QED
    BY <1>1, <1>2, PastAnswers

LEMMA dueScheduledFlowAnswers ==
  ASSUME Types, Answers, NEW k \in Ticks, dueScheduledFlow(k), Frame(k)
  PROVE  Answers'
  <1> USE DEF Goto, Loop
  <1>1. k \in Workers /\ (k \in Posts => k \notin Ticks)
    BY WorkersAre DEF Workers
  <1>2. k \in Posts => /\ results'[k] = results[k]
                     /\ pc[k] \in {"triggers", "alert", "flows", "steps"}
                     /\ pc'[k] \in {"triggers", "alert", "flows", "steps", "done", "thrown"}
    BY <1>1 DEF dueScheduledFlow, Types, local
  <1> QED
    BY <1>1, <1>2, PastAnswers

LEMMA tickDoneAnswers ==
  ASSUME Types, Answers, NEW k \in Ticks, tickDone(k), Frame(k)
  PROVE  Answers'
  <1> USE DEF Goto, Loop
  <1>1. k \in Workers /\ (k \in Posts => k \notin Ticks)
    BY WorkersAre DEF Workers
  <1>2. k \in Posts => /\ results'[k] = results[k]
                     /\ pc[k] \in {"triggers", "alert", "flows", "steps"}
                     /\ pc'[k] \in {"triggers", "alert", "flows", "steps", "done", "thrown"}
    BY <1>1 DEF tickDone, Types, local
  <1> QED
    BY <1>1, <1>2, PastAnswers

-----------------------------------------------------------------------------
(* The schedule. *)

LEMMA FiredIsSmall ==
  ASSUME FiredFits, fired \subseteq FlowsOf(Scheduled) \X (1 .. MaxMinute)
  PROVE  ~ (Cardinality(fired) > FiredCap)
  <1> DEFINE F == FlowsOf(Scheduled)
             M == 1 .. MaxMinute
             D == 1 .. Len(Scheduled)
  <1>1. Scheduled \in Seq(STRING) /\ MaxMinute \in Nat /\ FiredCap \in Nat
    BY DeliveryAssumption
  <1>2. D = DOMAIN Scheduled /\ Len(Scheduled) \in Nat
    BY <1>1
  <1>3. IsFiniteSet(D) /\ Cardinality(D) = Len(Scheduled) /\ IsFiniteSet(M) /\ Cardinality(M) = MaxMinute
    <2>1. ASSUME NEW n \in Nat PROVE IsFiniteSet(1 .. n) /\ Cardinality(1 .. n) = n
      <3>1. Cardinality(1 .. n) = IF 1 > n THEN 0 ELSE n - 1 + 1
        BY FS_Interval
      <3> QED
        BY <3>1, FS_Interval
    <2> QED
      BY <1>1, <1>2, <2>1
  <1>4. IsFiniteSet(F) /\ Cardinality(F) <= Len(Scheduled)
    <2> DEFINE f == [i \in D |-> Scheduled[i]]
    <2>1. f \in Surjection(D, F)
      BY <1>2 DEF Surjection, FlowsOf
    <2> HIDE DEF F, D, f
    <2> QED
      BY <1>3, <2>1, FS_Surjection
  <1>5. IsFiniteSet(F \X M) /\ Cardinality(F \X M) = Cardinality(F) * MaxMinute
    <2> HIDE DEF F, M
    <2> QED
      BY <1>3, <1>4, FS_Product
  <1>6. Cardinality(fired) <= Cardinality(F \X M) /\ Cardinality(fired) \in Nat
    <2> HIDE DEF F, M
    <2>1. fired \subseteq F \X M
      BY DEF F, M
    <2> QED
      BY <1>5, <2>1, FS_Subset, FS_CardinalityType
  <1>7. Cardinality(F) \in Nat
    BY <1>4, FS_CardinalityType
  <1>8. Cardinality(F) * MaxMinute <= Len(Scheduled) * MaxMinute
    BY <1>1, <1>2, <1>4, <1>7
  <1> QED
    BY <1>1, <1>2, <1>5, <1>6, <1>7, <1>8 DEF FiredFits

\* A step that starts nothing by the clock.
LEMMA ScheduleKept ==
  ASSUME Types, Schedule, NEW w \in Workers, Frame(w), fired' = fired,
         \A r \in runs' : r \in runs \/ (r.by \notin Ticks /\ r.epoch = epoch),
         w \in Ticks => /\ pc'[w] # "start"
                        /\ pc'[w] \in Due => now'[w] \in 1 .. MaxMinute
  PROVE  Schedule'
  <1>1. epoch' = epoch /\ minute' = minute /\ epoch \in Nat
    BY DEF Frame, Types
  <1>2. OneStartPerMinute'
    BY DEF Schedule, OneStartPerMinute
  <1>3. /\ \A r \in runs' : r.epoch <= epoch'
        /\ \A r \in runs' : r.by \in Ticks /\ r.epoch = epoch' => r \in runs /\ <<r.flow, r.minute>> \in fired'
    BY <1>1 DEF Schedule
  <1>4. \A k \in Ticks : k # w => pc'[k] = pc[k] /\ Starting(k)' = Starting(k) /\ now'[k] = now[k] /\ at'[k] = at[k]
    BY WorkersAre DEF Frame, Starting
  <1>5. \A k \in Ticks :
          /\ pc'[k] \in Due => now'[k] \in 1 .. MaxMinute
          /\ pc'[k] = "start" =>
                /\ at'[k] \in DOMAIN Scheduled /\ Starting(k)' \in fired'
                /\ \A r \in runs' : r.by \in Ticks /\ r.epoch = epoch' => <<r.flow, r.minute>> # Starting(k)'
    BY <1>1, <1>3, <1>4 DEF Schedule
  <1>6. \A j, k \in Ticks : pc'[j] = "start" /\ pc'[k] = "start" /\ Starting(j)' = Starting(k)' => j = k
    BY <1>4 DEF Schedule
  <1> QED
    BY <1>1, <1>2, <1>3, <1>5, <1>6 DEF Schedule

LEMMA dueScheduledFlowSchedule ==
  ASSUME Types, Schedule, NEW k \in Ticks, dueScheduledFlow(k), Frame(k)
  PROVE  Schedule'
  <1> DEFINE key == <<Scheduled[at[k]], now[k]>>
  <1>1. k \in Workers /\ runs' = runs /\ now' = now /\ pc[k] = "due" /\ epoch' = epoch /\ minute' = minute
    BY WorkersAre DEF dueScheduledFlow, rows
  <1>2. at[k] \in DOMAIN Scheduled /\ now[k] \in 1 .. MaxMinute
    BY <1>1, DeliveryAssumption DEF dueScheduledFlow, Types, Schedule, Due
  <1>3. CASE key \in fired
    <2>1. fired' = fired /\ pc'[k] = "due"
      BY <1>1, <1>3 DEF dueScheduledFlow, Loop, Goto, Types
    <2> QED
      BY <1>1, <1>2, <2>1, ScheduleKept
  <1>4. CASE key \notin fired
    <2>1. fired' = fired \cup {key} /\ at' = at /\ pc'[k] = "start"
      BY <1>1, <1>4 DEF dueScheduledFlow, Goto, Types
    <2>2. key \in FlowsOf(Scheduled) \X (1 .. MaxMinute)
      BY <1>2 DEF FlowsOf
    <2>3. \A j \in Ticks : Starting(j)' = Starting(j) /\ (j # k => pc'[j] = pc[j])
      BY <1>1, <2>1, WorkersAre DEF Starting, Frame
    <2>4. Starting(k) = key
      BY DEF Starting
    <2> HIDE DEF key
    <2>5. \A j \in Ticks : pc[j] = "start" => Starting(j) # key
      BY <1>4 DEF Schedule
    <2>6. \A r \in runs : r.by \in Ticks /\ r.epoch = epoch => <<r.flow, r.minute>> # key
      BY <1>4 DEF Schedule
    <2>7. OneStartPerMinute' /\ fired' \subseteq FlowsOf(Scheduled) \X (1 .. MaxMinute)
      BY <1>1, <2>1, <2>2 DEF Schedule, OneStartPerMinute
    <2>8. \A j \in Ticks :
          /\ pc'[j] \in Due => now'[j] \in 1 .. MaxMinute
          /\ pc'[j] = "start" =>
                /\ at'[j] \in DOMAIN Scheduled /\ Starting(j)' \in fired'
                /\ \A r \in runs' : r.by \in Ticks /\ r.epoch = epoch' => <<r.flow, r.minute>> # Starting(j)'
      BY <1>1, <1>2, <2>1, <2>3, <2>4, <2>6 DEF Schedule
    <2>9. \A i, j \in Ticks : pc'[i] = "start" /\ pc'[j] = "start" /\ Starting(i)' = Starting(j)' => i = j
      BY <2>3, <2>4, <2>5 DEF Schedule
    <2> QED
      BY <1>1, <2>1, <2>7, <2>8, <2>9 DEF Schedule
  <1> QED
    BY <1>3, <1>4

LEMMA startFlowRunSchedule ==
  ASSUME Types, Schedule, NEW w \in Workers, startFlowRun(w), Frame(w)
  PROVE  Schedule'
  <1> DEFINE run == Run(w, None, List(w)[at[w]])
  <1>1. /\ run.by = w /\ run.epoch = epoch /\ run.flow = List(w)[at[w]]
        /\ w \in Ticks => run.minute = now[w]
    BY DEF Run
  <1>2. fired' = fired /\ epoch' = epoch /\ now' = now /\ (runs' = runs \/ runs' = runs \cup {run})
    BY DEF startFlowRun, memory
  <1>3. CASE w \notin Ticks
    <2>1. \A r \in runs' : r \in runs \/ (r.by \notin Ticks /\ r.epoch = epoch)
      <3> HIDE DEF run
      <3> QED
        BY <1>1, <1>2, <1>3
    <2> QED
      BY <1>2, <1>3, <2>1, ScheduleKept
  <1>4. CASE w \in Ticks
    <2>1. pc[w] = "start" /\ pc'[w] \in {"steps", "due"} /\ now[w] \in 1 .. MaxMinute
      BY <1>4 DEF startFlowRun, Loop, Goto, Types, Schedule, Due
    <2>2. CASE runs' = runs
      <3>1. w \in Ticks => pc'[w] # "start" /\ (pc'[w] \in Due => now'[w] \in 1 .. MaxMinute)
        BY <1>2, <2>1
      <3> QED
        BY <1>2, <2>2, <3>1, ScheduleKept
    <2>3. CASE runs' = runs \cup {run}
      <3>1. <<run.flow, run.minute>> = Starting(w)
        BY <1>1, <1>4 DEF Starting, List
      <3> HIDE DEF run
      <3>2. Starting(w) \in fired /\ \A r \in runs : r.by \in Ticks /\ r.epoch = epoch => <<r.flow, r.minute>> # Starting(w)
        BY <1>4, <2>1 DEF Schedule
      <3>3. \A k \in Ticks : k # w => pc'[k] = pc[k] /\ Starting(k)' = Starting(k) /\ at'[k] = at[k]
        BY WorkersAre DEF Frame, Starting
      <3>4. \A k \in Ticks : k # w /\ pc[k] = "start" => Starting(k) # Starting(w)
        BY <1>4, <2>1 DEF Schedule
      <3>5. OneStartPerMinute'
        <4>1. \A r \in runs : r.by \in Ticks /\ r.epoch = run.epoch => ~ (r.flow = run.flow /\ r.minute = run.minute)
          BY <1>1, <3>1, <3>2
        <4> QED
          BY <2>3, <4>1 DEF Schedule, OneStartPerMinute
      <3>6. /\ \A r \in runs' : r.epoch <= epoch'
            /\ \A r \in runs' : r.by \in Ticks /\ r.epoch = epoch' => <<r.flow, r.minute>> \in fired'
        <4>1. epoch \in Nat /\ run.epoch = epoch /\ epoch' = epoch /\ <<run.flow, run.minute>> \in fired'
          BY <1>1, <1>2, <3>1, <3>2 DEF Types
        <4>2. \A r \in runs : r.epoch <= epoch' /\ (r.by \in Ticks /\ r.epoch = epoch' => <<r.flow, r.minute>> \in fired')
          BY <1>2 DEF Schedule
        <4>3. run.epoch <= epoch'
          BY <4>1
        <4> QED
          BY <2>3, <4>1, <4>2, <4>3
      <3>7. \A k \in Ticks :
          /\ pc'[k] \in Due => now'[k] \in 1 .. MaxMinute
          /\ pc'[k] = "start" =>
                /\ at'[k] \in DOMAIN Scheduled /\ Starting(k)' \in fired'
                /\ \A r \in runs' : r.by \in Ticks /\ r.epoch = epoch' => <<r.flow, r.minute>> # Starting(k)'
        BY <1>2, <2>1, <2>3, <3>1, <3>3, <3>4 DEF Schedule
      <3>8. \A j, k \in Ticks : pc'[j] = "start" /\ pc'[k] = "start" /\ Starting(j)' = Starting(k)' => j = k
        BY <2>1, <3>3 DEF Schedule
      <3> QED
        BY <1>2, <3>5, <3>6, <3>7, <3>8 DEF Schedule, Frame
    <2> QED
      BY <1>2, <2>2, <2>3
  <1> QED
    BY <1>3, <1>4

LEMMA tickDoneSchedule ==
  ASSUME Types, Schedule, FiredFits, NEW k \in Ticks, tickDone(k), Frame(k)
  PROVE  Schedule'
  <1>1. fired' = fired
    BY FiredIsSmall DEF Schedule, tickDone
  <1>2. k \in Workers /\ runs' = runs /\ pc'[k] = "done"
    BY WorkersAre DEF tickDone, rows, Goto, Types
  <1> QED
    BY <1>1, <1>2, ScheduleKept DEF Due

LEMMA tickSchedule ==
  ASSUME Types, Schedule, NEW k \in Ticks, tick(k), Frame(k)
  PROVE  Schedule'
  <1>1. k \in Workers /\ runs' = runs /\ pc'[k] = "due" /\ now'[k] = minute /\ fired' = fired
    BY WorkersAre DEF tick, rows, memory, Goto, Types
  <1> QED
    BY <1>1, ScheduleKept DEF Schedule

LEMMA dispatchFlowStepsSchedule ==
  ASSUME Types, Schedule, NEW w \in Workers, dispatchFlowSteps(w), Frame(w)
  PROVE  Schedule'
  <1>1. runs' = runs /\ fired' = fired /\ now' = now /\ pc[w] = "steps" /\ pc'[w] # "start"
    BY DEF dispatchFlowSteps, memory, Loop, Goto, Types
  <1> QED
    BY <1>1, ScheduleKept DEF Schedule, Due

LEMMA RestartSchedule ==
  ASSUME Types, Schedule, Restart
  PROVE  Schedule'
  <1>1. epoch \in Nat /\ epoch' = epoch + 1 /\ fired' = {} /\ UNCHANGED <<runs, minute>>
    BY DEF Restart, rows, Types
  <1>2. pc' = [w \in Workers |-> IF pc[w] \in Ended \cup {"idle", "absent"} THEN pc[w] ELSE "dead"]
    BY DEF Restart
  <1>3. \A k \in Ticks : pc'[k] \notin Due
    BY <1>2, WorkersAre DEF Due, Ended
  <1>4. \A r \in runs : r.epoch \in Nat
    BY DEF Types, Row
  <1>5. \A r \in runs' : r.epoch <= epoch' /\ r.epoch # epoch'
    BY <1>1, <1>4 DEF Schedule
  <1>6. OneStartPerMinute'
    BY <1>1 DEF Schedule, OneStartPerMinute
  <1> QED
    BY <1>1, <1>3, <1>5, <1>6 DEF Schedule, Due

LEMMA journalEventSchedule ==
  ASSUME Types, Schedule, NEW c \in Posts, journalEvent(c), Frame(c)
  PROVE  Schedule'
  <1>1. c \in Workers /\ c \notin Ticks /\ fired' = fired
    BY WorkersAre DEF journalEvent, memory
  <1>2. \A r \in runs' : r \in runs \/ (r.by \notin Ticks /\ r.epoch = epoch)
    BY <1>1 DEF journalEvent, admitAndCreateRun, Run, rows
  <1> QED
    BY <1>1, <1>2, ScheduleKept

LEMMA dispatchHookSchedule ==
  ASSUME Types, Schedule, NEW c \in Posts, dispatchHook(c), Frame(c)
  PROVE  Schedule'
  <1>1. c \in Workers /\ c \notin Ticks /\ fired' = fired
    BY WorkersAre DEF dispatchHook, memory
  <1>2. \A r \in runs' : r \in runs \/ (r.by \notin Ticks /\ r.epoch = epoch)
    BY <1>1 DEF dispatchHook, admitAndCreateRun, Run, rows
  <1> QED
    BY <1>1, <1>2, ScheduleKept

LEMMA dispatchHooksDoneSchedule ==
  ASSUME Types, Schedule, NEW c \in Posts, dispatchHooksDone(c), Frame(c)
  PROVE  Schedule'
  <1>1. c \in Workers /\ c \notin Ticks /\ fired' = fired
    BY WorkersAre DEF dispatchHooksDone, memory
  <1>2. \A r \in runs' : r \in runs \/ (r.by \notin Ticks /\ r.epoch = epoch)
    BY <1>1 DEF dispatchHooksDone, admitAndCreateRun, Run, rows
  <1> QED
    BY <1>1, <1>2, ScheduleKept

LEMMA createSessionSchedule ==
  ASSUME Types, Schedule, NEW c \in Posts, createSession(c), Frame(c)
  PROVE  Schedule'
  <1>1. c \in Workers /\ c \notin Ticks /\ fired' = fired
    BY WorkersAre DEF createSession, memory
  <1>2. \A r \in runs' : r \in runs \/ (r.by \notin Ticks /\ r.epoch = epoch)
    BY <1>1 DEF createSession, admitAndCreateRun, Run, rows
  <1> QED
    BY <1>1, <1>2, ScheduleKept

LEMMA CreateHookRunSchedule ==
  ASSUME Types, Schedule, NEW c \in Posts, CreateHookRun(c), Frame(c)
  PROVE  Schedule'
  <1>1. c \in Workers /\ c \notin Ticks /\ fired' = fired
    BY WorkersAre DEF CreateHookRun, memory
  <1>2. \A r \in runs' : r \in runs \/ (r.by \notin Ticks /\ r.epoch = epoch)
    BY <1>1 DEF CreateHookRun, admitAndCreateRun, Run, rows
  <1> QED
    BY <1>1, <1>2, ScheduleKept

LEMMA invokeActionSchedule ==
  ASSUME Types, Schedule, NEW c \in Posts, invokeAction(c), Frame(c)
  PROVE  Schedule'
  <1>1. c \in Workers /\ c \notin Ticks /\ fired' = fired
    BY WorkersAre DEF invokeAction, memory
  <1>2. \A r \in runs' : r \in runs \/ (r.by \notin Ticks /\ r.epoch = epoch)
    BY <1>1 DEF invokeAction, admitAndCreateRun, Run, rows
  <1> QED
    BY <1>1, <1>2, ScheduleKept

LEMMA startFlowFromHookSchedule ==
  ASSUME Types, Schedule, NEW c \in Posts, startFlowFromHook(c), Frame(c)
  PROVE  Schedule'
  <1>1. c \in Workers /\ c \notin Ticks /\ fired' = fired
    BY WorkersAre DEF startFlowFromHook, memory
  <1>2. \A r \in runs' : r \in runs \/ (r.by \notin Ticks /\ r.epoch = epoch)
    BY <1>1 DEF startFlowFromHook, admitAndCreateRun, Run, rows
  <1> QED
    BY <1>1, <1>2, ScheduleKept

LEMMA handlerDeliveredSchedule ==
  ASSUME Types, Schedule, NEW c \in Posts, handlerDelivered(c), Frame(c)
  PROVE  Schedule'
  <1>1. c \in Workers /\ c \notin Ticks /\ fired' = fired
    BY WorkersAre DEF handlerDelivered, memory
  <1>2. \A r \in runs' : r \in runs \/ (r.by \notin Ticks /\ r.epoch = epoch)
    BY <1>1 DEF handlerDelivered, admitAndCreateRun, Run, rows
  <1> QED
    BY <1>1, <1>2, ScheduleKept

LEMMA deliveryThrowsSchedule ==
  ASSUME Types, Schedule, NEW c \in Posts, deliveryThrows(c), Frame(c)
  PROVE  Schedule'
  <1>1. c \in Workers /\ c \notin Ticks /\ fired' = fired
    BY WorkersAre DEF deliveryThrows, memory
  <1>2. \A r \in runs' : r \in runs \/ (r.by \notin Ticks /\ r.epoch = epoch)
    BY <1>1 DEF deliveryThrows, admitAndCreateRun, Run, rows
  <1> QED
    BY <1>1, <1>2, ScheduleKept

LEMMA executeTriggerSchedule ==
  ASSUME Types, Schedule, NEW c \in Posts, executeTrigger(c), Frame(c)
  PROVE  Schedule'
  <1>1. c \in Workers /\ c \notin Ticks /\ fired' = fired
    BY WorkersAre DEF executeTrigger, memory
  <1>2. \A r \in runs' : r \in runs \/ (r.by \notin Ticks /\ r.epoch = epoch)
    BY <1>1 DEF executeTrigger, admitAndCreateRun, Run, rows
  <1> QED
    BY <1>1, <1>2, ScheduleKept

LEMMA emitIntegrationFailureSchedule ==
  ASSUME Types, Schedule, NEW c \in Posts, emitIntegrationFailure(c), Frame(c)
  PROVE  Schedule'
  <1>1. c \in Workers /\ c \notin Ticks /\ fired' = fired
    BY WorkersAre DEF emitIntegrationFailure, memory
  <1>2. \A r \in runs' : r \in runs \/ (r.by \notin Ticks /\ r.epoch = epoch)
    BY <1>1 DEF emitIntegrationFailure, admitAndCreateRun, Run, rows
  <1> QED
    BY <1>1, <1>2, ScheduleKept

LEMMA dispatchDoneSchedule ==
  ASSUME Types, Schedule, NEW c \in Posts, dispatchDone(c), Frame(c)
  PROVE  Schedule'
  <1>1. c \in Workers /\ c \notin Ticks /\ fired' = fired
    BY WorkersAre DEF dispatchDone, memory
  <1>2. \A r \in runs' : r \in runs \/ (r.by \notin Ticks /\ r.epoch = epoch)
    BY <1>1 DEF dispatchDone, admitAndCreateRun, Run, rows
  <1> QED
    BY <1>1, <1>2, ScheduleKept

LEMMA recordDeliveryThrowsSchedule ==
  ASSUME Types, Schedule, NEW c \in Posts, recordDeliveryThrows(c), Frame(c)
  PROVE  Schedule'
  <1>1. c \in Workers /\ c \notin Ticks /\ fired' = fired
    BY WorkersAre DEF recordDeliveryThrows, memory
  <1>2. \A r \in runs' : r \in runs \/ (r.by \notin Ticks /\ r.epoch = epoch)
    BY <1>1 DEF recordDeliveryThrows, admitAndCreateRun, Run, rows
  <1> QED
    BY <1>1, <1>2, ScheduleKept

LEMMA matchFlowEventStartsThrowsSchedule ==
  ASSUME Types, Schedule, NEW c \in Posts, matchFlowEventStartsThrows(c), Frame(c)
  PROVE  Schedule'
  <1>1. c \in Workers /\ c \notin Ticks /\ fired' = fired
    BY WorkersAre DEF matchFlowEventStartsThrows, memory
  <1>2. \A r \in runs' : r \in runs \/ (r.by \notin Ticks /\ r.epoch = epoch)
    BY <1>1 DEF matchFlowEventStartsThrows, admitAndCreateRun, Run, rows
  <1> QED
    BY <1>1, <1>2, ScheduleKept

LEMMA AnswerSchedule ==
  ASSUME Types, Schedule, NEW c \in Posts, Answer(c), Frame(c)
  PROVE  Schedule'
  <1>1. c \in Workers /\ c \notin Ticks /\ fired' = fired
    BY WorkersAre DEF Answer, memory
  <1>2. \A r \in runs' : r \in runs \/ (r.by \notin Ticks /\ r.epoch = epoch)
    BY <1>1 DEF Answer, admitAndCreateRun, Run, rows
  <1> QED
    BY <1>1, <1>2, ScheduleKept

-----------------------------------------------------------------------------
(* Every step keeps the parts of the invariant. *)

Kept ==
    /\ Types'
    /\ Ran /\ Answers => Ran' /\ Answers'
    /\ Redelivered /\ Deliveries => Deliveries'
    /\ FiredFits /\ Schedule => Schedule'

LEMMA journalEventKeeps ==
  ASSUME Types, NEW c \in Posts, journalEvent(c)
  PROVE  Kept
  <1>1. Frame(c) /\ c \in Workers /\ (c \in Posts => c \notin Ticks)
    BY journalEventFrame, WorkersAre
  <1>2. c \in Posts /\ pc'[c] \in Delivering /\ ran'[c] =>
            /\ at'[c] = at[c]
            /\ (pc[c] \in Delivering /\ ran[c]) \/ \E r \in runs' : r.key = Key(c)
    BY <1>1 DEF Types, journalEvent, local, Goto, Loop, NextListener, Delivering, FindRunByIdempotencyKey,
                admitAndCreateRun, Run
  <1> QED
    BY <1>1, <1>2, journalEventTypes, RanKept, journalEventDeliveries, journalEventAnswers, journalEventSchedule DEF Kept

LEMMA dispatchHookKeeps ==
  ASSUME Types, NEW c \in Posts, dispatchHook(c)
  PROVE  Kept
  <1>1. Frame(c) /\ c \in Workers /\ (c \in Posts => c \notin Ticks)
    BY dispatchHookFrame, WorkersAre
  <1>2. c \in Posts /\ pc'[c] \in Delivering /\ ran'[c] =>
            /\ at'[c] = at[c]
            /\ (pc[c] \in Delivering /\ ran[c]) \/ \E r \in runs' : r.key = Key(c)
    BY <1>1 DEF Types, dispatchHook, local, Goto, Loop, NextListener, Delivering, FindRunByIdempotencyKey,
                admitAndCreateRun, Run
  <1> QED
    BY <1>1, <1>2, dispatchHookTypes, RanKept, dispatchHookDeliveries, dispatchHookAnswers, dispatchHookSchedule DEF Kept

LEMMA dispatchHooksDoneKeeps ==
  ASSUME Types, NEW c \in Posts, dispatchHooksDone(c)
  PROVE  Kept
  <1>1. Frame(c) /\ c \in Workers /\ (c \in Posts => c \notin Ticks)
    BY dispatchHooksDoneFrame, WorkersAre
  <1>2. c \in Posts /\ pc'[c] \in Delivering /\ ran'[c] =>
            /\ at'[c] = at[c]
            /\ (pc[c] \in Delivering /\ ran[c]) \/ \E r \in runs' : r.key = Key(c)
    BY <1>1 DEF Types, dispatchHooksDone, local, Goto, Loop, NextListener, Delivering, FindRunByIdempotencyKey,
                admitAndCreateRun, Run
  <1> QED
    BY <1>1, <1>2, dispatchHooksDoneTypes, RanKept, dispatchHooksDoneDeliveries, dispatchHooksDoneAnswers, dispatchHooksDoneSchedule DEF Kept

LEMMA createSessionKeeps ==
  ASSUME Types, NEW c \in Posts, createSession(c)
  PROVE  Kept
  <1>1. Frame(c) /\ c \in Workers /\ (c \in Posts => c \notin Ticks)
    BY createSessionFrame, WorkersAre
  <1>2. c \in Posts /\ pc'[c] \in Delivering /\ ran'[c] =>
            /\ at'[c] = at[c]
            /\ (pc[c] \in Delivering /\ ran[c]) \/ \E r \in runs' : r.key = Key(c)
    BY <1>1 DEF Types, createSession, local, Goto, Loop, NextListener, Delivering, FindRunByIdempotencyKey,
                admitAndCreateRun, Run
  <1> QED
    BY <1>1, <1>2, createSessionTypes, RanKept, createSessionDeliveries, createSessionAnswers, createSessionSchedule DEF Kept

LEMMA CreateHookRunKeeps ==
  ASSUME Types, NEW c \in Posts, CreateHookRun(c)
  PROVE  Kept
  <1>1. Frame(c) /\ c \in Workers /\ (c \in Posts => c \notin Ticks)
    BY CreateHookRunFrame, WorkersAre
  <1>2. c \in Posts /\ pc'[c] \in Delivering /\ ran'[c] =>
            /\ at'[c] = at[c]
            /\ (pc[c] \in Delivering /\ ran[c]) \/ \E r \in runs' : r.key = Key(c)
    <2>1. Run(c, Key(c), None).key = Key(c)
      BY DEF Run
    <2>2. CASE NextListener(c, "failed")
      BY <2>2, Noted DEF Outcomes, Delivering
    <2>3. CASE UNCHANGED at /\ Run(c, Key(c), None) \in runs'
      BY <2>1, <2>3
    <2> QED
      BY <2>2, <2>3 DEF CreateHookRun, admitAndCreateRun
  <1> QED
    BY <1>1, <1>2, CreateHookRunTypes, RanKept, CreateHookRunDeliveries, CreateHookRunAnswers, CreateHookRunSchedule DEF Kept

LEMMA invokeActionKeeps ==
  ASSUME Types, NEW c \in Posts, invokeAction(c)
  PROVE  Kept
  <1>1. Frame(c) /\ c \in Workers /\ (c \in Posts => c \notin Ticks)
    BY invokeActionFrame, WorkersAre
  <1>2. c \in Posts /\ pc'[c] \in Delivering /\ ran'[c] =>
            /\ at'[c] = at[c]
            /\ (pc[c] \in Delivering /\ ran[c]) \/ \E r \in runs' : r.key = Key(c)
    BY <1>1 DEF Types, invokeAction, local, Goto, Loop, NextListener, Delivering, FindRunByIdempotencyKey,
                admitAndCreateRun, Run
  <1> QED
    BY <1>1, <1>2, invokeActionTypes, RanKept, invokeActionDeliveries, invokeActionAnswers, invokeActionSchedule DEF Kept

LEMMA startFlowFromHookKeeps ==
  ASSUME Types, NEW c \in Posts, startFlowFromHook(c)
  PROVE  Kept
  <1>1. Frame(c) /\ c \in Workers /\ (c \in Posts => c \notin Ticks)
    BY startFlowFromHookFrame, WorkersAre
  <1>2. c \in Posts /\ pc'[c] \in Delivering /\ ran'[c] =>
            /\ at'[c] = at[c]
            /\ (pc[c] \in Delivering /\ ran[c]) \/ \E r \in runs' : r.key = Key(c)
    <2>1. Run(c, Key(c), "hook_flow").key = Key(c)
      BY DEF Run
    <2>2. CASE NextListener(c, "failed")
      BY <2>2, Noted DEF Outcomes, Delivering
    <2>3. CASE UNCHANGED at /\ Run(c, Key(c), "hook_flow") \in runs'
      BY <2>1, <2>3
    <2>4. CASE UNCHANGED <<at, runs>> /\ FindRunByIdempotencyKey(Key(c))
      BY <2>4 DEF FindRunByIdempotencyKey
    <2> QED
      BY <2>2, <2>3, <2>4 DEF startFlowFromHook
  <1> QED
    BY <1>1, <1>2, startFlowFromHookTypes, RanKept, startFlowFromHookDeliveries, startFlowFromHookAnswers, startFlowFromHookSchedule DEF Kept

LEMMA handlerDeliveredKeeps ==
  ASSUME Types, NEW c \in Posts, handlerDelivered(c)
  PROVE  Kept
  <1>1. Frame(c) /\ c \in Workers /\ (c \in Posts => c \notin Ticks)
    BY handlerDeliveredFrame, WorkersAre
  <1>2. c \in Posts /\ pc'[c] \in Delivering /\ ran'[c] =>
            /\ at'[c] = at[c]
            /\ (pc[c] \in Delivering /\ ran[c]) \/ \E r \in runs' : r.key = Key(c)
    BY <1>1 DEF Types, handlerDelivered, local, Goto, Loop, NextListener, Delivering, FindRunByIdempotencyKey,
                admitAndCreateRun, Run
  <1> QED
    BY <1>1, <1>2, handlerDeliveredTypes, RanKept, handlerDeliveredDeliveries, handlerDeliveredAnswers, handlerDeliveredSchedule DEF Kept

LEMMA deliveryThrowsKeeps ==
  ASSUME Types, NEW c \in Posts, deliveryThrows(c)
  PROVE  Kept
  <1>1. Frame(c) /\ c \in Workers /\ (c \in Posts => c \notin Ticks)
    BY deliveryThrowsFrame, WorkersAre
  <1>2. c \in Posts /\ pc'[c] \in Delivering /\ ran'[c] =>
            /\ at'[c] = at[c]
            /\ (pc[c] \in Delivering /\ ran[c]) \/ \E r \in runs' : r.key = Key(c)
    BY <1>1 DEF Types, deliveryThrows, local, Goto, Loop, NextListener, Delivering, FindRunByIdempotencyKey,
                admitAndCreateRun, Run
  <1> QED
    BY <1>1, <1>2, deliveryThrowsTypes, RanKept, deliveryThrowsDeliveries, deliveryThrowsAnswers, deliveryThrowsSchedule DEF Kept

LEMMA executeTriggerKeeps ==
  ASSUME Types, NEW c \in Posts, executeTrigger(c)
  PROVE  Kept
  <1>1. Frame(c) /\ c \in Workers /\ (c \in Posts => c \notin Ticks)
    BY executeTriggerFrame, WorkersAre
  <1>2. c \in Posts /\ pc'[c] \in Delivering /\ ran'[c] =>
            /\ at'[c] = at[c]
            /\ (pc[c] \in Delivering /\ ran[c]) \/ \E r \in runs' : r.key = Key(c)
    BY <1>1 DEF Types, executeTrigger, local, Goto, Loop, NextListener, Delivering, FindRunByIdempotencyKey,
                admitAndCreateRun, Run
  <1> QED
    BY <1>1, <1>2, executeTriggerTypes, RanKept, executeTriggerDeliveries, executeTriggerAnswers, executeTriggerSchedule DEF Kept

LEMMA emitIntegrationFailureKeeps ==
  ASSUME Types, NEW c \in Posts, emitIntegrationFailure(c)
  PROVE  Kept
  <1>1. Frame(c) /\ c \in Workers /\ (c \in Posts => c \notin Ticks)
    BY emitIntegrationFailureFrame, WorkersAre
  <1>2. c \in Posts /\ pc'[c] \in Delivering /\ ran'[c] =>
            /\ at'[c] = at[c]
            /\ (pc[c] \in Delivering /\ ran[c]) \/ \E r \in runs' : r.key = Key(c)
    BY <1>1 DEF Types, emitIntegrationFailure, local, Goto, Loop, NextListener, Delivering, FindRunByIdempotencyKey,
                admitAndCreateRun, Run
  <1> QED
    BY <1>1, <1>2, emitIntegrationFailureTypes, RanKept, emitIntegrationFailureDeliveries, emitIntegrationFailureAnswers, emitIntegrationFailureSchedule DEF Kept

LEMMA dispatchDoneKeeps ==
  ASSUME Types, NEW c \in Posts, dispatchDone(c)
  PROVE  Kept
  <1>1. Frame(c) /\ c \in Workers /\ (c \in Posts => c \notin Ticks)
    BY dispatchDoneFrame, WorkersAre
  <1>2. c \in Posts /\ pc'[c] \in Delivering /\ ran'[c] =>
            /\ at'[c] = at[c]
            /\ (pc[c] \in Delivering /\ ran[c]) \/ \E r \in runs' : r.key = Key(c)
    BY <1>1 DEF Types, dispatchDone, local, Goto, Loop, NextListener, Delivering, FindRunByIdempotencyKey,
                admitAndCreateRun, Run
  <1> QED
    BY <1>1, <1>2, dispatchDoneTypes, RanKept, dispatchDoneDeliveries, dispatchDoneAnswers, dispatchDoneSchedule DEF Kept

LEMMA recordDeliveryThrowsKeeps ==
  ASSUME Types, NEW c \in Posts, recordDeliveryThrows(c)
  PROVE  Kept
  <1>1. Frame(c) /\ c \in Workers /\ (c \in Posts => c \notin Ticks)
    BY recordDeliveryThrowsFrame, WorkersAre
  <1>2. c \in Posts /\ pc'[c] \in Delivering /\ ran'[c] =>
            /\ at'[c] = at[c]
            /\ (pc[c] \in Delivering /\ ran[c]) \/ \E r \in runs' : r.key = Key(c)
    BY <1>1 DEF Types, recordDeliveryThrows, local, Goto, Loop, NextListener, Delivering, FindRunByIdempotencyKey,
                admitAndCreateRun, Run
  <1> QED
    BY <1>1, <1>2, recordDeliveryThrowsTypes, RanKept, recordDeliveryThrowsDeliveries, recordDeliveryThrowsAnswers, recordDeliveryThrowsSchedule DEF Kept

LEMMA matchFlowEventStartsThrowsKeeps ==
  ASSUME Types, NEW c \in Posts, matchFlowEventStartsThrows(c)
  PROVE  Kept
  <1>1. Frame(c) /\ c \in Workers /\ (c \in Posts => c \notin Ticks)
    BY matchFlowEventStartsThrowsFrame, WorkersAre
  <1>2. c \in Posts /\ pc'[c] \in Delivering /\ ran'[c] =>
            /\ at'[c] = at[c]
            /\ (pc[c] \in Delivering /\ ran[c]) \/ \E r \in runs' : r.key = Key(c)
    BY <1>1 DEF Types, matchFlowEventStartsThrows, local, Goto, Loop, NextListener, Delivering, FindRunByIdempotencyKey,
                admitAndCreateRun, Run
  <1> QED
    BY <1>1, <1>2, matchFlowEventStartsThrowsTypes, RanKept, matchFlowEventStartsThrowsDeliveries, matchFlowEventStartsThrowsAnswers, matchFlowEventStartsThrowsSchedule DEF Kept

LEMMA AnswerKeeps ==
  ASSUME Types, NEW c \in Posts, Answer(c)
  PROVE  Kept
  <1>1. Frame(c) /\ c \in Workers /\ (c \in Posts => c \notin Ticks)
    BY AnswerFrame, WorkersAre
  <1>2. c \in Posts /\ pc'[c] \in Delivering /\ ran'[c] =>
            /\ at'[c] = at[c]
            /\ (pc[c] \in Delivering /\ ran[c]) \/ \E r \in runs' : r.key = Key(c)
    BY <1>1 DEF Types, Answer, local, Goto, Loop, NextListener, Delivering, FindRunByIdempotencyKey,
                admitAndCreateRun, Run
  <1> QED
    BY <1>1, <1>2, AnswerTypes, RanKept, AnswerDeliveries, AnswerAnswers, AnswerSchedule DEF Kept

LEMMA startFlowRunKeeps ==
  ASSUME Types, NEW w \in Workers, startFlowRun(w)
  PROVE  Kept
  <1>1. Frame(w) /\ w \in Workers /\ (w \in Posts => w \notin Ticks)
    BY startFlowRunFrame, WorkersAre
  <1>2. w \in Posts /\ pc'[w] \in Delivering /\ ran'[w] =>
            /\ at'[w] = at[w]
            /\ (pc[w] \in Delivering /\ ran[w]) \/ \E r \in runs' : r.key = Key(w)
    BY <1>1 DEF Types, startFlowRun, local, Goto, Loop, NextListener, Delivering, FindRunByIdempotencyKey,
                admitAndCreateRun, Run
  <1> QED
    BY <1>1, <1>2, startFlowRunTypes, RanKept, startFlowRunDeliveries, startFlowRunAnswers, startFlowRunSchedule DEF Kept

LEMMA dispatchFlowStepsKeeps ==
  ASSUME Types, NEW w \in Workers, dispatchFlowSteps(w)
  PROVE  Kept
  <1>1. Frame(w) /\ w \in Workers /\ (w \in Posts => w \notin Ticks)
    BY dispatchFlowStepsFrame, WorkersAre
  <1>2. w \in Posts /\ pc'[w] \in Delivering /\ ran'[w] =>
            /\ at'[w] = at[w]
            /\ (pc[w] \in Delivering /\ ran[w]) \/ \E r \in runs' : r.key = Key(w)
    BY <1>1 DEF Types, dispatchFlowSteps, local, Goto, Loop, NextListener, Delivering, FindRunByIdempotencyKey,
                admitAndCreateRun, Run
  <1> QED
    BY <1>1, <1>2, dispatchFlowStepsTypes, RanKept, dispatchFlowStepsDeliveries, dispatchFlowStepsAnswers, dispatchFlowStepsSchedule DEF Kept

LEMMA tickKeeps ==
  ASSUME Types, NEW k \in Ticks, tick(k)
  PROVE  Kept
  <1>1. Frame(k) /\ k \in Workers /\ (k \in Posts => k \notin Ticks)
    BY tickFrame, WorkersAre
  <1>2. k \in Posts /\ pc'[k] \in Delivering /\ ran'[k] =>
            /\ at'[k] = at[k]
            /\ (pc[k] \in Delivering /\ ran[k]) \/ \E r \in runs' : r.key = Key(k)
    BY <1>1 DEF Types, tick, local, Goto, Loop, NextListener, Delivering, FindRunByIdempotencyKey,
                admitAndCreateRun, Run
  <1> QED
    BY <1>1, <1>2, tickTypes, RanKept, tickDeliveries, tickAnswers, tickSchedule DEF Kept

LEMMA dueScheduledFlowKeeps ==
  ASSUME Types, NEW k \in Ticks, dueScheduledFlow(k)
  PROVE  Kept
  <1>1. Frame(k) /\ k \in Workers /\ (k \in Posts => k \notin Ticks)
    BY dueScheduledFlowFrame, WorkersAre
  <1>2. k \in Posts /\ pc'[k] \in Delivering /\ ran'[k] =>
            /\ at'[k] = at[k]
            /\ (pc[k] \in Delivering /\ ran[k]) \/ \E r \in runs' : r.key = Key(k)
    BY <1>1 DEF Types, dueScheduledFlow, local, Goto, Loop, NextListener, Delivering, FindRunByIdempotencyKey,
                admitAndCreateRun, Run
  <1> QED
    BY <1>1, <1>2, dueScheduledFlowTypes, RanKept, dueScheduledFlowDeliveries, dueScheduledFlowAnswers, dueScheduledFlowSchedule DEF Kept

LEMMA tickDoneKeeps ==
  ASSUME Types, NEW k \in Ticks, tickDone(k)
  PROVE  Kept
  <1>1. Frame(k) /\ k \in Workers /\ (k \in Posts => k \notin Ticks)
    BY tickDoneFrame, WorkersAre
  <1>2. k \in Posts /\ pc'[k] \in Delivering /\ ran'[k] =>
            /\ at'[k] = at[k]
            /\ (pc[k] \in Delivering /\ ran[k]) \/ \E r \in runs' : r.key = Key(k)
    BY <1>1 DEF Types, tickDone, local, Goto, Loop, NextListener, Delivering, FindRunByIdempotencyKey,
                admitAndCreateRun, Run
  <1> QED
    BY <1>1, <1>2, tickDoneTypes, RanKept, tickDoneDeliveries, tickDoneAnswers, tickDoneSchedule DEF Kept

LEMMA MinuteKeeps ==
  ASSUME Types, MinutePasses
  PROVE  Kept
  <1>1. UNCHANGED <<rows, memory, throws, local>> /\ minute \in Nat /\ minute' = minute + 1 /\ minute < MaxMinute
    BY DEF MinutePasses, Types
  <1>0. Types'
    BY MinuteTypes
  <1>2. Deliveries => Deliveries'
    BY <1>1 DEF Deliveries, Waited, OneRunPerDelivery, FindRunByIdempotencyKey, Key, rows, local
  <1>3. Ran /\ Answers => Ran' /\ Answers'
    BY <1>1 DEF Ran, FindRunByIdempotencyKey, Answers, Own, Truths, TrueOf, Passed, Served, ListenerOf, Key, rows, local
  <1>4. Schedule => Schedule'
    BY <1>1, DeliveryAssumption DEF Schedule, OneStartPerMinute, Starting, rows, memory, local
  <1> QED
    BY <1>0, <1>2, <1>3, <1>4 DEF Kept

LEMMA RestartKeeps ==
  ASSUME Types, Restart, throws' \in Nat, throws' >= throws
  PROVE  Kept
  BY RestartTypes, RestartRan, RestartDeliveries, RestartAnswers, RestartSchedule DEF Kept

LEMMA InitKeeps ==
  ASSUME Init
  PROVE  Types /\ Ran /\ Answers /\ Deliveries /\ (FiredFits => Schedule)
  <1>1. Posts \cap Ticks = {} /\ Posts \subseteq Workers /\ Ticks \subseteq Workers
    BY WorkersAre
  <1>2. PICK there \in Situations : pc = [w \in Workers |-> IF w \in there THEN "idle" ELSE "absent"]
    BY DEF Init
  <1>3. pc \in [Workers -> {"idle", "absent"}]
    BY <1>2
  <1>4. Types
    <2>1. pc \in [Workers -> PostLabels \cup TickLabels] /\ \A w \in Workers : pc[w] \in {"idle", "absent"}
      BY <1>3 DEF PostLabels, TickLabels
    <2>2. /\ \A c \in Posts : pc[c] \in PostLabels /\ pc[c] \notin Delivering
          /\ \A k \in Ticks : pc[k] \in TickLabels
      BY <1>1, <2>1 DEF PostLabels, TickLabels, Delivering
    <2>3. /\ at \in [Workers -> Nat \ {0}] /\ act \in [Posts -> Nat] /\ ran \in [Posts -> BOOLEAN]
          /\ stack \in [Posts -> Seq(Nat)] /\ results \in [Posts -> Seq(Outcomes)] /\ now \in [Ticks -> Nat]
          /\ minute \in Nat /\ epoch \in Nat /\ throws \in Nat /\ runs \subseteq Row
      BY DEF Init
    <2> QED
      BY <2>1, <2>2, <2>3 DEF Types
  <1>5. Ran /\ Deliveries
    BY <1>1, <1>3 DEF Init, Ran, Deliveries, Waited, OneRunPerDelivery, Delivering
  <1>6. Answers
    <2> SUFFICES ASSUME NEW c \in Posts PROVE Own(c)
      BY DEF Answers
    <2>1. results[c] = << >> /\ pc[c] \in {"idle", "absent"}
      BY <1>1, <1>3 DEF Init
    <2> QED
      BY <2>1 DEF Own, Truths, AtListener
  <1>7. FiredFits => Schedule
    BY <1>1, <1>3, DeliveryAssumption DEF Init, Schedule, OneStartPerMinute, FiredFits, Due
  <1> QED
    BY <1>4, <1>5, <1>6, <1>7

LEMMA NextKeeps ==
  ASSUME Types, [Next]_vars
  PROVE  Kept
  <1>1. ASSUME NEW c \in Posts, journalEvent(c) \/ Post(c) PROVE Kept
    BY <1>1, WorkersAre, journalEventKeeps, dispatchHookKeeps, dispatchHooksDoneKeeps,
       createSessionKeeps, CreateHookRunKeeps, invokeActionKeeps, startFlowFromHookKeeps,
       handlerDeliveredKeeps, deliveryThrowsKeeps, executeTriggerKeeps,
       emitIntegrationFailureKeeps, dispatchDoneKeeps, recordDeliveryThrowsKeeps,
       matchFlowEventStartsThrowsKeeps, AnswerKeeps, startFlowRunKeeps, dispatchFlowStepsKeeps DEF Post
  <1>2. ASSUME NEW k \in Ticks, tick(k) \/ Tick(k) PROVE Kept
    BY <1>2, WorkersAre, tickKeeps, dueScheduledFlowKeeps, startFlowRunKeeps, dispatchFlowStepsKeeps,
       tickDoneKeeps DEF Tick
  <1>3. ASSUME NEW k \in Ticks, tickRejects(k) PROVE Kept
    <2>1. Restart /\ throws' \in Nat /\ throws' >= throws
      BY <1>3 DEF tickRejects, Types
    <2> QED
      BY <2>1, RestartKeeps
  <1>4. CASE MinutePasses
    BY <1>4, MinuteKeeps
  <1>5. CASE Crash
    <2>1. Restart /\ throws' \in Nat /\ throws' >= throws
      BY <1>5 DEF Crash, Types
    <2> QED
      BY <2>1, RestartKeeps
  <1>6. CASE UNCHANGED vars
    BY <1>6 DEF vars, rows, memory, local, Kept, Types, Ran, Deliveries, Waited, OneRunPerDelivery,
                FindRunByIdempotencyKey, Key, Answers, Own, Truths, TrueOf, Passed, Served, ListenerOf,
                Schedule, OneStartPerMinute, Starting
  <1> QED
    BY <1>1, <1>2, <1>3, <1>4, <1>5, <1>6 DEF Next

(* The outcomes a post is answered with are complete, or dropped together    *)
(* because a handler threw, and each of them is true of the rows             *)
(* (dispatchHooksForEvent, emitAndDeliver).                                  *)
THEOREM AnswersHold == Spec => []AnswersAreTrue
  <1> DEFINE I == Types /\ Ran /\ Answers
  <1>1. Init => I
    BY InitKeeps
  <1>2. I /\ [Next]_vars => I'
    BY NextKeeps DEF Kept
  <1>3. I => AnswersAreTrue
    <2> SUFFICES ASSUME Answers PROVE AnswersAreTrue
      OBVIOUS
    <2>1. ResultsAreTrue
      BY DEF Answers, Own, Truths, TrueOf, Invokes, ResultsAreTrue, FindRunByIdempotencyKey
    <2>2. EveryListenerServed
      BY DEF Answers, Own, Served, EveryListenerServed
    <2> QED
      BY <2>1, <2>2 DEF AnswersAreTrue
  <1> HIDE DEF I
  <1> QED
    BY <1>1, <1>2, <1>3, PTL DEF Spec

(* Whatever of a delivery was done when a post failed or the daemon died, an *)
(* event that is posted again finds the run of the first post               *)
(* (dispatchHook, dispatchMatchedEventHandler).                             *)
THEOREM DeliveredOnce == ASSUME Redelivered PROVE Spec => []OneRunPerDelivery
  <1> DEFINE I == Types /\ Deliveries
  <1>1. Init => I
    BY InitKeeps
  <1>2. I /\ [Next]_vars => I'
    BY NextKeeps DEF Kept
  <1>3. I => OneRunPerDelivery
    BY DEF Deliveries
  <1> HIDE DEF I
  <1> QED
    BY <1>1, <1>2, <1>3, PTL DEF Spec

(* However ticks overlap and the clock is set back, a flow is started once   *)
(* for a minute until a restart (tick).                                     *)
THEOREM ScheduledOnce == ASSUME FiredFits PROVE Spec => []OneStartPerMinute
  <1> DEFINE I == Types /\ Schedule
  <1>1. Init => I
    BY InitKeeps
  <1>2. I /\ [Next]_vars => I'
    BY NextKeeps DEF Kept
  <1>3. I => OneStartPerMinute
    BY DEF Schedule
  <1> HIDE DEF I
  <1> QED
    BY <1>1, <1>2, <1>3, PTL DEF Spec

(* The two together: what a delivery or the clock starts is started once     *)
(* (dispatchHook, tick).                                                     *)
THEOREM NothingStartsTwice == ASSUME Redelivered, FiredFits PROVE Spec => []StartedOnce
  BY DeliveredOnce, ScheduledOnce, PTL DEF StartedOnce
=============================================================================
