------------------------ MODULE RunLifecycleProofs ------------------------
(***************************************************************************)
(* Proofs about RunLifecycle, for every set of runs, calls and scenarios.    *)
(*                                                                           *)
(* Nothing serialises the writers of a run, so what the module promises      *)
(* depends on which calls overlap.  A call works on the run it names         *)
(* (Places); with one slot no two calls are inside their handlers, timers    *)
(* apart (Alone), and a call that waits for another one begins after its end *)
(* (Ordered).  From these follow that a report writes back the memo that is  *)
(* stored (Reports) and that a run which waits either has a pending gate or  *)
(* is in the hands of the call that decided it (Waits).                      *)
(***************************************************************************)
EXTENDS RunLifecycle, FiniteSetTheorems, TLAPS

(* The handler of a call, and the passes of the boot. *)
Shared == {"fail", "failed", "headless", "memos", "complete", "refresh", "derive", "setStatus", "done"}
CallLabels == Shared \union
    {"idle", "insert", "park", "insertGate", "gateRun", "requireInput", "resolve", "decide", "decided",
     "bind", "reject", "resume", "cancel", "cancelled", "step", "route", "report", "memo", "mark",
     "list", "sweep", "timer", "sweepAgain", "dead"}
BootLabels == Shared \union {"boot", "next"}

Past == {"timer", "sweepAgain", "done", "dead"}
Inside == CallLabels \ (Past \union {"idle"})

Types ==
    /\ TypeOK
    /\ scenario \in Scenarios /\ crashes \in Nat
    /\ pc \in [Workers -> CallLabels \union BootLabels]
    /\ \A c \in Calls : pc[c] \in CallLabels
    /\ \A w \in Boot : pc[w] \in BootLabels

(* Which requests reach which part of a handler. *)
Kind(c) == Request[c].kind
Reaches(c, label) ==
    /\ label \in {"insertGate", "gateRun", "requireInput"} => Kind(c) \in {"gate", "attach"}
    /\ label \in {"resolve", "decide", "decided", "resume"} => Kind(c) = "resolve"
    /\ label \in {"report", "memo"} => Kind(c) = "report"
    /\ label = "insert" => Kind(c) \in {"create", "attach"}
    /\ label = "park" => Kind(c) = "attach"
    /\ label \in {"bind", "reject"} =>
          \/ Kind(c) = "attach"
          \/ Kind(c) = "resolve" /\ Kind(Request[c].gate) = "attach"

Places ==
    \A c \in Calls :
        /\ c \in Made => of[c] = Request[c].run
        /\ pc[c] # "idle" => c \in Made /\ Reaches(c, pc[c])

(* A step-contract route is not taken on a headless run. *)
RoutesFlow == \A c \in Calls : pc[c] = "route" => of[c] \notin Headless

(* One slot: one call at a time, besides the timers of session cancels. *)
Alone ==
    scenario.slots = 1 =>
        \A c, d \in Calls : pc[c] \in Inside /\ pc[d] \in Inside => c = d

Ordered ==
    \A c \in Made : \A b \in scenario.after[c] : pc[c] # "idle" => pc[b] \in Past

(* Without a crash there is no boot pass. *)
BootRests == scenario.crashes = 0 => \A w \in Boot : pc[w] = "done"

Inv == Types /\ Places /\ RoutesFlow /\ Alone /\ Ordered /\ BootRests

-----------------------------------------------------------------------------
(* Two reports of one run do not overlap: the scenario has one slot, or the client
   of one waits for the other. *)
ReportsApart ==
    \A s \in Scenarios : s.slots = 1 \/ \A c, d \in DOMAIN s.request :
        /\ s.request[c].kind = "report" /\ s.request[d].kind = "report"
        /\ s.request[c].run = s.request[d].run
        => c = d \/ c \in s.after[d] \/ d \in s.after[c]

(* A report writes back what is stored, and a run is completed for a completed step. *)
MemosFresh ==
    /\ \A c \in Calls : pc[c] = "memo" => seen[c].memo = memo[of[c]]
    /\ \A w \in Workers : pc[w] = "complete" => memo[of[w]] = "completed"

ReportInv == Inv /\ MemosFresh /\ CompletedAsReported

(* No orchestration is attached where calls come one at a time: the bind of an
   approved one may be refused, and its run then waits without a gate. *)
NoAttach ==
    \A s \in Scenarios : s.slots = 1 /\ s.crashes = 0 =>
        \A c \in DOMAIN s.request : s.request[c].kind # "attach"

Pending(r) == \E g \in Made : gate[g] = "pending" /\ Request[g].run = r
Deciding == {"decided", "resume", "fail", "failed"}

Waits ==
    Serial =>
        /\ \A c \in Calls : pc[c] \in {"gateRun", "requireInput"} => gate[c] = "pending"
        /\ \A r \in Runs : life[r] = "input-required" =>
              Pending(r) \/ \E c \in Calls : of[c] = r /\ pc[c] \in Deciding

GateInv == Inv /\ Waits

-----------------------------------------------------------------------------
LEMMA ScenarioFacts ==
  ASSUME Types
  PROVE  /\ Made \subseteq Calls
         /\ scenario.slots \in Nat /\ scenario.crashes \in Nat /\ Headless \subseteq Runs
         /\ \A c \in Made : /\ Request[c] \in RequestType
                            /\ scenario.after[c] \subseteq Made
         /\ \A c \in Made : Kind(c) = "resolve" =>
               /\ Request[c].gate \in Made /\ Request[Request[c].gate].run = Request[c].run
         /\ Calls \intersect Boot = {} /\ Workers = Calls \union Boot
         /\ Boot = {Orphans, Reconcile}
  <1>1. Scenario(scenario)
    BY LifecycleAssumption DEF Types
  <1> QED
    BY <1>1, LifecycleAssumption DEF Scenario, Made, Request, Headless, Kind, Workers, Boot

LEMMA StatusType ==
  ASSUME NEW ls, NEW b PROVE DeriveSessionStatus(ls, b) \in Statuses
  BY DEF DeriveSessionStatus, Statuses

LEMMA FirstStepFacts ==
  ASSUME NEW c, Request[c].kind \in Kinds
  PROVE  /\ FirstStep(Request[c].kind) \in Inside
         /\ Reaches(c, FirstStep(Request[c].kind))
         /\ FirstStep(Request[c].kind) \notin {"route", "memo", "complete", "gateRun", "requireInput"}
  BY DEF FirstStep, Kinds, Inside, CallLabels, Shared, Past, Reaches, Kind

-----------------------------------------------------------------------------
(* What a step of one worker does to the places: it goes where its kind of call
   goes, and only a call that begins comes into a handler. *)
Edge(w, label) ==
    /\ pc' = [pc EXCEPT ![w] = label] /\ UNCHANGED scenario
    /\ \A v \in Workers : v \notin Boot => of'[v] = of[v]
    /\ w \in Boot => pc[w] # "done" /\ label \in BootLabels
    /\ w \in Calls =>
          /\ label \in CallLabels \ {"idle"} /\ w \in Made /\ Reaches(w, label)
          /\ label = "route" => of[w] \notin Headless
          /\ pc[w] \in Past => label \in Past
          /\ label \in Inside => pc[w] \in Inside \/ Begin(w)
          /\ pc[w] = "idle" => Begin(w)

Moves(w) == \E label \in CallLabels \union BootLabels : Edge(w, label)

LEMMA PlainEdge ==
  ASSUME Types, Places, NEW w \in Workers, NEW label, UNCHANGED <<scenario, of>>, Goto(w, label),
         pc[w] \notin {"idle", "done"}, label # "idle",
         w \in Calls => label \in CallLabels /\ Reaches(w, label),
         w \in Boot => label \in BootLabels,
         w \in Calls /\ label = "route" => of[w] \notin Headless,
         w \in Calls /\ pc[w] \in Past => label \in Past
  PROVE  Moves(w)
  <1>1. w \in Calls \/ w \in Boot
    BY DEF Workers
  <1>2. w \in Calls => pc[w] \in CallLabels /\ w \in Made
    BY DEF Types, Places
  <1>3. Edge(w, label)
    BY <1>2, ScenarioFacts DEF Edge, Goto, Inside
  <1> QED
    BY <1>1, <1>3 DEF Moves

LEMMA MovesTypes ==
  ASSUME Types, NEW w \in Workers, Moves(w), UNCHANGED crashes, TypeOK'
  PROVE  Types'
  <1>1. PICK label \in CallLabels \union BootLabels : Edge(w, label)
    BY DEF Moves
  <1> QED
    BY <1>1, ScenarioFacts DEF Types, Edge

LEMMA CreateRunEdge ==
  ASSUME Types, Places, NEW w \in Calls, CreateRun(w), UNCHANGED scenario
  PROVE  Types' /\ Moves(w)
  <1>0. /\ w \in Workers /\ pc[w] \notin {"idle", "done"} /\ of[w] \in Runs
        /\ w \in Calls => w \in Made /\ Reaches(w, pc[w]) /\ w \notin Boot /\ pc[w] \in CallLabels
        /\ w \in Boot => pc[w] \in BootLabels /\ w \notin Calls
    BY ScenarioFacts DEF CreateRun, Types, TypeOK, Places, Workers
  <1>1. \E label :
          /\ Goto(w, label) /\ label # "idle"
          /\ w \in Calls => label \in CallLabels /\ Reaches(w, label)
          /\ w \in Boot => label \in BootLabels
          /\ w \in Calls /\ label = "route" => of[w] \notin Headless
          /\ w \in Calls /\ pc[w] \in Past => label \in Past
    BY <1>0, ScenarioFacts DEF CreateRun, SetLife, Reaches, Kind, CallLabels, BootLabels, Shared, Past
  <1>2. Moves(w)
    BY <1>0, <1>1, PlainEdge DEF CreateRun
  <1>3. TypeOK'
    BY <1>0, StatusType DEF CreateRun, SetLife, rows, Types, TypeOK, Terminal, Active, Statuses
  <1> QED
    BY <1>0, <1>2, <1>3, MovesTypes DEF CreateRun

LEMMA ParkRunEdge ==
  ASSUME Types, Places, NEW w \in Calls, ParkRun(w), UNCHANGED scenario
  PROVE  Types' /\ Moves(w)
  <1>0. /\ w \in Workers /\ pc[w] \notin {"idle", "done"} /\ of[w] \in Runs
        /\ w \in Calls => w \in Made /\ Reaches(w, pc[w]) /\ w \notin Boot /\ pc[w] \in CallLabels
        /\ w \in Boot => pc[w] \in BootLabels /\ w \notin Calls
    BY ScenarioFacts DEF ParkRun, Types, TypeOK, Places, Workers
  <1>1. \E label :
          /\ Goto(w, label) /\ label # "idle"
          /\ w \in Calls => label \in CallLabels /\ Reaches(w, label)
          /\ w \in Boot => label \in BootLabels
          /\ w \in Calls /\ label = "route" => of[w] \notin Headless
          /\ w \in Calls /\ pc[w] \in Past => label \in Past
    BY <1>0, ScenarioFacts DEF ParkRun, SetLife, Reaches, Kind, CallLabels, BootLabels, Shared, Past
  <1>2. Moves(w)
    BY <1>0, <1>1, PlainEdge DEF ParkRun
  <1>3. TypeOK'
    BY <1>0, StatusType DEF ParkRun, SetLife, rows, Types, TypeOK, Terminal, Active, Statuses
  <1> QED
    BY <1>0, <1>2, <1>3, MovesTypes DEF ParkRun

LEMMA InsertGateEdge ==
  ASSUME Types, Places, NEW w \in Calls, InsertGate(w), UNCHANGED scenario
  PROVE  Types' /\ Moves(w)
  <1>0. /\ w \in Workers /\ pc[w] \notin {"idle", "done"} /\ of[w] \in Runs
        /\ w \in Calls => w \in Made /\ Reaches(w, pc[w]) /\ w \notin Boot /\ pc[w] \in CallLabels
        /\ w \in Boot => pc[w] \in BootLabels /\ w \notin Calls
    BY ScenarioFacts DEF InsertGate, Types, TypeOK, Places, Workers
  <1>1. \E label :
          /\ Goto(w, label) /\ label # "idle"
          /\ w \in Calls => label \in CallLabels /\ Reaches(w, label)
          /\ w \in Boot => label \in BootLabels
          /\ w \in Calls /\ label = "route" => of[w] \notin Headless
          /\ w \in Calls /\ pc[w] \in Past => label \in Past
    BY <1>0, ScenarioFacts DEF InsertGate, Reaches, Kind, CallLabels, BootLabels, Shared, Past
  <1>2. Moves(w)
    BY <1>0, <1>1, PlainEdge DEF InsertGate
  <1>3. TypeOK'
    BY <1>0, StatusType DEF InsertGate, rows, Types, TypeOK, Terminal, Active, Statuses
  <1> QED
    BY <1>0, <1>2, <1>3, MovesTypes DEF InsertGate

LEMMA GetGatedRunEdge ==
  ASSUME Types, Places, NEW w \in Calls, GetGatedRun(w), UNCHANGED scenario
  PROVE  Types' /\ Moves(w)
  <1>0. /\ w \in Workers /\ pc[w] \notin {"idle", "done"} /\ of[w] \in Runs
        /\ w \in Calls => w \in Made /\ Reaches(w, pc[w]) /\ w \notin Boot /\ pc[w] \in CallLabels
        /\ w \in Boot => pc[w] \in BootLabels /\ w \notin Calls
    BY ScenarioFacts DEF GetGatedRun, Types, TypeOK, Places, Workers
  <1>1. \E label :
          /\ Goto(w, label) /\ label # "idle"
          /\ w \in Calls => label \in CallLabels /\ Reaches(w, label)
          /\ w \in Boot => label \in BootLabels
          /\ w \in Calls /\ label = "route" => of[w] \notin Headless
          /\ w \in Calls /\ pc[w] \in Past => label \in Past
    BY <1>0, ScenarioFacts DEF GetGatedRun, Leave, Reaches, Kind, CallLabels, BootLabels, Shared, Past
  <1>2. Moves(w)
    BY <1>0, <1>1, PlainEdge DEF GetGatedRun
  <1>3. TypeOK'
    BY <1>0, StatusType DEF GetGatedRun, rows, Types, TypeOK, Terminal, Active, Statuses
  <1> QED
    BY <1>0, <1>2, <1>3, MovesTypes DEF GetGatedRun

LEMMA RequireInputEdge ==
  ASSUME Types, Places, NEW w \in Calls, RequireInput(w), UNCHANGED scenario
  PROVE  Types' /\ Moves(w)
  <1>0. /\ w \in Workers /\ pc[w] \notin {"idle", "done"} /\ of[w] \in Runs
        /\ w \in Calls => w \in Made /\ Reaches(w, pc[w]) /\ w \notin Boot /\ pc[w] \in CallLabels
        /\ w \in Boot => pc[w] \in BootLabels /\ w \notin Calls
    BY ScenarioFacts DEF RequireInput, Types, TypeOK, Places, Workers
  <1>1. \E label :
          /\ Goto(w, label) /\ label # "idle"
          /\ w \in Calls => label \in CallLabels /\ Reaches(w, label)
          /\ w \in Boot => label \in BootLabels
          /\ w \in Calls /\ label = "route" => of[w] \notin Headless
          /\ w \in Calls /\ pc[w] \in Past => label \in Past
    BY <1>0, ScenarioFacts DEF RequireInput, Leave, SetLife, Reaches, Kind, CallLabels, BootLabels, Shared, Past
  <1>2. Moves(w)
    BY <1>0, <1>1, PlainEdge DEF RequireInput
  <1>3. TypeOK'
    BY <1>0, StatusType DEF RequireInput, SetLife, rows, Types, TypeOK, Terminal, Active, Statuses
  <1> QED
    BY <1>0, <1>2, <1>3, MovesTypes DEF RequireInput

LEMMA GetGateEdge ==
  ASSUME Types, Places, NEW w \in Calls, GetGate(w), UNCHANGED scenario
  PROVE  Types' /\ Moves(w)
  <1>0. /\ w \in Workers /\ pc[w] \notin {"idle", "done"} /\ of[w] \in Runs
        /\ w \in Calls => w \in Made /\ Reaches(w, pc[w]) /\ w \notin Boot /\ pc[w] \in CallLabels
        /\ w \in Boot => pc[w] \in BootLabels /\ w \notin Calls
    BY ScenarioFacts DEF GetGate, Types, TypeOK, Places, Workers
  <1>1. \E label :
          /\ Goto(w, label) /\ label # "idle"
          /\ w \in Calls => label \in CallLabels /\ Reaches(w, label)
          /\ w \in Boot => label \in BootLabels
          /\ w \in Calls /\ label = "route" => of[w] \notin Headless
          /\ w \in Calls /\ pc[w] \in Past => label \in Past
    BY <1>0, ScenarioFacts DEF GetGate, Leave, Reaches, Kind, CallLabels, BootLabels, Shared, Past
  <1>2. Moves(w)
    BY <1>0, <1>1, PlainEdge DEF GetGate
  <1>3. TypeOK'
    BY <1>0, StatusType DEF GetGate, rows, Types, TypeOK, Terminal, Active, Statuses
  <1> QED
    BY <1>0, <1>2, <1>3, MovesTypes DEF GetGate

LEMMA UpdateGateStatusEdge ==
  ASSUME Types, Places, NEW w \in Calls, UpdateGateStatus(w), UNCHANGED scenario
  PROVE  Types' /\ Moves(w)
  <1>0. /\ w \in Workers /\ pc[w] \notin {"idle", "done"} /\ of[w] \in Runs
        /\ w \in Calls => w \in Made /\ Reaches(w, pc[w]) /\ w \notin Boot /\ pc[w] \in CallLabels
        /\ w \in Boot => pc[w] \in BootLabels /\ w \notin Calls
    BY ScenarioFacts DEF UpdateGateStatus, Types, TypeOK, Places, Workers
  <1>1. \E label :
          /\ Goto(w, label) /\ label # "idle"
          /\ w \in Calls => label \in CallLabels /\ Reaches(w, label)
          /\ w \in Boot => label \in BootLabels
          /\ w \in Calls /\ label = "route" => of[w] \notin Headless
          /\ w \in Calls /\ pc[w] \in Past => label \in Past
    BY <1>0, ScenarioFacts DEF UpdateGateStatus, Reaches, Kind, CallLabels, BootLabels, Shared, Past
  <1>2. Moves(w)
    BY <1>0, <1>1, PlainEdge DEF UpdateGateStatus
  <1>3. TypeOK'
    BY <1>0, StatusType DEF UpdateGateStatus, rows, Types, TypeOK, Terminal, Active, Statuses
  <1> QED
    BY <1>0, <1>2, <1>3, MovesTypes DEF UpdateGateStatus

LEMMA DecideRunEdge ==
  ASSUME Types, Places, NEW w \in Calls, DecideRun(w), UNCHANGED scenario
  PROVE  Types' /\ Moves(w)
  <1>0. /\ w \in Workers /\ pc[w] \notin {"idle", "done"} /\ of[w] \in Runs
        /\ w \in Calls => w \in Made /\ Reaches(w, pc[w]) /\ w \notin Boot /\ pc[w] \in CallLabels
        /\ w \in Boot => pc[w] \in BootLabels /\ w \notin Calls
    BY ScenarioFacts DEF DecideRun, Types, TypeOK, Places, Workers
  <1>1. \E label :
          /\ Goto(w, label) /\ label # "idle"
          /\ w \in Calls => label \in CallLabels /\ Reaches(w, label)
          /\ w \in Boot => label \in BootLabels
          /\ w \in Calls /\ label = "route" => of[w] \notin Headless
          /\ w \in Calls /\ pc[w] \in Past => label \in Past
    BY <1>0, ScenarioFacts DEF DecideRun, Leave, Orchestration, Reaches, Kind, CallLabels, BootLabels, Shared, Past
  <1>2. Moves(w)
    BY <1>0, <1>1, PlainEdge DEF DecideRun
  <1>3. TypeOK'
    BY <1>0, StatusType DEF DecideRun, Orchestration, rows, Types, TypeOK, Terminal, Active, Statuses
  <1> QED
    BY <1>0, <1>2, <1>3, MovesTypes DEF DecideRun

LEMMA BindEdge ==
  ASSUME Types, Places, NEW w \in Calls, Bind(w), UNCHANGED scenario
  PROVE  Types' /\ Moves(w)
  <1>0. /\ w \in Workers /\ pc[w] \notin {"idle", "done"} /\ of[w] \in Runs
        /\ w \in Calls => w \in Made /\ Reaches(w, pc[w]) /\ w \notin Boot /\ pc[w] \in CallLabels
        /\ w \in Boot => pc[w] \in BootLabels /\ w \notin Calls
    BY ScenarioFacts DEF Bind, Types, TypeOK, Places, Workers
  <1>1. \E label :
          /\ Goto(w, label) /\ label # "idle"
          /\ w \in Calls => label \in CallLabels /\ Reaches(w, label)
          /\ w \in Boot => label \in BootLabels
          /\ w \in Calls /\ label = "route" => of[w] \notin Headless
          /\ w \in Calls /\ pc[w] \in Past => label \in Past
    BY <1>0, ScenarioFacts DEF Bind, Leave, SetLife, Reaches, Kind, CallLabels, BootLabels, Shared, Past
  <1>2. Moves(w)
    BY <1>0, <1>1, PlainEdge DEF Bind
  <1>3. TypeOK'
    BY <1>0, StatusType DEF Bind, SetLife, rows, Types, TypeOK, Terminal, Active, Statuses
  <1> QED
    BY <1>0, <1>2, <1>3, MovesTypes DEF Bind

LEMMA RejectOrchestrationEdge ==
  ASSUME Types, Places, NEW w \in Calls, RejectOrchestration(w), UNCHANGED scenario
  PROVE  Types' /\ Moves(w)
  <1>0. /\ w \in Workers /\ pc[w] \notin {"idle", "done"} /\ of[w] \in Runs
        /\ w \in Calls => w \in Made /\ Reaches(w, pc[w]) /\ w \notin Boot /\ pc[w] \in CallLabels
        /\ w \in Boot => pc[w] \in BootLabels /\ w \notin Calls
    BY ScenarioFacts DEF RejectOrchestration, Types, TypeOK, Places, Workers
  <1>1. \E label :
          /\ Goto(w, label) /\ label # "idle"
          /\ w \in Calls => label \in CallLabels /\ Reaches(w, label)
          /\ w \in Boot => label \in BootLabels
          /\ w \in Calls /\ label = "route" => of[w] \notin Headless
          /\ w \in Calls /\ pc[w] \in Past => label \in Past
    BY <1>0, ScenarioFacts DEF RejectOrchestration, SetLife, Reaches, Kind, CallLabels, BootLabels, Shared, Past
  <1>2. Moves(w)
    BY <1>0, <1>1, PlainEdge DEF RejectOrchestration
  <1>3. TypeOK'
    BY <1>0, StatusType DEF RejectOrchestration, SetLife, rows, Types, TypeOK, Terminal, Active, Statuses
  <1> QED
    BY <1>0, <1>2, <1>3, MovesTypes DEF RejectOrchestration

LEMMA ResumeEdge ==
  ASSUME Types, Places, NEW w \in Calls, Resume(w), UNCHANGED scenario
  PROVE  Types' /\ Moves(w)
  <1>0. /\ w \in Workers /\ pc[w] \notin {"idle", "done"} /\ of[w] \in Runs
        /\ w \in Calls => w \in Made /\ Reaches(w, pc[w]) /\ w \notin Boot /\ pc[w] \in CallLabels
        /\ w \in Boot => pc[w] \in BootLabels /\ w \notin Calls
    BY ScenarioFacts DEF Resume, Types, TypeOK, Places, Workers
  <1>1. \E label :
          /\ Goto(w, label) /\ label # "idle"
          /\ w \in Calls => label \in CallLabels /\ Reaches(w, label)
          /\ w \in Boot => label \in BootLabels
          /\ w \in Calls /\ label = "route" => of[w] \notin Headless
          /\ w \in Calls /\ pc[w] \in Past => label \in Past
    BY <1>0, ScenarioFacts DEF Resume, Leave, SetLife, Reaches, Kind, CallLabels, BootLabels, Shared, Past
  <1>2. Moves(w)
    BY <1>0, <1>1, PlainEdge DEF Resume
  <1>3. TypeOK'
    BY <1>0, StatusType DEF Resume, SetLife, rows, Types, TypeOK, Terminal, Active, Statuses
  <1> QED
    BY <1>0, <1>2, <1>3, MovesTypes DEF Resume

LEMMA GetCancellingEdge ==
  ASSUME Types, Places, NEW w \in Calls, GetCancelling(w), UNCHANGED scenario
  PROVE  Types' /\ Moves(w)
  <1>0. /\ w \in Workers /\ pc[w] \notin {"idle", "done"} /\ of[w] \in Runs
        /\ w \in Calls => w \in Made /\ Reaches(w, pc[w]) /\ w \notin Boot /\ pc[w] \in CallLabels
        /\ w \in Boot => pc[w] \in BootLabels /\ w \notin Calls
    BY ScenarioFacts DEF GetCancelling, Types, TypeOK, Places, Workers
  <1>1. \E label :
          /\ Goto(w, label) /\ label # "idle"
          /\ w \in Calls => label \in CallLabels /\ Reaches(w, label)
          /\ w \in Boot => label \in BootLabels
          /\ w \in Calls /\ label = "route" => of[w] \notin Headless
          /\ w \in Calls /\ pc[w] \in Past => label \in Past
    BY <1>0, ScenarioFacts DEF GetCancelling, Leave, Reaches, Kind, CallLabels, BootLabels, Shared, Past
  <1>2. Moves(w)
    BY <1>0, <1>1, PlainEdge DEF GetCancelling
  <1>3. TypeOK'
    BY <1>0, StatusType DEF GetCancelling, rows, Types, TypeOK, Terminal, Active, Statuses
  <1> QED
    BY <1>0, <1>2, <1>3, MovesTypes DEF GetCancelling

LEMMA CancelRunEdge ==
  ASSUME Types, Places, NEW w \in Calls, CancelRun(w), UNCHANGED scenario
  PROVE  Types' /\ Moves(w)
  <1>0. /\ w \in Workers /\ pc[w] \notin {"idle", "done"} /\ of[w] \in Runs
        /\ w \in Calls => w \in Made /\ Reaches(w, pc[w]) /\ w \notin Boot /\ pc[w] \in CallLabels
        /\ w \in Boot => pc[w] \in BootLabels /\ w \notin Calls
    BY ScenarioFacts DEF CancelRun, Types, TypeOK, Places, Workers
  <1>1. \E label :
          /\ Goto(w, label) /\ label # "idle"
          /\ w \in Calls => label \in CallLabels /\ Reaches(w, label)
          /\ w \in Boot => label \in BootLabels
          /\ w \in Calls /\ label = "route" => of[w] \notin Headless
          /\ w \in Calls /\ pc[w] \in Past => label \in Past
    BY <1>0, ScenarioFacts DEF CancelRun, SetLife, Reaches, Kind, CallLabels, BootLabels, Shared, Past
  <1>2. Moves(w)
    BY <1>0, <1>1, PlainEdge DEF CancelRun
  <1>3. TypeOK'
    BY <1>0, StatusType DEF CancelRun, SetLife, rows, Types, TypeOK, Terminal, Active, Statuses
  <1> QED
    BY <1>0, <1>2, <1>3, MovesTypes DEF CancelRun

LEMMA GetStepRunEdge ==
  ASSUME Types, Places, NEW w \in Calls, GetStepRun(w), UNCHANGED scenario
  PROVE  Types' /\ Moves(w)
  <1>0. /\ w \in Workers /\ pc[w] \notin {"idle", "done"} /\ of[w] \in Runs
        /\ w \in Calls => w \in Made /\ Reaches(w, pc[w]) /\ w \notin Boot /\ pc[w] \in CallLabels
        /\ w \in Boot => pc[w] \in BootLabels /\ w \notin Calls
    BY ScenarioFacts DEF GetStepRun, Types, TypeOK, Places, Workers
  <1>1. \E label :
          /\ Goto(w, label) /\ label # "idle"
          /\ w \in Calls => label \in CallLabels /\ Reaches(w, label)
          /\ w \in Boot => label \in BootLabels
          /\ w \in Calls /\ label = "route" => of[w] \notin Headless
          /\ w \in Calls /\ pc[w] \in Past => label \in Past
    BY <1>0, ScenarioFacts DEF GetStepRun, Leave, Reaches, Kind, CallLabels, BootLabels, Shared, Past
  <1>2. Moves(w)
    BY <1>0, <1>1, PlainEdge DEF GetStepRun
  <1>3. TypeOK'
    BY <1>0, StatusType DEF GetStepRun, rows, Types, TypeOK, Terminal, Active, Statuses
  <1> QED
    BY <1>0, <1>2, <1>3, MovesTypes DEF GetStepRun

LEMMA OpenStepEdge ==
  ASSUME Types, Places, NEW w \in Calls, OpenStep(w), UNCHANGED scenario
  PROVE  Types' /\ Moves(w)
  <1>0. /\ w \in Workers /\ pc[w] \notin {"idle", "done"} /\ of[w] \in Runs
        /\ w \in Calls => w \in Made /\ Reaches(w, pc[w]) /\ w \notin Boot /\ pc[w] \in CallLabels
        /\ w \in Boot => pc[w] \in BootLabels /\ w \notin Calls
    BY ScenarioFacts DEF OpenStep, Types, TypeOK, Places, Workers
  <1>1. \E label :
          /\ Goto(w, label) /\ label # "idle"
          /\ w \in Calls => label \in CallLabels /\ Reaches(w, label)
          /\ w \in Boot => label \in BootLabels
          /\ w \in Calls /\ label = "route" => of[w] \notin Headless
          /\ w \in Calls /\ pc[w] \in Past => label \in Past
    BY <1>0, ScenarioFacts DEF OpenStep, Leave, SetLife, Reaches, Kind, CallLabels, BootLabels, Shared, Past
  <1>2. Moves(w)
    BY <1>0, <1>1, PlainEdge DEF OpenStep
  <1>3. TypeOK'
    BY <1>0, StatusType DEF OpenStep, SetLife, rows, Types, TypeOK, Terminal, Active, Statuses
  <1> QED
    BY <1>0, <1>2, <1>3, MovesTypes DEF OpenStep

LEMMA CompleteRunIfFinishedEdge ==
  ASSUME Types, Places, NEW w \in Calls, CompleteRunIfFinished(w), UNCHANGED scenario
  PROVE  Types' /\ Moves(w)
  <1>0. /\ w \in Workers /\ pc[w] \notin {"idle", "done"} /\ of[w] \in Runs
        /\ w \in Calls => w \in Made /\ Reaches(w, pc[w]) /\ w \notin Boot /\ pc[w] \in CallLabels
        /\ w \in Boot => pc[w] \in BootLabels /\ w \notin Calls
    BY ScenarioFacts DEF CompleteRunIfFinished, Types, TypeOK, Places, Workers
  <1>1. \E label :
          /\ Goto(w, label) /\ label # "idle"
          /\ w \in Calls => label \in CallLabels /\ Reaches(w, label)
          /\ w \in Boot => label \in BootLabels
          /\ w \in Calls /\ label = "route" => of[w] \notin Headless
          /\ w \in Calls /\ pc[w] \in Past => label \in Past
    BY <1>0, ScenarioFacts DEF CompleteRunIfFinished, SetLife, Reaches, Kind, CallLabels, BootLabels, Shared, Past
  <1>2. Moves(w)
    BY <1>0, <1>1, PlainEdge DEF CompleteRunIfFinished
  <1>3. TypeOK'
    BY <1>0, StatusType DEF CompleteRunIfFinished, SetLife, rows, Types, TypeOK, Terminal, Active, Statuses
  <1> QED
    BY <1>0, <1>2, <1>3, MovesTypes DEF CompleteRunIfFinished

LEMMA RunGoesOnEdge ==
  ASSUME Types, Places, NEW w \in Calls, RunGoesOn(w), UNCHANGED scenario
  PROVE  Types' /\ Moves(w)
  <1>0. /\ w \in Workers /\ pc[w] \notin {"idle", "done"} /\ of[w] \in Runs
        /\ w \in Calls => w \in Made /\ Reaches(w, pc[w]) /\ w \notin Boot /\ pc[w] \in CallLabels
        /\ w \in Boot => pc[w] \in BootLabels /\ w \notin Calls
    BY ScenarioFacts DEF RunGoesOn, Types, TypeOK, Places, Workers
  <1>1. \E label :
          /\ Goto(w, label) /\ label # "idle"
          /\ w \in Calls => label \in CallLabels /\ Reaches(w, label)
          /\ w \in Boot => label \in BootLabels
          /\ w \in Calls /\ label = "route" => of[w] \notin Headless
          /\ w \in Calls /\ pc[w] \in Past => label \in Past
    BY <1>0, ScenarioFacts DEF RunGoesOn, Leave, Reaches, Kind, CallLabels, BootLabels, Shared, Past
  <1>2. Moves(w)
    BY <1>0, <1>1, PlainEdge DEF RunGoesOn
  <1>3. TypeOK'
    BY <1>0, StatusType DEF RunGoesOn, rows, Types, TypeOK, Terminal, Active, Statuses
  <1> QED
    BY <1>0, <1>2, <1>3, MovesTypes DEF RunGoesOn

LEMMA GetMemoEdge ==
  ASSUME Types, Places, NEW w \in Calls, GetMemo(w), UNCHANGED scenario
  PROVE  Types' /\ Moves(w)
  <1>0. /\ w \in Workers /\ pc[w] \notin {"idle", "done"} /\ of[w] \in Runs
        /\ w \in Calls => w \in Made /\ Reaches(w, pc[w]) /\ w \notin Boot /\ pc[w] \in CallLabels
        /\ w \in Boot => pc[w] \in BootLabels /\ w \notin Calls
    BY ScenarioFacts DEF GetMemo, Types, TypeOK, Places, Workers
  <1>1. \E label :
          /\ Goto(w, label) /\ label # "idle"
          /\ w \in Calls => label \in CallLabels /\ Reaches(w, label)
          /\ w \in Boot => label \in BootLabels
          /\ w \in Calls /\ label = "route" => of[w] \notin Headless
          /\ w \in Calls /\ pc[w] \in Past => label \in Past
    BY <1>0, ScenarioFacts DEF GetMemo, Reaches, Kind, CallLabels, BootLabels, Shared, Past
  <1>2. Moves(w)
    BY <1>0, <1>1, PlainEdge DEF GetMemo
  <1>3. TypeOK'
    BY <1>0, StatusType DEF GetMemo, rows, Types, TypeOK, Terminal, Active, Statuses
  <1> QED
    BY <1>0, <1>2, <1>3, MovesTypes DEF GetMemo

LEMMA UpsertMemoEdge ==
  ASSUME Types, Places, NEW w \in Calls, UpsertMemo(w), UNCHANGED scenario
  PROVE  Types' /\ Moves(w)
  <1>0. /\ w \in Workers /\ pc[w] \notin {"idle", "done"} /\ of[w] \in Runs
        /\ w \in Calls => w \in Made /\ Reaches(w, pc[w]) /\ w \notin Boot /\ pc[w] \in CallLabels
        /\ w \in Boot => pc[w] \in BootLabels /\ w \notin Calls
    BY ScenarioFacts DEF UpsertMemo, Types, TypeOK, Places, Workers
  <1>1. \E label :
          /\ Goto(w, label) /\ label # "idle"
          /\ w \in Calls => label \in CallLabels /\ Reaches(w, label)
          /\ w \in Boot => label \in BootLabels
          /\ w \in Calls /\ label = "route" => of[w] \notin Headless
          /\ w \in Calls /\ pc[w] \in Past => label \in Past
    BY <1>0, ScenarioFacts DEF UpsertMemo, Leave, AppliedMemo, Reaches, Kind, CallLabels, BootLabels, Shared, Past
  <1>2. Moves(w)
    BY <1>0, <1>1, PlainEdge DEF UpsertMemo
  <1>3. TypeOK'
    BY <1>0, StatusType DEF UpsertMemo, AppliedMemo, rows, Types, TypeOK, Terminal, Active, Statuses
  <1> QED
    BY <1>0, <1>2, <1>3, MovesTypes DEF UpsertMemo

LEMMA MarkCancelRequestedEdge ==
  ASSUME Types, Places, NEW w \in Calls, MarkCancelRequested(w), UNCHANGED scenario
  PROVE  Types' /\ Moves(w)
  <1>0. /\ w \in Workers /\ pc[w] \notin {"idle", "done"} /\ of[w] \in Runs
        /\ w \in Calls => w \in Made /\ Reaches(w, pc[w]) /\ w \notin Boot /\ pc[w] \in CallLabels
        /\ w \in Boot => pc[w] \in BootLabels /\ w \notin Calls
    BY ScenarioFacts DEF MarkCancelRequested, Types, TypeOK, Places, Workers
  <1>1. \E label :
          /\ Goto(w, label) /\ label # "idle"
          /\ w \in Calls => label \in CallLabels /\ Reaches(w, label)
          /\ w \in Boot => label \in BootLabels
          /\ w \in Calls /\ label = "route" => of[w] \notin Headless
          /\ w \in Calls /\ pc[w] \in Past => label \in Past
    BY <1>0, ScenarioFacts DEF MarkCancelRequested, Reaches, Kind, CallLabels, BootLabels, Shared, Past
  <1>2. Moves(w)
    BY <1>0, <1>1, PlainEdge DEF MarkCancelRequested
  <1>3. TypeOK'
    BY <1>0, StatusType DEF MarkCancelRequested, rows, Types, TypeOK, Terminal, Active, Statuses
  <1> QED
    BY <1>0, <1>2, <1>3, MovesTypes DEF MarkCancelRequested

LEMMA ListRunsEdge ==
  ASSUME Types, Places, NEW w \in Calls, ListRuns(w), UNCHANGED scenario
  PROVE  Types' /\ Moves(w)
  <1>0. /\ w \in Workers /\ pc[w] \notin {"idle", "done"} /\ of[w] \in Runs
        /\ w \in Calls => w \in Made /\ Reaches(w, pc[w]) /\ w \notin Boot /\ pc[w] \in CallLabels
        /\ w \in Boot => pc[w] \in BootLabels /\ w \notin Calls
    BY ScenarioFacts DEF ListRuns, Types, TypeOK, Places, Workers
  <1>1. \E label :
          /\ Goto(w, label) /\ label # "idle"
          /\ w \in Calls => label \in CallLabels /\ Reaches(w, label)
          /\ w \in Boot => label \in BootLabels
          /\ w \in Calls /\ label = "route" => of[w] \notin Headless
          /\ w \in Calls /\ pc[w] \in Past => label \in Past
    BY <1>0, ScenarioFacts DEF ListRuns, ActiveRuns, Reaches, Kind, CallLabels, BootLabels, Shared, Past
  <1>2. Moves(w)
    BY <1>0, <1>1, PlainEdge DEF ListRuns
  <1>3. TypeOK'
    BY <1>0, StatusType DEF ListRuns, ActiveRuns, rows, Types, TypeOK, Terminal, Active, Statuses
  <1> QED
    BY <1>0, <1>2, <1>3, MovesTypes DEF ListRuns

LEMMA ArmTimerEdge ==
  ASSUME Types, Places, NEW w \in Calls, ArmTimer(w), UNCHANGED scenario
  PROVE  Types' /\ Moves(w)
  <1>0. /\ w \in Workers /\ pc[w] \notin {"idle", "done"} /\ of[w] \in Runs
        /\ w \in Calls => w \in Made /\ Reaches(w, pc[w]) /\ w \notin Boot /\ pc[w] \in CallLabels
        /\ w \in Boot => pc[w] \in BootLabels /\ w \notin Calls
    BY ScenarioFacts DEF ArmTimer, Types, TypeOK, Places, Workers
  <1>1. \E label :
          /\ Goto(w, label) /\ label # "idle"
          /\ w \in Calls => label \in CallLabels /\ Reaches(w, label)
          /\ w \in Boot => label \in BootLabels
          /\ w \in Calls /\ label = "route" => of[w] \notin Headless
          /\ w \in Calls /\ pc[w] \in Past => label \in Past
    BY <1>0, ScenarioFacts DEF ArmTimer, Reaches, Kind, CallLabels, BootLabels, Shared, Past
  <1>2. Moves(w)
    BY <1>0, <1>1, PlainEdge DEF ArmTimer
  <1>3. TypeOK'
    BY <1>0, StatusType DEF ArmTimer, rows, Types, TypeOK, Terminal, Active, Statuses
  <1> QED
    BY <1>0, <1>2, <1>3, MovesTypes DEF ArmTimer

LEMMA TimerEdge ==
  ASSUME Types, Places, NEW w \in Calls, Timer(w), UNCHANGED scenario
  PROVE  Types' /\ Moves(w)
  <1>0. /\ w \in Workers /\ pc[w] \notin {"idle", "done"} /\ of[w] \in Runs
        /\ w \in Calls => w \in Made /\ Reaches(w, pc[w]) /\ w \notin Boot /\ pc[w] \in CallLabels
        /\ w \in Boot => pc[w] \in BootLabels /\ w \notin Calls
    BY ScenarioFacts DEF Timer, Types, TypeOK, Places, Workers
  <1>1. \E label :
          /\ Goto(w, label) /\ label # "idle"
          /\ w \in Calls => label \in CallLabels /\ Reaches(w, label)
          /\ w \in Boot => label \in BootLabels
          /\ w \in Calls /\ label = "route" => of[w] \notin Headless
          /\ w \in Calls /\ pc[w] \in Past => label \in Past
    BY <1>0, ScenarioFacts DEF Timer, ActiveRuns, Reaches, Kind, CallLabels, BootLabels, Shared, Past
  <1>2. Moves(w)
    BY <1>0, <1>1, PlainEdge DEF Timer
  <1>3. TypeOK'
    BY <1>0, StatusType DEF Timer, ActiveRuns, rows, Types, TypeOK, Terminal, Active, Statuses
  <1> QED
    BY <1>0, <1>2, <1>3, MovesTypes DEF Timer

LEMMA TimerDoneEdge ==
  ASSUME Types, Places, NEW w \in Calls, TimerDone(w), UNCHANGED scenario
  PROVE  Types' /\ Moves(w)
  <1>0. /\ w \in Workers /\ pc[w] \notin {"idle", "done"} /\ of[w] \in Runs
        /\ w \in Calls => w \in Made /\ Reaches(w, pc[w]) /\ w \notin Boot /\ pc[w] \in CallLabels
        /\ w \in Boot => pc[w] \in BootLabels /\ w \notin Calls
    BY ScenarioFacts DEF TimerDone, Types, TypeOK, Places, Workers
  <1>1. \E label :
          /\ Goto(w, label) /\ label # "idle"
          /\ w \in Calls => label \in CallLabels /\ Reaches(w, label)
          /\ w \in Boot => label \in BootLabels
          /\ w \in Calls /\ label = "route" => of[w] \notin Headless
          /\ w \in Calls /\ pc[w] \in Past => label \in Past
    BY <1>0, ScenarioFacts DEF TimerDone, Reaches, Kind, CallLabels, BootLabels, Shared, Past
  <1>2. Moves(w)
    BY <1>0, <1>1, PlainEdge DEF TimerDone
  <1>3. TypeOK'
    BY <1>0, StatusType DEF TimerDone, rows, Types, TypeOK, Terminal, Active, Statuses
  <1> QED
    BY <1>0, <1>2, <1>3, MovesTypes DEF TimerDone

LEMMA GetFailingEdge ==
  ASSUME Types, Places, NEW w \in Workers, GetFailing(w), UNCHANGED scenario
  PROVE  Types' /\ Moves(w)
  <1>0. /\ w \in Workers /\ pc[w] \notin {"idle", "done"} /\ of[w] \in Runs
        /\ w \in Calls => w \in Made /\ Reaches(w, pc[w]) /\ w \notin Boot /\ pc[w] \in CallLabels
        /\ w \in Boot => pc[w] \in BootLabels /\ w \notin Calls
    BY ScenarioFacts DEF GetFailing, Types, TypeOK, Places, Workers
  <1>1. \E label :
          /\ Goto(w, label) /\ label # "idle"
          /\ w \in Calls => label \in CallLabels /\ Reaches(w, label)
          /\ w \in Boot => label \in BootLabels
          /\ w \in Calls /\ label = "route" => of[w] \notin Headless
          /\ w \in Calls /\ pc[w] \in Past => label \in Past
    BY <1>0, ScenarioFacts DEF GetFailing, Leave, Reaches, Kind, CallLabels, BootLabels, Shared, Past
  <1>2. Moves(w)
    BY <1>0, <1>1, PlainEdge DEF GetFailing
  <1>3. TypeOK'
    BY <1>0, StatusType DEF GetFailing, rows, Types, TypeOK, Terminal, Active, Statuses
  <1> QED
    BY <1>0, <1>2, <1>3, MovesTypes DEF GetFailing

LEMMA FailRunEdge ==
  ASSUME Types, Places, NEW w \in Workers, FailRun(w), UNCHANGED scenario
  PROVE  Types' /\ Moves(w)
  <1>0. /\ w \in Workers /\ pc[w] \notin {"idle", "done"} /\ of[w] \in Runs
        /\ w \in Calls => w \in Made /\ Reaches(w, pc[w]) /\ w \notin Boot /\ pc[w] \in CallLabels
        /\ w \in Boot => pc[w] \in BootLabels /\ w \notin Calls
    BY ScenarioFacts DEF FailRun, Types, TypeOK, Places, Workers
  <1>1. \E label :
          /\ Goto(w, label) /\ label # "idle"
          /\ w \in Calls => label \in CallLabels /\ Reaches(w, label)
          /\ w \in Boot => label \in BootLabels
          /\ w \in Calls /\ label = "route" => of[w] \notin Headless
          /\ w \in Calls /\ pc[w] \in Past => label \in Past
    BY <1>0, ScenarioFacts DEF FailRun, SetLife, Reaches, Kind, CallLabels, BootLabels, Shared, Past
  <1>2. Moves(w)
    BY <1>0, <1>1, PlainEdge DEF FailRun
  <1>3. TypeOK'
    BY <1>0, StatusType DEF FailRun, SetLife, rows, Types, TypeOK, Terminal, Active, Statuses
  <1> QED
    BY <1>0, <1>2, <1>3, MovesTypes DEF FailRun

LEMMA GetHeadlessEdge ==
  ASSUME Types, Places, NEW w \in Workers, GetHeadless(w), UNCHANGED scenario
  PROVE  Types' /\ Moves(w)
  <1>0. /\ w \in Workers /\ pc[w] \notin {"idle", "done"} /\ of[w] \in Runs
        /\ w \in Calls => w \in Made /\ Reaches(w, pc[w]) /\ w \notin Boot /\ pc[w] \in CallLabels
        /\ w \in Boot => pc[w] \in BootLabels /\ w \notin Calls
    BY ScenarioFacts DEF GetHeadless, Types, TypeOK, Places, Workers
  <1>1. \E label :
          /\ Goto(w, label) /\ label # "idle"
          /\ w \in Calls => label \in CallLabels /\ Reaches(w, label)
          /\ w \in Boot => label \in BootLabels
          /\ w \in Calls /\ label = "route" => of[w] \notin Headless
          /\ w \in Calls /\ pc[w] \in Past => label \in Past
    BY <1>0, ScenarioFacts DEF GetHeadless, Leave, Reaches, Kind, CallLabels, BootLabels, Shared, Past
  <1>2. Moves(w)
    BY <1>0, <1>1, PlainEdge DEF GetHeadless
  <1>3. TypeOK'
    BY <1>0, StatusType DEF GetHeadless, rows, Types, TypeOK, Terminal, Active, Statuses
  <1> QED
    BY <1>0, <1>2, <1>3, MovesTypes DEF GetHeadless

LEMMA ListMemosEdge ==
  ASSUME Types, Places, NEW w \in Workers, ListMemos(w), UNCHANGED scenario
  PROVE  Types' /\ Moves(w)
  <1>0. /\ w \in Workers /\ pc[w] \notin {"idle", "done"} /\ of[w] \in Runs
        /\ w \in Calls => w \in Made /\ Reaches(w, pc[w]) /\ w \notin Boot /\ pc[w] \in CallLabels
        /\ w \in Boot => pc[w] \in BootLabels /\ w \notin Calls
    BY ScenarioFacts DEF ListMemos, Types, TypeOK, Places, Workers
  <1>1. \E label :
          /\ Goto(w, label) /\ label # "idle"
          /\ w \in Calls => label \in CallLabels /\ Reaches(w, label)
          /\ w \in Boot => label \in BootLabels
          /\ w \in Calls /\ label = "route" => of[w] \notin Headless
          /\ w \in Calls /\ pc[w] \in Past => label \in Past
    <2>1. memo[of[w]] \in {"working", "completed", "failed"}
      BY <1>0 DEF Types, TypeOK
    <2>2. Leave(w) \/ Goto(w, "fail") \/ Goto(w, "complete")
      BY <2>1 DEF ListMemos
    <2> QED
      BY <1>0, <2>2 DEF Leave, Reaches, CallLabels, BootLabels, Shared, Past, ListMemos
  <1>2. Moves(w)
    BY <1>0, <1>1, PlainEdge DEF ListMemos
  <1>3. TypeOK'
    BY <1>0, StatusType DEF ListMemos, rows, Types, TypeOK, Terminal, Active, Statuses
  <1> QED
    BY <1>0, <1>2, <1>3, MovesTypes DEF ListMemos

LEMMA CompleteHeadlessEdge ==
  ASSUME Types, Places, NEW w \in Workers, CompleteHeadless(w), UNCHANGED scenario
  PROVE  Types' /\ Moves(w)
  <1>0. /\ w \in Workers /\ pc[w] \notin {"idle", "done"} /\ of[w] \in Runs
        /\ w \in Calls => w \in Made /\ Reaches(w, pc[w]) /\ w \notin Boot /\ pc[w] \in CallLabels
        /\ w \in Boot => pc[w] \in BootLabels /\ w \notin Calls
    BY ScenarioFacts DEF CompleteHeadless, Types, TypeOK, Places, Workers
  <1>1. \E label :
          /\ Goto(w, label) /\ label # "idle"
          /\ w \in Calls => label \in CallLabels /\ Reaches(w, label)
          /\ w \in Boot => label \in BootLabels
          /\ w \in Calls /\ label = "route" => of[w] \notin Headless
          /\ w \in Calls /\ pc[w] \in Past => label \in Past
    BY <1>0, ScenarioFacts DEF CompleteHeadless, SetLife, Reaches, Kind, CallLabels, BootLabels, Shared, Past
  <1>2. Moves(w)
    BY <1>0, <1>1, PlainEdge DEF CompleteHeadless
  <1>3. TypeOK'
    BY <1>0, StatusType DEF CompleteHeadless, SetLife, rows, Types, TypeOK, Terminal, Active, Statuses
  <1> QED
    BY <1>0, <1>2, <1>3, MovesTypes DEF CompleteHeadless

LEMMA GetSessionEdge ==
  ASSUME Types, Places, NEW w \in Workers, GetSession(w), UNCHANGED scenario
  PROVE  Types' /\ Moves(w)
  <1>0. /\ w \in Workers /\ pc[w] \notin {"idle", "done"} /\ of[w] \in Runs
        /\ w \in Calls => w \in Made /\ Reaches(w, pc[w]) /\ w \notin Boot /\ pc[w] \in CallLabels
        /\ w \in Boot => pc[w] \in BootLabels /\ w \notin Calls
    BY ScenarioFacts DEF GetSession, Types, TypeOK, Places, Workers
  <1>1. \E label :
          /\ Goto(w, label) /\ label # "idle"
          /\ w \in Calls => label \in CallLabels /\ Reaches(w, label)
          /\ w \in Boot => label \in BootLabels
          /\ w \in Calls /\ label = "route" => of[w] \notin Headless
          /\ w \in Calls /\ pc[w] \in Past => label \in Past
    BY <1>0, ScenarioFacts DEF GetSession, Reaches, Kind, CallLabels, BootLabels, Shared, Past
  <1>2. Moves(w)
    BY <1>0, <1>1, PlainEdge DEF GetSession
  <1>3. TypeOK'
    BY <1>0, StatusType DEF GetSession, rows, Types, TypeOK, Terminal, Active, Statuses
  <1> QED
    BY <1>0, <1>2, <1>3, MovesTypes DEF GetSession

LEMMA DeriveStatusEdge ==
  ASSUME Types, Places, NEW w \in Workers, DeriveStatus(w), UNCHANGED scenario
  PROVE  Types' /\ Moves(w)
  <1>0. /\ w \in Workers /\ pc[w] \notin {"idle", "done"} /\ of[w] \in Runs
        /\ w \in Calls => w \in Made /\ Reaches(w, pc[w]) /\ w \notin Boot /\ pc[w] \in CallLabels
        /\ w \in Boot => pc[w] \in BootLabels /\ w \notin Calls
    BY ScenarioFacts DEF DeriveStatus, Types, TypeOK, Places, Workers
  <1>1. \E label :
          /\ Goto(w, label) /\ label # "idle"
          /\ w \in Calls => label \in CallLabels /\ Reaches(w, label)
          /\ w \in Boot => label \in BootLabels
          /\ w \in Calls /\ label = "route" => of[w] \notin Headless
          /\ w \in Calls /\ pc[w] \in Past => label \in Past
    BY <1>0, ScenarioFacts DEF DeriveStatus, Leave, Lifecycles, Reaches, Kind, CallLabels, BootLabels, Shared, Past
  <1>2. Moves(w)
    BY <1>0, <1>1, PlainEdge DEF DeriveStatus
  <1>3. TypeOK'
    BY <1>0, StatusType DEF DeriveStatus, Lifecycles, rows, Types, TypeOK, Terminal, Active, Statuses
  <1> QED
    BY <1>0, <1>2, <1>3, MovesTypes DEF DeriveStatus

LEMMA UpdateSessionStatusEdge ==
  ASSUME Types, Places, NEW w \in Workers, UpdateSessionStatus(w), UNCHANGED scenario
  PROVE  Types' /\ Moves(w)
  <1>0. /\ w \in Workers /\ pc[w] \notin {"idle", "done"} /\ of[w] \in Runs
        /\ w \in Calls => w \in Made /\ Reaches(w, pc[w]) /\ w \notin Boot /\ pc[w] \in CallLabels
        /\ w \in Boot => pc[w] \in BootLabels /\ w \notin Calls
    BY ScenarioFacts DEF UpdateSessionStatus, Types, TypeOK, Places, Workers
  <1>1. \E label :
          /\ Goto(w, label) /\ label # "idle"
          /\ w \in Calls => label \in CallLabels /\ Reaches(w, label)
          /\ w \in Boot => label \in BootLabels
          /\ w \in Calls /\ label = "route" => of[w] \notin Headless
          /\ w \in Calls /\ pc[w] \in Past => label \in Past
    BY <1>0, ScenarioFacts DEF UpdateSessionStatus, Leave, Reaches, Kind, CallLabels, BootLabels, Shared, Past
  <1>2. Moves(w)
    BY <1>0, <1>1, PlainEdge DEF UpdateSessionStatus
  <1>3. TypeOK'
    BY <1>0, StatusType DEF UpdateSessionStatus, rows, Types, TypeOK, Terminal, Active, Statuses
  <1> QED
    BY <1>0, <1>2, <1>3, MovesTypes DEF UpdateSessionStatus

LEMMA ListAtBootEdge ==
  ASSUME Types, Places, NEW w \in Boot, ListAtBoot(w), UNCHANGED scenario
  PROVE  Types' /\ Moves(w)
  <1>0. /\ w \in Workers /\ pc[w] \notin {"idle", "done"} /\ of[w] \in Runs
        /\ w \in Calls => w \in Made /\ Reaches(w, pc[w]) /\ w \notin Boot /\ pc[w] \in CallLabels
        /\ w \in Boot => pc[w] \in BootLabels /\ w \notin Calls
    BY ScenarioFacts DEF ListAtBoot, Types, TypeOK, Places, Workers
  <1>1. \E label :
          /\ Goto(w, label) /\ label # "idle"
          /\ w \in Calls => label \in CallLabels /\ Reaches(w, label)
          /\ w \in Boot => label \in BootLabels
          /\ w \in Calls /\ label = "route" => of[w] \notin Headless
          /\ w \in Calls /\ pc[w] \in Past => label \in Past
    BY <1>0, ScenarioFacts DEF ListAtBoot, ActiveRuns, Reaches, Kind, CallLabels, BootLabels, Shared, Past
  <1>2. Moves(w)
    BY <1>0, <1>1, PlainEdge DEF ListAtBoot
  <1>3. TypeOK'
    BY <1>0, StatusType DEF ListAtBoot, ActiveRuns, rows, Types, TypeOK, Terminal, Active, Statuses
  <1> QED
    BY <1>0, <1>2, <1>3, MovesTypes DEF ListAtBoot

LEMMA BootDoneEdge ==
  ASSUME Types, Places, NEW w \in Boot, BootDone(w), UNCHANGED scenario
  PROVE  Types' /\ Moves(w)
  <1>0. /\ w \in Workers /\ pc[w] \notin {"idle", "done"} /\ of[w] \in Runs
        /\ w \in Calls => w \in Made /\ Reaches(w, pc[w]) /\ w \notin Boot /\ pc[w] \in CallLabels
        /\ w \in Boot => pc[w] \in BootLabels /\ w \notin Calls
    BY ScenarioFacts DEF BootDone, Types, TypeOK, Places, Workers
  <1>1. \E label :
          /\ Goto(w, label) /\ label # "idle"
          /\ w \in Calls => label \in CallLabels /\ Reaches(w, label)
          /\ w \in Boot => label \in BootLabels
          /\ w \in Calls /\ label = "route" => of[w] \notin Headless
          /\ w \in Calls /\ pc[w] \in Past => label \in Past
    BY <1>0, ScenarioFacts DEF BootDone, Reaches, Kind, CallLabels, BootLabels, Shared, Past
  <1>2. Moves(w)
    BY <1>0, <1>1, PlainEdge DEF BootDone
  <1>3. TypeOK'
    BY <1>0, StatusType DEF BootDone, rows, Types, TypeOK, Terminal, Active, Statuses
  <1> QED
    BY <1>0, <1>2, <1>3, MovesTypes DEF BootDone

LEMMA BeginEdge ==
  ASSUME Types, Places, NEW c \in Calls, Begin(c), UNCHANGED scenario
  PROVE  Types' /\ Moves(c)
  <1> DEFINE label == FirstStep(Request[c].kind)
  <1>1. c \in Made /\ c \in Workers /\ c \notin Boot /\ Request[c].kind \in Kinds
    BY ScenarioFacts DEF Begin, RequestType
  <1>2. label \in Inside /\ Reaches(c, label) /\ label # "route"
    BY <1>1, FirstStepFacts
  <1>3. pc' = [pc EXCEPT ![c] = label] /\ of' = of /\ pc[c] = "idle"
    BY DEF Begin, Goto
  <1>4. Edge(c, label)
    <2> HIDE DEF label
    <2> QED
      BY <1>1, <1>2, <1>3 DEF Edge, Inside, Past
  <1>5. Moves(c)
    BY <1>2, <1>4 DEF Moves, Inside
  <1>6. TypeOK'
    BY DEF Begin, rows, Types, TypeOK
  <1> QED
    BY <1>1, <1>5, <1>6, MovesTypes DEF Begin

LEMMA VisitRunEdge ==
  ASSUME Types, Places, NEW w \in Boot, NEW r \in Runs, VisitRun(w, r), UNCHANGED scenario
  PROVE  Types' /\ Moves(w)
  <1>1. w \in Workers /\ w \notin Calls /\ pc[w] = "next"
    BY ScenarioFacts DEF VisitRun
  <1>2. PICK label \in {"fail", "headless", "next"} : pc' = [pc EXCEPT ![w] = label]
    BY DEF VisitRun, Goto
  <1>3. \A v \in Workers : v \notin Boot => of'[v] = of[v]
    BY DEF VisitRun, Types, TypeOK
  <1>4. Edge(w, label)
    BY <1>1, <1>2, <1>3 DEF Edge, BootLabels, Shared
  <1>5. Moves(w)
    BY <1>4 DEF Moves, BootLabels, Shared
  <1>6. TypeOK'
    BY <1>1 DEF VisitRun, rows, Types, TypeOK
  <1> QED
    BY <1>1, <1>5, <1>6, MovesTypes DEF VisitRun

LEMMA SweepRunTypes ==
  ASSUME Types, NEW c \in Calls, NEW r \in Runs, SweepRun(c, r), UNCHANGED scenario
  PROVE  Types'
  BY DEF SweepRun, SetLife, Types, TypeOK, Terminal, Active, Workers

LEMMA CrashTypes ==
  ASSUME Types, Crash, UNCHANGED scenario
  PROVE  Types'
  <1>1. TypeOK'
    BY DEF Crash, rows, Types, TypeOK
  <1>2. \A w \in Workers : pc'[w] = IF w \in Boot THEN "boot"
                                    ELSE IF pc[w] \in {"idle", "done"} THEN pc[w] ELSE "dead"
    BY DEF Crash
  <1>3. /\ \A c \in Calls : pc'[c] \in CallLabels
        /\ \A w \in Boot : pc'[w] \in BootLabels
    BY <1>2, ScenarioFacts DEF Types, CallLabels, BootLabels, Shared
  <1>4. pc' \in [Workers -> CallLabels \union BootLabels]
    BY <1>2, <1>3, ScenarioFacts DEF Crash
  <1> QED
    BY <1>1, <1>3, <1>4 DEF Crash, Types

-----------------------------------------------------------------------------
(* The next-state relation, worker by worker. *)
LEMMA Steps ==
  ASSUME Types, Places, [Next]_vars
  PROVE  /\ Types' /\ UNCHANGED scenario
         /\ \/ \E w \in Workers : Moves(w)
            \/ UNCHANGED <<pc, of>>
            \/ Crash
  <1>1. CASE UNCHANGED vars
    BY <1>1 DEF vars, Types, TypeOK
  <1>2. CASE Next
    <2>1. UNCHANGED scenario
      BY <1>2 DEF Next
    <2>2. ASSUME NEW c \in Calls, Begin(c) PROVE Types' /\ Moves(c)
      BY <2>1, <2>2, BeginEdge
    <2>3. ASSUME NEW c \in Calls, Call(c) PROVE Types' /\ (Moves(c) \/ UNCHANGED <<pc, of>>)
      <3>1. ASSUME NEW r \in Runs, SweepRun(c, r) PROVE Types' /\ UNCHANGED <<pc, of>>
        BY <2>1, <3>1, SweepRunTypes DEF SweepRun
      <3> QED
        BY <2>1, <2>3, <3>1, CreateRunEdge, ParkRunEdge, InsertGateEdge, GetGatedRunEdge, RequireInputEdge, GetGateEdge, UpdateGateStatusEdge, DecideRunEdge, BindEdge, RejectOrchestrationEdge, ResumeEdge, GetCancellingEdge, CancelRunEdge, GetStepRunEdge, OpenStepEdge, CompleteRunIfFinishedEdge, RunGoesOnEdge, GetMemoEdge, UpsertMemoEdge, MarkCancelRequestedEdge, ListRunsEdge, ArmTimerEdge, TimerEdge, TimerDoneEdge DEF Call
    <2>4. ASSUME NEW w \in Workers, Step(w) PROVE Types' /\ Moves(w)
      BY <2>1, <2>4, GetFailingEdge, FailRunEdge, GetHeadlessEdge, ListMemosEdge, CompleteHeadlessEdge, GetSessionEdge, DeriveStatusEdge, UpdateSessionStatusEdge DEF Step
    <2>5. ASSUME NEW w \in Boot, BootPass(w) PROVE Types' /\ Moves(w)
      BY <2>1, <2>5, ListAtBootEdge, BootDoneEdge, VisitRunEdge DEF BootPass
    <2>6. CASE Crash
      BY <2>1, <2>6, CrashTypes
    <2>7. Calls \subseteq Workers /\ Boot \subseteq Workers
      BY DEF Workers
    <2> QED
      BY <1>2, <2>1, <2>2, <2>3, <2>4, <2>5, <2>6, <2>7 DEF Next
  <1> QED
    BY <1>1, <1>2

LEMMA EdgeInv ==
  ASSUME Inv, Types', NEW w \in Workers, Moves(w)
  PROVE  Inv'
  <1>1. PICK label \in CallLabels \union BootLabels : Edge(w, label)
    BY DEF Moves
  <1>2. /\ \A v \in Workers : pc'[v] = IF v = w THEN label ELSE pc[v]
        /\ UNCHANGED scenario /\ Made' = Made /\ Headless' = Headless
        /\ \A c \in Calls : c \in Workers /\ of'[c] = of[c] /\ c \notin Boot
        /\ \A c, l : Reaches(c, l)' = Reaches(c, l)
    BY <1>1, ScenarioFacts DEF Inv, Types, Edge, Made, Headless, Request, Reaches, Kind
  <1>3. Places'
    BY <1>1, <1>2 DEF Inv, Places, Edge, Request
  <1>4. RoutesFlow'
    BY <1>1, <1>2 DEF Inv, RoutesFlow, Edge
  <1>5. Alone'
    <2> SUFFICES ASSUME scenario.slots = 1, NEW c \in Calls, NEW d \in Calls, c # d,
                        pc'[c] \in Inside, pc'[d] \in Inside
                 PROVE  FALSE
      BY <1>2 DEF Alone
    <2>1. ASSUME NEW a \in Calls, NEW b \in Calls, a # b, a = w, pc'[a] \in Inside, pc'[b] \in Inside
          PROVE  FALSE
      <3>1. pc[b] \in Inside
        BY <1>2, <2>1
      <3>2. pc[a] \notin Inside
        BY <2>1, <3>1 DEF Inv, Alone
      <3>3. Begin(a)
        BY <1>1, <1>2, <2>1, <3>2 DEF Edge
      <3>4. Cardinality(Running) < 1
        BY <3>3 DEF Begin
      <3>5. b \in Running
        BY <3>1 DEF Running, Inside, Past, CallLabels, Shared
      <3>6. IsFiniteSet(Running)
        BY LifecycleAssumption, FS_Subset DEF Running
      <3>7. Cardinality(Running) \in Nat /\ Cardinality(Running) # 0
        BY <3>5, <3>6, FS_CardinalityType, FS_EmptySet
      <3> QED
        BY <3>4, <3>7
    <2>2. CASE c # w /\ d # w
      BY <1>2, <2>2 DEF Inv, Alone
    <2> QED
      BY <2>1, <2>2
  <1>6. Ordered'
    <2> SUFFICES ASSUME NEW c \in Made, NEW b \in scenario.after[c], pc'[c] # "idle"
                 PROVE  pc'[b] \in Past
      BY <1>2 DEF Ordered
    <2>1. c \in Calls /\ b \in Calls
      BY ScenarioFacts DEF Inv
    <2>2. pc[b] \in Past => pc'[b] \in Past
      BY <1>1, <1>2, <2>1 DEF Edge
    <2>3. CASE pc[c] # "idle"
      BY <2>2, <2>3 DEF Inv, Ordered
    <2>4. CASE pc[c] = "idle"
      <3>1. w = c /\ Begin(c)
        BY <1>1, <1>2, <2>1, <2>4 DEF Edge
      <3>2. pc[b] \in Past
        BY <3>1 DEF Begin, Past
      <3> QED
        BY <2>2, <3>2
    <2> QED
      BY <2>3, <2>4
  <1>7. BootRests'
    BY <1>1, <1>2 DEF Inv, BootRests, Edge, Boot
  <1> QED
    BY <1>3, <1>4, <1>5, <1>6, <1>7 DEF Inv

LEMMA InvNext == Inv /\ [Next]_vars => Inv'
  <1> SUFFICES ASSUME Inv, [Next]_vars PROVE Inv'
    OBVIOUS
  <1>1. Types' /\ UNCHANGED scenario
    BY Steps DEF Inv
  <1>2. ASSUME NEW w \in Workers, Moves(w) PROVE Inv'
    BY <1>1, <1>2, EdgeInv
  <1>3. CASE UNCHANGED <<pc, of>>
    BY <1>1, <1>3 DEF Inv, Places, RoutesFlow, Alone, Ordered, BootRests, Made, Headless, Request, Reaches, Kind
  <1>4. CASE Crash
    <2>1. \A w \in Workers : pc'[w] = IF w \in Boot THEN "boot"
                                      ELSE IF pc[w] \in {"idle", "done"} THEN pc[w] ELSE "dead"
      BY <1>4 DEF Crash
    <2>2. /\ \A c \in Calls : c \in Workers /\ c \notin Boot /\ of'[c] = of[c]
          /\ Made' = Made /\ Headless' = Headless /\ Made \subseteq Calls
          /\ scenario.crashes \in Nat /\ crashes \in Nat
      BY <1>1, <1>4, ScenarioFacts DEF Inv, Types, Crash, Made, Headless, Request
    <2>3. Places'
      BY <1>1, <2>1, <2>2 DEF Inv, Places, Reaches, Kind, Request
    <2>4. RoutesFlow' /\ Alone'
      BY <1>1, <2>1, <2>2 DEF Inv, RoutesFlow, Alone, Inside, Past
    <2>5. Ordered'
      BY <1>1, <2>1, <2>2, ScenarioFacts DEF Inv, Ordered, Past
    <2>6. scenario.crashes # 0
      BY <1>4, <2>2 DEF Crash
    <2> QED
      BY <1>1, <2>3, <2>4, <2>5, <2>6 DEF Inv, BootRests
  <1> QED
    BY <1>2, <1>3, <1>4, Steps DEF Inv

LEMMA InvInit == Init => Inv
  <1> SUFFICES ASSUME Init PROVE Inv
    OBVIOUS
  <1>1. Scenario(scenario)
    BY LifecycleAssumption DEF Init
  <1>2. Made \subseteq Calls /\ \A c \in Made : Request[c].run \in Runs
    BY <1>1 DEF Scenario, Made, Request, RequestType
  <1>3. Calls \intersect Boot = {}
    BY LifecycleAssumption
  <1>4. (CHOOSE r \in Runs : TRUE) \in Runs
    BY LifecycleAssumption
  <1>5. TypeOK
    BY <1>2, <1>4 DEF Init, TypeOK, Terminal, Active, Statuses
  <1>6. Types
    BY <1>3, <1>5 DEF Init, Types, Workers, CallLabels, BootLabels, Shared
  <1>7. Places
    BY <1>3, <1>2 DEF Init, Places, Workers
  <1>8. \A c \in Calls : pc[c] = "idle"
    BY <1>3 DEF Init, Workers
  <1>9. RoutesFlow /\ Alone /\ Ordered
    BY <1>2, <1>8 DEF RoutesFlow, Alone, Ordered, Inside
  <1>10. BootRests
    BY DEF Init, BootRests, Workers
  <1> QED
    BY <1>6, <1>7, <1>9, <1>10 DEF Inv

(* Whatever calls overlap and wherever the daemon dies, every row and every local
   of the run, gate and session services keeps a value of its type. *)
THEOREM LifecycleTypes == Spec => []TypeOK
  <1>1. Inv => TypeOK
    BY DEF Inv, Types
  <1> QED
    BY <1>1, InvInit, InvNext, PTL DEF Spec

LEMMA NextScenario == [Next]_vars => UNCHANGED scenario
  BY DEF Next, vars

-----------------------------------------------------------------------------
(* Headless runs and the reports of their action. *)

LEMMA ReportNext ==
  ASSUME ReportsApart, ReportInv, Inv', [Next]_vars
  PROVE  MemosFresh' /\ CompletedAsReported'
  <1>0. /\ UNCHANGED scenario /\ Made' = Made /\ Headless' = Headless /\ Request' = Request
        /\ Types /\ Types' /\ Made \subseteq Calls
        /\ \A c \in Calls : c \in Workers /\ c \notin Boot
        /\ \A c \in Boot : c \in Workers /\ c \notin Calls
    BY InvNext, Steps, ScenarioFacts, NextScenario DEF Inv, ReportInv, GateInv, Made, Headless, Request
  <1>1. ASSUME NEW w \in Calls, CreateRun(w) PROVE MemosFresh' /\ CompletedAsReported'
    <2>1. \A r \in Runs : life'[r] = "completed" => life[r] = "completed"
      BY <1>0, <1>1 DEF CreateRun, SetLife, Types, TypeOK
    <2>2. MemosFresh'
      BY <1>0, <1>1 DEF CreateRun, Goto, Types, TypeOK, ReportInv, MemosFresh
    <2> QED
      BY <1>0, <1>1, <2>1, <2>2, ScenarioFacts DEF CreateRun, ReportInv, CompletedAsReported
  <1>2. ASSUME NEW w \in Calls, ParkRun(w) PROVE MemosFresh' /\ CompletedAsReported'
    BY <1>0, <1>2 DEF ParkRun, Goto, SetLife, rows, Types, TypeOK, ReportInv, MemosFresh, CompletedAsReported, Terminal, Active
  <1>3. ASSUME NEW w \in Calls, InsertGate(w) PROVE MemosFresh' /\ CompletedAsReported'
    BY <1>0, <1>3 DEF InsertGate, Goto, rows, Types, TypeOK, ReportInv, MemosFresh, CompletedAsReported, Terminal, Active
  <1>4. ASSUME NEW w \in Calls, GetGatedRun(w) PROVE MemosFresh' /\ CompletedAsReported'
    BY <1>0, <1>4 DEF GetGatedRun, Goto, Leave, rows, Types, TypeOK, ReportInv, MemosFresh, CompletedAsReported, Terminal, Active
  <1>5. ASSUME NEW w \in Calls, RequireInput(w) PROVE MemosFresh' /\ CompletedAsReported'
    BY <1>0, <1>5 DEF RequireInput, Goto, Leave, SetLife, rows, Types, TypeOK, ReportInv, MemosFresh, CompletedAsReported, Terminal, Active
  <1>6. ASSUME NEW w \in Calls, GetGate(w) PROVE MemosFresh' /\ CompletedAsReported'
    BY <1>0, <1>6 DEF GetGate, Goto, Leave, rows, Types, TypeOK, ReportInv, MemosFresh, CompletedAsReported, Terminal, Active
  <1>7. ASSUME NEW w \in Calls, UpdateGateStatus(w) PROVE MemosFresh' /\ CompletedAsReported'
    BY <1>0, <1>7 DEF UpdateGateStatus, Goto, rows, Types, TypeOK, ReportInv, MemosFresh, CompletedAsReported, Terminal, Active
  <1>8. ASSUME NEW w \in Calls, DecideRun(w) PROVE MemosFresh' /\ CompletedAsReported'
    BY <1>0, <1>8 DEF DecideRun, Goto, Leave, Orchestration, rows, Types, TypeOK, ReportInv, MemosFresh, CompletedAsReported, Terminal, Active
  <1>9. ASSUME NEW w \in Calls, Bind(w) PROVE MemosFresh' /\ CompletedAsReported'
    <2>1. \A r \in Runs : life'[r] = "completed" => life[r] = "completed"
      BY <1>0, <1>9 DEF Bind, SetLife, Types, TypeOK
    <2>2. MemosFresh'
      BY <1>0, <1>9 DEF Bind, Goto, Leave, Types, TypeOK, ReportInv, MemosFresh
    <2> QED
      BY <1>0, <1>9, <2>1, <2>2, ScenarioFacts DEF Bind, ReportInv, CompletedAsReported
  <1>10. ASSUME NEW w \in Calls, RejectOrchestration(w) PROVE MemosFresh' /\ CompletedAsReported'
    BY <1>0, <1>10 DEF RejectOrchestration, Goto, SetLife, rows, Types, TypeOK, ReportInv, MemosFresh, CompletedAsReported, Terminal, Active
  <1>11. ASSUME NEW w \in Calls, Resume(w) PROVE MemosFresh' /\ CompletedAsReported'
    BY <1>0, <1>11 DEF Resume, Goto, Leave, SetLife, rows, Types, TypeOK, ReportInv, MemosFresh, CompletedAsReported, Terminal, Active
  <1>12. ASSUME NEW w \in Calls, GetCancelling(w) PROVE MemosFresh' /\ CompletedAsReported'
    BY <1>0, <1>12 DEF GetCancelling, Goto, Leave, rows, Types, TypeOK, ReportInv, MemosFresh, CompletedAsReported, Terminal, Active
  <1>13. ASSUME NEW w \in Calls, CancelRun(w) PROVE MemosFresh' /\ CompletedAsReported'
    BY <1>0, <1>13 DEF CancelRun, Goto, SetLife, rows, Types, TypeOK, ReportInv, MemosFresh, CompletedAsReported, Terminal, Active
  <1>14. ASSUME NEW w \in Calls, GetStepRun(w) PROVE MemosFresh' /\ CompletedAsReported'
    BY <1>0, <1>14 DEF GetStepRun, Goto, Leave, rows, Types, TypeOK, ReportInv, MemosFresh, CompletedAsReported, Terminal, Active
  <1>15. ASSUME NEW w \in Calls, OpenStep(w) PROVE MemosFresh' /\ CompletedAsReported'
    BY <1>0, <1>15 DEF OpenStep, Goto, Leave, SetLife, rows, Types, TypeOK, ReportInv, MemosFresh, CompletedAsReported, Terminal, Active
  <1>16. ASSUME NEW w \in Calls, CompleteRunIfFinished(w) PROVE MemosFresh' /\ CompletedAsReported'
    <2>1. of[w] \notin Headless
      BY <1>16 DEF CompleteRunIfFinished, ReportInv, Inv, RoutesFlow
    <2>2. \A r \in Headless : life'[r] = life[r]
      BY <1>0, <1>16, <2>1, ScenarioFacts DEF CompleteRunIfFinished, SetLife, Types, TypeOK
    <2>3. MemosFresh'
      BY <1>0, <1>16 DEF CompleteRunIfFinished, Goto, Types, TypeOK, ReportInv, MemosFresh
    <2> QED
      BY <1>0, <1>16, <2>2, <2>3 DEF CompleteRunIfFinished, ReportInv, CompletedAsReported
  <1>17. ASSUME NEW w \in Calls, RunGoesOn(w) PROVE MemosFresh' /\ CompletedAsReported'
    BY <1>0, <1>17 DEF RunGoesOn, Goto, Leave, rows, Types, TypeOK, ReportInv, MemosFresh, CompletedAsReported, Terminal, Active
  <1>18. ASSUME NEW w \in Calls, GetMemo(w) PROVE MemosFresh' /\ CompletedAsReported'
    BY <1>0, <1>18 DEF GetMemo, Goto, rows, Types, TypeOK, ReportInv, MemosFresh, CompletedAsReported, Terminal, Active
  <1>19. ASSUME NEW w \in Calls, UpsertMemo(w) PROVE MemosFresh' /\ CompletedAsReported'
    <2>1. /\ w \in Made /\ of[w] = Request[w].run /\ Kind(w) = "report" /\ pc[w] = "memo"
          /\ seen[w].memo = memo[of[w]] /\ of[w] \in Runs
      BY <1>0, <1>19 DEF UpsertMemo, ReportInv, Inv, Places, Reaches, MemosFresh, Types, TypeOK
    <2>2. /\ UNCHANGED <<life, of, seen>>
          /\ \A v \in Workers \ {w} : pc'[v] = pc[v]
          /\ pc'[w] \notin {"memo", "complete"}
      BY <1>0, <1>19 DEF UpsertMemo, Goto, Leave, Types
    <2>3. /\ \A r \in Runs \ {of[w]} : memo'[r] = memo[r]
          /\ memo[of[w]] = "completed" => memo'[of[w]] = "completed"
      BY <1>0, <1>19, <2>1 DEF UpsertMemo, AppliedMemo, Types, TypeOK
    <2>4. ASSUME NEW d \in Calls, d # w, pc[d] = "memo", of[d] = of[w] PROVE FALSE
      <3>1. d \in Made /\ Kind(d) = "report" /\ Request[d].run = Request[w].run
        BY <2>1, <2>4 DEF ReportInv, Inv, Places, Reaches
      <3>2. pc[w] \in Inside /\ pc[d] \in Inside
        BY <2>1, <2>4 DEF Inside, CallLabels, Past
      <3>3. scenario.slots # 1
        BY <2>4, <3>2 DEF ReportInv, Inv, Alone
      <3>4. d \in scenario.after[w] \/ w \in scenario.after[d]
        BY <1>0, <2>1, <2>4, <3>1, <3>3 DEF ReportsApart, Types, Made, Request, Kind
      <3> QED
        BY <2>1, <2>4, <3>1, <3>4 DEF ReportInv, Inv, Ordered, Past
    <2>5. MemosFresh'
      <3>1. ASSUME NEW d \in Calls, pc'[d] = "memo" PROVE seen'[d].memo = memo'[of'[d]]
        <4>1. d # w /\ pc[d] = "memo"
          BY <1>0, <2>2, <3>1
        <4>2. of[d] # of[w] /\ of[d] \in Runs
          BY <1>0, <2>4, <4>1 DEF Types, TypeOK
        <4> QED
          BY <2>2, <2>3, <4>1, <4>2 DEF ReportInv, MemosFresh
      <3>2. ASSUME NEW v \in Workers, pc'[v] = "complete" PROVE memo'[of'[v]] = "completed"
        <4>1. memo[of[v]] = "completed" /\ of[v] \in Runs
          BY <1>0, <2>2, <3>2 DEF ReportInv, MemosFresh, Types, TypeOK
        <4> QED
          BY <2>2, <2>3, <4>1
      <3> QED
        BY <3>1, <3>2 DEF MemosFresh
    <2>6. CompletedAsReported'
      BY <1>0, <2>2, <2>3, ScenarioFacts DEF ReportInv, CompletedAsReported
    <2> QED
      BY <2>5, <2>6
  <1>20. ASSUME NEW w \in Calls, MarkCancelRequested(w) PROVE MemosFresh' /\ CompletedAsReported'
    BY <1>0, <1>20 DEF MarkCancelRequested, Goto, rows, Types, TypeOK, ReportInv, MemosFresh, CompletedAsReported, Terminal, Active
  <1>21. ASSUME NEW w \in Calls, ListRuns(w) PROVE MemosFresh' /\ CompletedAsReported'
    BY <1>0, <1>21 DEF ListRuns, Goto, ActiveRuns, rows, Types, TypeOK, ReportInv, MemosFresh, CompletedAsReported, Terminal, Active
  <1>22. ASSUME NEW w \in Calls, ArmTimer(w) PROVE MemosFresh' /\ CompletedAsReported'
    BY <1>0, <1>22 DEF ArmTimer, Goto, rows, Types, TypeOK, ReportInv, MemosFresh, CompletedAsReported, Terminal, Active
  <1>23. ASSUME NEW w \in Calls, Timer(w) PROVE MemosFresh' /\ CompletedAsReported'
    BY <1>0, <1>23 DEF Timer, Goto, ActiveRuns, rows, Types, TypeOK, ReportInv, MemosFresh, CompletedAsReported, Terminal, Active
  <1>24. ASSUME NEW w \in Calls, TimerDone(w) PROVE MemosFresh' /\ CompletedAsReported'
    BY <1>0, <1>24 DEF TimerDone, Goto, rows, Types, TypeOK, ReportInv, MemosFresh, CompletedAsReported, Terminal, Active
  <1>25. ASSUME NEW w \in Workers, GetFailing(w) PROVE MemosFresh' /\ CompletedAsReported'
    BY <1>0, <1>25 DEF GetFailing, Goto, Leave, rows, Types, TypeOK, ReportInv, MemosFresh, CompletedAsReported, Terminal, Active
  <1>26. ASSUME NEW w \in Workers, FailRun(w) PROVE MemosFresh' /\ CompletedAsReported'
    BY <1>0, <1>26 DEF FailRun, Goto, SetLife, rows, Types, TypeOK, ReportInv, MemosFresh, CompletedAsReported, Terminal, Active
  <1>27. ASSUME NEW w \in Workers, GetHeadless(w) PROVE MemosFresh' /\ CompletedAsReported'
    BY <1>0, <1>27 DEF GetHeadless, Goto, Leave, rows, Types, TypeOK, ReportInv, MemosFresh, CompletedAsReported, Terminal, Active
  <1>28. ASSUME NEW w \in Workers, ListMemos(w) PROVE MemosFresh' /\ CompletedAsReported'
    <2>1. memo[of[w]] \in {"working", "completed", "failed"}
      BY <1>0 DEF Types, TypeOK
    <2>2. \/ Leave(w) \/ Goto(w, "fail")
          \/ Goto(w, "complete") /\ memo[of[w]] = "completed"
      BY <1>28, <2>1 DEF ListMemos
    <2> QED
      BY <1>0, <1>28, <2>2 DEF ListMemos, Leave, Goto, rows, Types, TypeOK, ReportInv, MemosFresh, CompletedAsReported
  <1>29. ASSUME NEW w \in Workers, CompleteHeadless(w) PROVE MemosFresh' /\ CompletedAsReported'
    BY <1>0, <1>29 DEF CompleteHeadless, Goto, SetLife, rows, Types, TypeOK, ReportInv, MemosFresh, CompletedAsReported, Terminal, Active
  <1>30. ASSUME NEW w \in Workers, GetSession(w) PROVE MemosFresh' /\ CompletedAsReported'
    BY <1>0, <1>30 DEF GetSession, Goto, rows, Types, TypeOK, ReportInv, MemosFresh, CompletedAsReported, Terminal, Active
  <1>31. ASSUME NEW w \in Workers, DeriveStatus(w) PROVE MemosFresh' /\ CompletedAsReported'
    BY <1>0, <1>31 DEF DeriveStatus, Goto, Leave, Lifecycles, rows, Types, TypeOK, ReportInv, MemosFresh, CompletedAsReported, Terminal, Active
  <1>32. ASSUME NEW w \in Workers, UpdateSessionStatus(w) PROVE MemosFresh' /\ CompletedAsReported'
    BY <1>0, <1>32 DEF UpdateSessionStatus, Goto, Leave, rows, Types, TypeOK, ReportInv, MemosFresh, CompletedAsReported, Terminal, Active
  <1>33. ASSUME NEW w \in Boot, ListAtBoot(w) PROVE MemosFresh' /\ CompletedAsReported'
    BY <1>0, <1>33 DEF ListAtBoot, Goto, ActiveRuns, rows, Types, TypeOK, ReportInv, MemosFresh, CompletedAsReported, Terminal, Active
  <1>34. ASSUME NEW w \in Boot, BootDone(w) PROVE MemosFresh' /\ CompletedAsReported'
    BY <1>0, <1>34 DEF BootDone, Goto, rows, Types, TypeOK, ReportInv, MemosFresh, CompletedAsReported, Terminal, Active
  <1>35. ASSUME NEW w \in Calls, Begin(w) PROVE MemosFresh' /\ CompletedAsReported'
    <2>1. Request[w].kind \in Kinds
      BY <1>0, <1>35, ScenarioFacts DEF Begin, RequestType
    <2>2. FirstStep(Request[w].kind) \notin {"memo", "complete"}
      BY <2>1, FirstStepFacts
    <2> QED
      BY <1>0, <1>35, <2>2 DEF Begin, Goto, rows, Types, TypeOK, ReportInv, MemosFresh, CompletedAsReported
  <1>36. ASSUME NEW w \in Boot, NEW r \in Runs, VisitRun(w, r) PROVE MemosFresh' /\ CompletedAsReported'
    BY <1>0, <1>36 DEF VisitRun, Goto, rows, Types, TypeOK, ReportInv, MemosFresh, CompletedAsReported, Terminal, Active
  <1>37. ASSUME NEW w \in Calls, NEW r \in Runs, SweepRun(w, r) PROVE MemosFresh' /\ CompletedAsReported'
    BY <1>0, <1>37 DEF SweepRun, Goto, SetLife, rows, Types, TypeOK, ReportInv, MemosFresh, CompletedAsReported, Terminal, Active
  <1>38. CASE Crash
    BY <1>0, <1>38 DEF Crash, rows, Types, TypeOK, ReportInv, MemosFresh, CompletedAsReported, Terminal, Active
  <1>39. CASE UNCHANGED vars
    BY <1>0, <1>39 DEF vars, rows, Types, TypeOK, ReportInv, MemosFresh, CompletedAsReported, Terminal, Active
  <1> QED
    BY <1>1, <1>2, <1>3, <1>4, <1>5, <1>6, <1>7, <1>8, <1>9, <1>10, <1>11, <1>12, <1>13, <1>14, <1>15, <1>16, <1>17, <1>18, <1>19, <1>20, <1>21, <1>22, <1>23, <1>24, <1>25, <1>26, <1>27, <1>28, <1>29, <1>30, <1>31, <1>32, <1>33, <1>34, <1>35, <1>36, <1>37, <1>38, <1>39 DEF Next, Call, Step, BootPass

LEMMA ReportInit == Init => ReportInv
  <1> SUFFICES ASSUME Init PROVE ReportInv
    OBVIOUS
  <1>1. \A w \in Workers : pc[w] \in {"idle", "done"}
    BY DEF Init
  <1>2. Headless \subseteq Runs
    BY InvInit, ScenarioFacts DEF Inv
  <1> QED
    BY <1>1, <1>2, InvInit DEF ReportInv, MemosFresh, CompletedAsReported, Workers, Init

(* A headless run that is completed has a completed step, through timeouts, late
   answers, session cancels, crashes and the reconcile pass of the boot, when two
   reports of one run do not overlap. (applyStepMemoFromJournal replaces a memo it
   read before: MCRunLifecycle_Docs.cfg has the overlap that breaks it.) *)
THEOREM CompletedRunsAreReported == ASSUME ReportsApart PROVE Spec => []CompletedAsReported
  <1>1. ReportInv => CompletedAsReported
    BY DEF ReportInv
  <1>2. ReportInv /\ [Next]_vars => ReportInv'
    BY InvNext, ReportNext DEF ReportInv
  <1> QED
    BY <1>1, <1>2, ReportInit, PTL DEF Spec

-----------------------------------------------------------------------------
(* Gates and the runs that wait for them. *)

LEMMA WaitsKept ==
  ASSUME GateInv, Types', UNCHANGED <<scenario, gate, of>>, NEW w \in Calls, NEW label,
         pc' = [pc EXCEPT ![w] = label], label \notin {"gateRun", "requireInput"},
         \A r \in Runs : life'[r] = "input-required" => life[r] = "input-required",
         pc[w] \notin Deciding \/ label \in Deciding \/ life'[of[w]] # "input-required"
  PROVE  Waits'
  <1> SUFFICES ASSUME Serial PROVE Waits'
    BY DEF Waits, Serial
  <1>1. \A c \in Calls : pc'[c] = IF c = w THEN label ELSE pc[c]
    BY DEF GateInv, Inv, Types, Workers
  <1>2. \A r \in Runs : Pending(r)' = Pending(r)
    BY DEF Pending, Made, Request
  <1>3. ASSUME NEW r \in Runs, life'[r] = "input-required"
        PROVE  Pending(r) \/ \E c \in Calls : of[c] = r /\ pc'[c] \in Deciding
    <2>1. CASE Pending(r)
      BY <2>1
    <2>2. CASE \E c \in Calls : of[c] = r /\ pc[c] \in Deciding
      <3>1. PICK c \in Calls : of[c] = r /\ pc[c] \in Deciding
        BY <2>2
      <3>2. pc'[c] \in Deciding
        BY <1>1, <1>3, <3>1
      <3> QED
        BY <3>1, <3>2
    <2> QED
      BY <1>3, <2>1, <2>2 DEF GateInv, Waits
  <1> QED
    BY <1>1, <1>2, <1>3 DEF GateInv, Waits

LEMMA WaitsNext ==
  ASSUME NoAttach, GateInv, Inv', [Next]_vars
  PROVE  Waits'
  <1>0. /\ UNCHANGED scenario /\ Made' = Made /\ Headless' = Headless /\ Request' = Request
        /\ Types /\ Types' /\ Made \subseteq Calls
        /\ \A c \in Calls : c \in Workers /\ c \notin Boot
        /\ \A c \in Boot : c \in Workers /\ c \notin Calls
    BY InvNext, Steps, ScenarioFacts, NextScenario DEF Inv, ReportInv, GateInv, Made, Headless, Request
  <1>a. Serial => \A b \in Boot : pc[b] = "done"
    BY DEF GateInv, Inv, BootRests, Serial
  <1>b. Serial => \A c \in Made : Kind(c) # "attach"
    BY <1>0 DEF NoAttach, Types, Serial, Made, Kind, Request
  <1>1. ASSUME NEW w \in Calls, CreateRun(w) PROVE Waits'
    BY <1>0, <1>1 DEF CreateRun, Goto, SetLife, rows, Types, TypeOK, GateInv, Waits, Pending, Deciding, Serial
  <1>2. ASSUME NEW w \in Calls, ParkRun(w) PROVE Waits'
    <2>1. ~Serial
      BY <1>0, <1>b, <1>2, ScenarioFacts DEF ParkRun, GateInv, Inv, Places, Reaches
    <2> QED
      BY <1>0, <2>1 DEF Waits, Serial
  <1>3. ASSUME NEW w \in Calls, InsertGate(w) PROVE Waits'
    BY <1>0, <1>3 DEF InsertGate, Goto, rows, Types, TypeOK, GateInv, Waits, Pending, Deciding, Serial
  <1>4. ASSUME NEW w \in Calls, GetGatedRun(w) PROVE Waits'
    BY <1>0, <1>4 DEF GetGatedRun, Goto, Leave, rows, Types, TypeOK, GateInv, Waits, Pending, Deciding, Serial
  <1>5. ASSUME NEW w \in Calls, RequireInput(w) PROVE Waits'
    <2> SUFFICES ASSUME Serial PROVE Waits'
      BY <1>0 DEF Waits, Serial
    <2>1. w \in Made /\ of[w] = Request[w].run /\ gate[w] = "pending" /\ of[w] \in Runs
      BY <1>0, <1>5 DEF RequireInput, GateInv, Inv, Places, Waits, Types, TypeOK
    <2>2. /\ UNCHANGED <<gate, of>> /\ pc' = [pc EXCEPT ![w] = "done"] /\ pc[w] \notin Deciding
          /\ \A r \in Runs : r # of[w] => life'[r] = life[r]
      BY <1>0, <1>5 DEF RequireInput, Goto, Leave, Deciding, SetLife, Types, TypeOK
    <2>3. Pending(of[w])'
      BY <1>0, <2>1, <2>2 DEF Pending
    <2>4. \A r \in Runs : Pending(r)' = Pending(r)
      BY <1>0, <2>2 DEF Pending
    <2> QED
      BY <1>0, <2>2, <2>3, <2>4 DEF GateInv, Waits, Types
  <1>6. ASSUME NEW w \in Calls, GetGate(w) PROVE Waits'
    BY <1>0, <1>6 DEF GetGate, Goto, Leave, rows, Types, TypeOK, GateInv, Waits, Pending, Deciding, Serial
  <1>7. ASSUME NEW w \in Calls, UpdateGateStatus(w) PROVE Waits'
    <2> SUFFICES ASSUME Serial PROVE Waits'
      BY <1>0 DEF Waits, Serial
    <2> DEFINE g == Request[w].gate
    <2>1. w \in Made /\ Kind(w) = "resolve" /\ pc[w] = "decide" /\ of[w] = Request[w].run
      BY <1>7 DEF UpdateGateStatus, GateInv, Inv, Places, Reaches
    <2>2. g \in Made /\ Request[g].run = of[w]
      BY <1>0, <2>1, ScenarioFacts
    <2>3. /\ UNCHANGED <<life, of>> /\ \A c \in Calls : c # w => pc'[c] = pc[c]
          /\ pc'[w] = "decided" /\ \A h \in Calls : h # g => gate'[h] = gate[h]
      BY <1>0, <1>7 DEF UpdateGateStatus, Goto, Types, TypeOK
    <2>4. ASSUME NEW c \in Calls, pc'[c] \in {"gateRun", "requireInput"} PROVE FALSE
      <3>1. c # w /\ pc[c] \in {"gateRun", "requireInput"}
        BY <2>3, <2>4
      <3>2. scenario.slots = 1 /\ pc[c] \in Inside /\ pc[w] \in Inside
        BY <2>1, <3>1 DEF Serial, Inside, CallLabels, Past
      <3> QED
        BY <3>1, <3>2 DEF GateInv, Inv, Alone
    <2>5. ASSUME NEW r \in Runs, life'[r] = "input-required"
          PROVE  Pending(r)' \/ \E c \in Calls : of'[c] = r /\ pc'[c] \in Deciding
      <3>1. CASE r = of[w]
        BY <2>3, <3>1 DEF Deciding
      <3>2. CASE r # of[w]
        <4>1. Pending(r) => Pending(r)'
          BY <1>0, <2>2, <2>3, <3>2 DEF Pending
        <4>2. ASSUME NEW c \in Calls, of[c] = r, pc[c] \in Deciding
              PROVE  of'[c] = r /\ pc'[c] \in Deciding
          BY <2>3, <3>2, <4>2
        <4>3. Pending(r) \/ \E c \in Calls : of[c] = r /\ pc[c] \in Deciding
          BY <2>3, <2>5 DEF GateInv, Waits
        <4> QED
          BY <4>1, <4>2, <4>3
      <3> QED
        BY <3>1, <3>2
    <2> QED
      BY <2>4, <2>5 DEF Waits
  <1>8. ASSUME NEW w \in Calls, DecideRun(w) PROVE Waits'
    <2> SUFFICES ASSUME Serial PROVE Waits'
      BY <1>0 DEF Waits, Serial
    <2>1. w \in Made /\ Kind(w) = "resolve"
      BY <1>8 DEF DecideRun, GateInv, Inv, Places, Reaches
    <2>2. Request[w].gate \in Made /\ ~Orchestration(Request[w].gate)
      BY <1>0, <1>b, <2>1, ScenarioFacts DEF Orchestration, Kind
    <2>3. UNCHANGED <<life, gate, of>>
      BY <1>8 DEF DecideRun, rows
    <2>4. \E label \in {"fail", "resume", "done"} :
            /\ pc' = [pc EXCEPT ![w] = label]
            /\ label \in Deciding \/ life[of[w]] # "input-required"
      BY <1>0, <1>8, <2>2 DEF DecideRun, Goto, Leave, Deciding
    <2> QED
      BY <1>0, <2>3, <2>4, WaitsKept DEF Types
  <1>9. ASSUME NEW w \in Calls, Bind(w) PROVE Waits'
    <2>1. ~Serial
      BY <1>0, <1>b, <1>9, ScenarioFacts DEF Bind, GateInv, Inv, Places, Reaches
    <2> QED
      BY <1>0, <2>1 DEF Waits, Serial
  <1>10. ASSUME NEW w \in Calls, RejectOrchestration(w) PROVE Waits'
    BY <1>0, <1>10 DEF RejectOrchestration, Goto, SetLife, rows, Types, TypeOK, GateInv, Waits, Pending, Deciding, Serial
  <1>11. ASSUME NEW w \in Calls, Resume(w) PROVE Waits'
    BY <1>0, <1>11 DEF Resume, Goto, Leave, SetLife, rows, Types, TypeOK, GateInv, Waits, Pending, Deciding, Serial
  <1>12. ASSUME NEW w \in Calls, GetCancelling(w) PROVE Waits'
    BY <1>0, <1>12 DEF GetCancelling, Goto, Leave, rows, Types, TypeOK, GateInv, Waits, Pending, Deciding, Serial
  <1>13. ASSUME NEW w \in Calls, CancelRun(w) PROVE Waits'
    BY <1>0, <1>13 DEF CancelRun, Goto, SetLife, rows, Types, TypeOK, GateInv, Waits, Pending, Deciding, Serial
  <1>14. ASSUME NEW w \in Calls, GetStepRun(w) PROVE Waits'
    BY <1>0, <1>14 DEF GetStepRun, Goto, Leave, rows, Types, TypeOK, GateInv, Waits, Pending, Deciding, Serial
  <1>15. ASSUME NEW w \in Calls, OpenStep(w) PROVE Waits'
    BY <1>0, <1>15 DEF OpenStep, Goto, Leave, SetLife, rows, Types, TypeOK, GateInv, Waits, Pending, Deciding, Serial
  <1>16. ASSUME NEW w \in Calls, CompleteRunIfFinished(w) PROVE Waits'
    BY <1>0, <1>16 DEF CompleteRunIfFinished, Goto, SetLife, rows, Types, TypeOK, GateInv, Waits, Pending, Deciding, Serial
  <1>17. ASSUME NEW w \in Calls, RunGoesOn(w) PROVE Waits'
    BY <1>0, <1>17 DEF RunGoesOn, Goto, Leave, rows, Types, TypeOK, GateInv, Waits, Pending, Deciding, Serial
  <1>18. ASSUME NEW w \in Calls, GetMemo(w) PROVE Waits'
    BY <1>0, <1>18 DEF GetMemo, Goto, rows, Types, TypeOK, GateInv, Waits, Pending, Deciding, Serial
  <1>19. ASSUME NEW w \in Calls, UpsertMemo(w) PROVE Waits'
    BY <1>0, <1>19 DEF UpsertMemo, Goto, Leave, AppliedMemo, rows, Types, TypeOK, GateInv, Waits, Pending, Deciding, Serial
  <1>20. ASSUME NEW w \in Calls, MarkCancelRequested(w) PROVE Waits'
    BY <1>0, <1>20 DEF MarkCancelRequested, Goto, rows, Types, TypeOK, GateInv, Waits, Pending, Deciding, Serial
  <1>21. ASSUME NEW w \in Calls, ListRuns(w) PROVE Waits'
    BY <1>0, <1>21 DEF ListRuns, Goto, ActiveRuns, rows, Types, TypeOK, GateInv, Waits, Pending, Deciding, Serial
  <1>22. ASSUME NEW w \in Calls, ArmTimer(w) PROVE Waits'
    BY <1>0, <1>22 DEF ArmTimer, Goto, rows, Types, TypeOK, GateInv, Waits, Pending, Deciding, Serial
  <1>23. ASSUME NEW w \in Calls, Timer(w) PROVE Waits'
    BY <1>0, <1>23 DEF Timer, Goto, ActiveRuns, rows, Types, TypeOK, GateInv, Waits, Pending, Deciding, Serial
  <1>24. ASSUME NEW w \in Calls, TimerDone(w) PROVE Waits'
    BY <1>0, <1>24 DEF TimerDone, Goto, rows, Types, TypeOK, GateInv, Waits, Pending, Deciding, Serial
  <1>25. ASSUME NEW w \in Workers, GetFailing(w) PROVE Waits'
    <2> SUFFICES ASSUME Serial PROVE Waits'
      BY <1>0 DEF Waits, Serial
    <2>1. w \in Calls /\ of[w] \in Runs
      BY <1>0, <1>a, <1>25 DEF GetFailing, Workers, Types, TypeOK
    <2>2. UNCHANGED <<gate, of>> /\ \E label \in {"failed", "done"} : pc' = [pc EXCEPT ![w] = label]
      BY <1>0, <1>25, <2>1 DEF GetFailing, Goto, Leave, rows
    <2>3. \A r \in Runs : life'[r] = "input-required" => life[r] = "input-required"
      BY <1>0, <1>25, <2>1 DEF GetFailing, SetLife, rows, Types, TypeOK
    <2>4. pc[w] \notin Deciding \/ pc'[w] \in Deciding \/ life'[of[w]] # "input-required"
      BY <1>0, <1>25, <2>1 DEF GetFailing, SetLife, rows, Goto, Leave, Deciding, Terminal, Types, TypeOK
    <2>5. PICK label \in {"failed", "done"} : pc' = [pc EXCEPT ![w] = label]
      BY <2>2
    <2>6. pc'[w] = label
      BY <1>0, <2>1, <2>5 DEF Types
    <2> QED
      BY <1>0, <2>1, <2>2, <2>3, <2>4, <2>5, <2>6, WaitsKept
  <1>26. ASSUME NEW w \in Workers, FailRun(w) PROVE Waits'
    <2> SUFFICES ASSUME Serial PROVE Waits'
      BY <1>0 DEF Waits, Serial
    <2>1. w \in Calls /\ of[w] \in Runs
      BY <1>0, <1>a, <1>26 DEF FailRun, Workers, Types, TypeOK
    <2>2. UNCHANGED <<gate, of>> /\ \E label \in {"refresh"} : pc' = [pc EXCEPT ![w] = label]
      BY <1>0, <1>26, <2>1 DEF FailRun, Goto, Leave, rows
    <2>3. \A r \in Runs : life'[r] = "input-required" => life[r] = "input-required"
      BY <1>0, <1>26, <2>1 DEF FailRun, SetLife, rows, Types, TypeOK
    <2>4. pc[w] \notin Deciding \/ pc'[w] \in Deciding \/ life'[of[w]] # "input-required"
      BY <1>0, <1>26, <2>1 DEF FailRun, SetLife, rows, Goto, Leave, Deciding, Terminal, Types, TypeOK
    <2>5. PICK label \in {"refresh"} : pc' = [pc EXCEPT ![w] = label]
      BY <2>2
    <2>6. pc'[w] = label
      BY <1>0, <2>1, <2>5 DEF Types
    <2> QED
      BY <1>0, <2>1, <2>2, <2>3, <2>4, <2>5, <2>6, WaitsKept
  <1>27. ASSUME NEW w \in Workers, GetHeadless(w) PROVE Waits'
    BY <1>0, <1>27 DEF GetHeadless, Goto, Leave, rows, Types, TypeOK, GateInv, Waits, Pending, Deciding, Serial
  <1>28. ASSUME NEW w \in Workers, ListMemos(w) PROVE Waits'
    <2> SUFFICES ASSUME Serial PROVE Waits'
      BY <1>0 DEF Waits, Serial
    <2>1. w \in Calls /\ memo[of[w]] \in {"working", "completed", "failed"}
      BY <1>0, <1>a, <1>28 DEF ListMemos, Workers, Types, TypeOK
    <2>2. \E label \in {"fail", "complete", "done"} : pc' = [pc EXCEPT ![w] = label]
      BY <1>0, <1>28, <2>1 DEF ListMemos, Goto, Leave
    <2>3. UNCHANGED <<life, gate, of>> /\ pc[w] \notin Deciding
      BY <1>28 DEF ListMemos, rows, Deciding
    <2> QED
      BY <1>0, <2>1, <2>2, <2>3, WaitsKept
  <1>29. ASSUME NEW w \in Workers, CompleteHeadless(w) PROVE Waits'
    BY <1>0, <1>29 DEF CompleteHeadless, Goto, SetLife, rows, Types, TypeOK, GateInv, Waits, Pending, Deciding, Serial
  <1>30. ASSUME NEW w \in Workers, GetSession(w) PROVE Waits'
    <2> SUFFICES ASSUME Serial PROVE Waits'
      BY <1>0 DEF Waits, Serial
    <2>1. w \in Calls /\ of[w] \in Runs
      BY <1>0, <1>a, <1>30 DEF GetSession, Workers, Types, TypeOK
    <2>2. UNCHANGED <<gate, of>> /\ \E label \in {"derive"} : pc' = [pc EXCEPT ![w] = label]
      BY <1>0, <1>30, <2>1 DEF GetSession, Goto, Leave, rows
    <2>3. \A r \in Runs : life'[r] = "input-required" => life[r] = "input-required"
      BY <1>0, <1>30, <2>1 DEF GetSession, SetLife, rows, Types, TypeOK
    <2>4. pc[w] \notin Deciding \/ pc'[w] \in Deciding \/ life'[of[w]] # "input-required"
      BY <1>0, <1>30, <2>1 DEF GetSession, SetLife, rows, Goto, Leave, Deciding, Terminal, Types, TypeOK
    <2>5. PICK label \in {"derive"} : pc' = [pc EXCEPT ![w] = label]
      BY <2>2
    <2>6. pc'[w] = label
      BY <1>0, <2>1, <2>5 DEF Types
    <2> QED
      BY <1>0, <2>1, <2>2, <2>3, <2>4, <2>5, <2>6, WaitsKept
  <1>31. ASSUME NEW w \in Workers, DeriveStatus(w) PROVE Waits'
    <2> SUFFICES ASSUME Serial PROVE Waits'
      BY <1>0 DEF Waits, Serial
    <2>1. w \in Calls /\ of[w] \in Runs
      BY <1>0, <1>a, <1>31 DEF DeriveStatus, Workers, Types, TypeOK
    <2>2. UNCHANGED <<gate, of>> /\ \E label \in {"setStatus", "done"} : pc' = [pc EXCEPT ![w] = label]
      BY <1>0, <1>31, <2>1 DEF DeriveStatus, Goto, Leave, rows
    <2>3. \A r \in Runs : life'[r] = "input-required" => life[r] = "input-required"
      BY <1>0, <1>31, <2>1 DEF DeriveStatus, SetLife, rows, Types, TypeOK
    <2>4. pc[w] \notin Deciding \/ pc'[w] \in Deciding \/ life'[of[w]] # "input-required"
      BY <1>0, <1>31, <2>1 DEF DeriveStatus, SetLife, rows, Goto, Leave, Deciding, Terminal, Types, TypeOK
    <2>5. PICK label \in {"setStatus", "done"} : pc' = [pc EXCEPT ![w] = label]
      BY <2>2
    <2>6. pc'[w] = label
      BY <1>0, <2>1, <2>5 DEF Types
    <2> QED
      BY <1>0, <2>1, <2>2, <2>3, <2>4, <2>5, <2>6, WaitsKept
  <1>32. ASSUME NEW w \in Workers, UpdateSessionStatus(w) PROVE Waits'
    BY <1>0, <1>32 DEF UpdateSessionStatus, Goto, Leave, rows, Types, TypeOK, GateInv, Waits, Pending, Deciding, Serial
  <1>33. ASSUME NEW w \in Boot, ListAtBoot(w) PROVE Waits'
    BY <1>0, <1>33 DEF ListAtBoot, Goto, ActiveRuns, rows, Types, TypeOK, GateInv, Waits, Pending, Deciding, Serial
  <1>34. ASSUME NEW w \in Boot, BootDone(w) PROVE Waits'
    <2>1. ~Serial
      BY <1>0, <1>a, <1>34 DEF BootDone, GateInv, Inv, BootRests, Serial
    <2> QED
      BY <1>0, <2>1 DEF Waits, Serial
  <1>35. ASSUME NEW w \in Calls, Begin(w) PROVE Waits'
    <2>1. Request[w].kind \in Kinds
      BY <1>0, <1>35, ScenarioFacts DEF Begin, RequestType
    <2>2. FirstStep(Request[w].kind) \notin {"gateRun", "requireInput"}
      BY <2>1, FirstStepFacts
    <2>3. UNCHANGED <<life, gate, of>> /\ pc[w] \notin Deciding
      BY <1>35 DEF Begin, rows, Deciding
    <2> QED
      BY <1>0, <1>35, <2>2, <2>3, WaitsKept DEF Begin, Goto
  <1>36. ASSUME NEW w \in Boot, NEW r \in Runs, VisitRun(w, r) PROVE Waits'
    <2>1. ~Serial
      BY <1>0, <1>a, <1>36 DEF VisitRun, GateInv, Inv, BootRests, Serial
    <2> QED
      BY <1>0, <2>1 DEF Waits, Serial
  <1>37. ASSUME NEW w \in Calls, NEW r \in Runs, SweepRun(w, r) PROVE Waits'
    BY <1>0, <1>37 DEF SweepRun, Goto, SetLife, rows, Types, TypeOK, GateInv, Waits, Pending, Deciding, Serial
  <1>38. CASE Crash
    BY <1>0, <1>38 DEF Crash, rows, Types, TypeOK, GateInv, Waits, Pending, Deciding, Serial
  <1>39. CASE UNCHANGED vars
    BY <1>0, <1>39 DEF vars, rows, Types, TypeOK, GateInv, Waits, Pending, Deciding, Serial
  <1> QED
    BY <1>1, <1>2, <1>3, <1>4, <1>5, <1>6, <1>7, <1>8, <1>9, <1>10, <1>11, <1>12, <1>13, <1>14, <1>15, <1>16, <1>17, <1>18, <1>19, <1>20, <1>21, <1>22, <1>23, <1>24, <1>25, <1>26, <1>27, <1>28, <1>29, <1>30, <1>31, <1>32, <1>33, <1>34, <1>35, <1>36, <1>37, <1>38, <1>39 DEF Next, Call, Step, BootPass

LEMMA GateInit == Init => GateInv
  <1> SUFFICES ASSUME Init PROVE GateInv
    OBVIOUS
  <1>1. \A w \in Workers : pc[w] \in {"idle", "done"}
    BY DEF Init
  <1> QED
    BY <1>1, InvInit DEF GateInv, Waits, Workers, Init

(* When calls come one at a time and no orchestration is attached, a run waits for
   a person only while a gate of it can be resolved: whatever gates are opened,
   approved and rejected, and whatever cancels, fails and routes the run, the
   timer of a session cancel included. *)
THEOREM WaitingRunsHaveGates == ASSUME NoAttach PROVE Spec => []InputHasGate
  <1>1. GateInv => InputHasGate
    <2> SUFFICES ASSUME GateInv, Serial, Running = {}, NEW r \in Runs, life[r] = "input-required"
                 PROVE  Pending(r)
      BY DEF InputHasGate, Pending
    <2>1. \A c \in Calls : pc[c] \notin Deciding
      BY DEF Running, Deciding
    <2> QED
      BY <2>1 DEF GateInv, Waits
  <1>2. GateInv /\ [Next]_vars => GateInv'
    BY InvNext, WaitsNext DEF GateInv
  <1> QED
    BY <1>1, <1>2, GateInit, PTL DEF Spec

=============================================================================
