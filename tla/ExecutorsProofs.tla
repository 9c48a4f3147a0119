--------------------------- MODULE ExecutorsProofs ---------------------------
(***************************************************************************)
(* Proofs about Executors, for every set of calls, of workers, of executor *)
(* types and of clients.                                                   *)
(*                                                                         *)
(* The three invariants the runs check rest on what a worker's record can  *)
(* say at each of its steps (JobsOK), on the handles and kill timers of a   *)
(* process tree (TreesOK), and on where the calls of one idempotency key    *)
(* can be between their first step and the executor (Overtaken, TasksOK,    *)
(* KeyOK, QueuedOK).                                                       *)
(***************************************************************************)
EXTENDS Executors, FiniteSetTheorems, WellFoundedInduction, TLAPS

Labels == {"idle", "mint", "lookup", "preflight", "dispatch", "port", "memoizeFailed",
           "projRead", "projWrite", "resolve", "autoNested", "exitMemos", "sweepMemos",
           "failRead", "failEnd", "completeRun", "flush"}
Events == {None, "dispatched", "unavailable", "completed", "failed", "timed_out"}
Thens == {"idle", "dispatch", "return", "memoizeFailed", "branch", "failRead"}
Memos == {"working", "yielded"} \union Done

JobRecord ==
    [at : Labels, call : Calls \union {0}, ev : Events, was : Memos \union {None},
     then : Thens,
     flush : SUBSET Calls]
ProcRecord ==
    [group : SUBSET {"leader", "descendant"}, signalled : BOOLEAN,
     kill : SUBSET {"cancel", "timeout"}, settled : BOOLEAN, killed : BOOLEAN]
HistoryRecord ==
    [used : SUBSET Calls, overlap : BOOLEAN, sent : SUBSET Calls, overtaken : SUBSET (Calls \union {0}),
     resumed : SUBSET Calls, reports : [Calls -> Nat], why : {None, "sweep", "exit", "invoke", "cancel", "resolve"}]

(* The types, with those of the records. *)
Types ==
    /\ TypeOK
    /\ proc \in [Calls -> ProcRecord]
    /\ job \in [Workers -> JobRecord]
    /\ history \in HistoryRecord

\* The call of this record can still be on its way to an executor.
OnItsWay(j) == j.at \in {"preflight", "dispatch", "port"} \/ j.ev = "dispatched"
Dispatching(j) == j.at \in {"mint", "lookup"} \/ OnItsWay(j)
Active(j) == Dispatching(j) \/ j.flush # {}

(* What a worker's record says at each of its steps. *)
JobOK(j) ==
    /\ j.at = "idle" => j.ev = None /\ j.then = "idle" /\ j.flush = {}
    /\ j.at = "flush" => j.flush # {} /\ j.ev = None
    /\ j.at \in InvokeSteps \union {"exitMemos", "failEnd"} => j.ev # "dispatched"
    /\ Dispatching(j) => j.call \in history.used
    /\ j.ev = "dispatched" <=> j.then = "dispatch"
    /\ j.ev = "dispatched" => j.at \in {"projRead", "projWrite"}
    /\ j.at \in {"projRead", "projWrite", "resolve", "autoNested", "exitMemos"} => j.then # "idle"
    /\ j.flush # {} => Dispatching(j) \/ j.at = "flush" \/ j.ev = "unavailable"
    /\ j.at \in {"mint", "lookup"} => j.flush = {}
    /\ j.ev = "unavailable" => j.at \in {"projRead", "projWrite"} /\ j.then = "return"
    /\ j.at = "memoizeFailed" \/ j.then = "memoizeFailed" => setup.kind = "shell"
    /\ setup.kind # "mcp" => j.flush = {}

JobsOK ==
    /\ setup.kind = "shell" => setup.delivery = "fail_fast" /\ pending = {}
    /\ setup.kind # "shell" => handles = {} /\ proc = [c \in Calls |-> NoProc]
    /\ setup.kind # "queue" => \A c \in Calls : task[c] = None
    /\ cached = "queued" => setup.delivery = "queue_until_executor"
    /\ pending \subseteq history.used
    /\ \A w \in Workers : JobOK(job[w]) /\ job[w].flush \subseteq history.used

(* A living leader has a handle or was signalled; so was a tree being killed. *)
TreesOK ==
    \A c \in Calls :
        /\ "leader" \in proc[c].group /\ c \notin handles => proc[c].signalled
        /\ "cancel" \in proc[c].kill => proc[c].signalled

(* Only calls the end of the run overtook are still on their way. *)
Overtaken ==
    life \in Terminal =>
        \A w \in Workers :
            job[w].at = "mint" \/ (setup.kind # "mcp" /\ Dispatching(job[w]))
                => job[w].call \in history.overtaken

(* A call on its way to a poll store has no record there yet, and is on its  *)
(* way once; a task that was reported is not offered.                        *)
TasksOK ==
    setup.kind = "queue" =>
        /\ \A c \in Calls : c \notin history.used => task[c] = None
        /\ \A w \in Workers : Dispatching(job[w]) => task[job[w].call] = None
        /\ \A v, w \in Workers :
              Dispatching(job[v]) /\ Dispatching(job[w]) /\ job[v].call = job[w].call => v = w
        /\ \A c \in Calls : history.reports[c] = 0 \/ (history.reports[c] = 1 /\ task[c] \in Done)

(* Calls that do not overlap: one is on its way or queued, and none of them  *)
(* gets past the memo once one was sent.                                     *)
KeyOK ==
    ~history.overlap =>
        /\ \A v, w \in Workers : Active(job[v]) /\ Active(job[w]) => v = w
        /\ \A w \in Workers :
              /\ Active(job[w]) => pending = {}
              /\ job[w].flush # {} => job[w].at = "flush"
              /\ \A c, d \in job[w].flush : c = d
        /\ \A c, d \in pending : c = d
        /\ \A c, d \in history.sent : c = d
        /\ history.sent # {} =>
              /\ cached # None /\ pending = {}
              /\ \A w \in Workers : Active(job[w]) => job[w].at \in {"mint", "lookup"}

(* A queued invoke is queued, taken by a flush, or past the memo. *)
QueuedOK ==
    cached = "queued" =>
        pending # {} \/ \E w \in Workers : OnItsWay(job[w]) \/ job[w].flush # {}

-----------------------------------------------------------------------------
(* The least of a set of numbers, and the first call not made yet. *)

LEMMA MinIn ==
  ASSUME NEW S, S \subseteq Nat, S # {}
  PROVE  Min(S) \in S
  <1> DEFINE R == OpToRel(<, Nat)
  <1>1. PICK x \in S : \A y \in S : ~ (<<y, x>> \in R)
    BY NatLessThanWellFounded, WFMin
  <1>2. \A y \in S : x <= y
    <2> SUFFICES ASSUME NEW y \in S, ~ (x <= y) PROVE FALSE
      OBVIOUS
    <2>1. y < x /\ x \in Nat /\ y \in Nat
      OBVIOUS
    <2>2. <<y, x>> \in R
      BY <2>1 DEF OpToRel
    <2> QED
      BY <1>1, <2>2
  <1> QED
    BY <1>2 DEF Min

LEMMA FirstCall == Min(Calls) \in Calls /\ (Fresh # {} => Min(Fresh) \in Calls \ history.used)
  BY MinIn, CallsAssumption DEF Fresh

-----------------------------------------------------------------------------
(* How a worker's record changes. *)

JobTypes == job \in [Workers -> JobRecord]

\* Worker w goes on with this record; the others keep theirs.
Moves(w, at, call, ev, then, flush) ==
    /\ job' \in [Workers -> JobRecord]
    /\ job'[w].at = at /\ job'[w].call = call /\ job'[w].ev = ev
    /\ job'[w].then = then /\ job'[w].flush = flush
    /\ \A v \in Workers : v # w => job'[v] = job[v]

LEMMA MovesTo ==
  ASSUME JobTypes, NEW w \in Workers, NEW r \in JobRecord, job' = [job EXCEPT ![w] = r]
  PROVE  Moves(w, r.at, r.call, r.ev, r.then, r.flush)
  BY DEF JobTypes, Moves

LEMMA GotoMoves ==
  ASSUME JobTypes, NEW w \in Workers, NEW at \in Labels, Goto(w, at)
  PROVE  Moves(w, at, job[w].call, job[w].ev, job[w].then, job[w].flush)
  <1> DEFINE r == [job[w] EXCEPT !.at = at]
  <1>1. r \in JobRecord
    BY DEF JobTypes, JobRecord
  <1>2. job' = [job EXCEPT ![w] = r]
    BY DEF Goto
  <1>3. /\ r.at = at /\ r.call = job[w].call /\ r.ev = job[w].ev
        /\ r.then = job[w].then /\ r.flush = job[w].flush
    BY DEF JobTypes, JobRecord
  <1> HIDE DEF r
  <1> QED
    BY <1>1, <1>2, <1>3, MovesTo

LEMMA ContinueMoves ==
  ASSUME JobTypes, NEW w \in Workers, NEW at \in Labels, Continue(w, at)
  PROVE  Moves(w, at, job[w].call, None, "idle", job[w].flush)
  <1> DEFINE r == [job[w] EXCEPT !.at = at, !.ev = None, !.was = None, !.then = "idle"]
  <1>1. r \in JobRecord
    BY DEF JobTypes, JobRecord, Events, Thens
  <1>2. job' = [job EXCEPT ![w] = r]
    BY DEF Continue
  <1>3. /\ r.at = at /\ r.call = job[w].call /\ r.ev = None
        /\ r.then = "idle" /\ r.flush = job[w].flush
    BY DEF JobTypes, JobRecord
  <1> HIDE DEF r
  <1> QED
    BY <1>1, <1>2, <1>3, MovesTo

LEMMA ReturnMoves ==
  ASSUME JobTypes, NEW w \in Workers, Return(w)
  PROVE  Moves(w, IF job[w].flush = {} THEN "idle" ELSE "flush", 0, None, "idle", job[w].flush)
  <1> DEFINE r == IF job[w].flush = {} THEN Idle
                  ELSE [Idle EXCEPT !.at = "flush", !.flush = job[w].flush]
  <1>1. r \in JobRecord
    BY DEF JobTypes, JobRecord, Idle, Labels, Events, Thens
  <1>2. job' = [job EXCEPT ![w] = r]
    BY DEF Return
  <1>3. /\ r.at = (IF job[w].flush = {} THEN "idle" ELSE "flush") /\ r.call = 0 /\ r.ev = None
        /\ r.then = "idle" /\ r.flush = job[w].flush
    BY DEF Idle
  <1> HIDE DEF r
  <1> QED
    BY <1>1, <1>2, <1>3, MovesTo

LEMMA ProjectMoves ==
  ASSUME JobTypes, NEW w \in Workers, NEW ev \in Events, NEW then \in Thens,
         job' = [job EXCEPT ![w].at = "projRead", ![w].ev = ev, ![w].then = then]
  PROVE  Moves(w, "projRead", job[w].call, ev, then, job[w].flush)
  <1> DEFINE r == [job[w] EXCEPT !.at = "projRead", !.ev = ev, !.then = then]
  <1>1. r \in JobRecord
    BY DEF JobTypes, JobRecord, Labels
  <1>2. job' = [job EXCEPT ![w] = r]
    BY DEF JobTypes
  <1>3. /\ r.at = "projRead" /\ r.call = job[w].call /\ r.ev = ev
        /\ r.then = then /\ r.flush = job[w].flush
    BY DEF JobTypes, JobRecord
  <1> HIDE DEF r
  <1> QED
    BY <1>1, <1>2, <1>3, MovesTo

-----------------------------------------------------------------------------
(* How the observations, and the process trees, change. *)

\* history with these fields, and nothing said of the others.
Observed(used, overlap, sent, overtaken, reports) ==
    /\ history' \in HistoryRecord
    /\ history'.used = used /\ history'.overlap = overlap /\ history'.sent = sent
    /\ history'.overtaken = overtaken /\ history'.reports = reports

LEMMA NothingObserved ==
  ASSUME history \in HistoryRecord, UNCHANGED history
  PROVE  Observed(history.used, history.overlap, history.sent, history.overtaken, history.reports)
  BY DEF Observed

LEMMA SentObserved ==
  ASSUME history \in HistoryRecord, NEW c \in Calls, Sent(c)
  PROVE  Observed(history.used, history.overlap, history.sent \union {c}, history.overtaken,
                  history.reports)
  BY DEF Sent, HistoryRecord, Observed

LEMMA InvokeObserved ==
  ASSUME history \in HistoryRecord, NEW w \in Workers, NEW resumed \in BOOLEAN, Invoke(w, resumed)
  PROVE  Observed(history.used \union {Min(Fresh)},
                  history.overlap \/ InFlight # {} \/ pending # {}, history.sent,
                  IF life \in Terminal THEN history.overtaken \union {Min(Fresh)}
                  ELSE history.overtaken,
                  history.reports)
  <1> DEFINE f == Min(Fresh)
             o == history.overlap \/ InFlight # {} \/ pending # {}
             r == IF resumed THEN history.resumed \union {f} ELSE history.resumed
             t == IF life \in Terminal THEN history.overtaken \union {f} ELSE history.overtaken
  <1>1. f \in Calls
    BY FirstCall DEF Invoke
  <1>2. history' = [history EXCEPT !.used = @ \union {f}, !.overlap = o, !.resumed = r, !.overtaken = t]
    BY DEF Invoke, HistoryRecord
  <1>3. o \in BOOLEAN /\ r \in SUBSET Calls /\ t \in SUBSET (Calls \union {0})
    BY <1>1 DEF HistoryRecord
  <1> HIDE DEF f, o, r, t
  <1>4. Observed(history.used \union {f}, o, history.sent, t, history.reports)
    BY <1>1, <1>2, <1>3 DEF HistoryRecord, Observed
  <1> QED
    BY <1>4 DEF f, o, t

LEMMA EndObserved ==
  ASSUME Types, NEW status, NEW why \in {"sweep", "exit", "invoke", "cancel", "resolve"},
         EndRun(status, why)
  PROVE  Observed(history.used, history.overlap, history.sent,
                  history.overtaken \union InFlight \union pending, history.reports)
  <1>1. InFlight \subseteq Calls \union {0}
    BY DEF InFlight, Types, JobRecord
  <1>2. pending \subseteq Calls
    BY DEF Types, TypeOK
  <1> QED
    BY <1>1, <1>2 DEF EndRun, Types, HistoryRecord, Observed

LEMMA ReportObserved ==
  ASSUME history \in HistoryRecord, NEW w, NEW c \in Calls, NEW ev, NEW then, Report(w, c, ev, then)
  PROVE  Observed(history.used, history.overlap, history.sent, history.overtaken,
                  [history.reports EXCEPT ![c] = @ + 1])
  <1>1. history.reports \in [Calls -> Nat]
    BY DEF HistoryRecord
  <1>2. [history.reports EXCEPT ![c] = @ + 1] \in [Calls -> Nat]
    BY <1>1
  <1> QED
    BY <1>2 DEF Report, HistoryRecord, Observed

LEMMA CancelFacts ==
  ASSUME Types, TreesOK, SignalledTreeIsReaped, CancelHandles
  PROVE  /\ proc' \in [Calls -> ProcRecord] /\ handles' = {}
         /\ TreesOK' /\ SignalledTreeIsReaped'
         /\ \A c \in Calls : "leader" \in proc'[c].group => proc'[c].signalled
  <1>1. \A c \in Calls : Signal(proc[c], "cancel") \in ProcRecord
    BY DEF Types, Signal, ProcRecord
  <1>2. proc' \in [Calls -> ProcRecord]
    BY <1>1 DEF Types, CancelHandles
  <1>3. \A c \in Calls :
           \/ proc'[c] = proc[c] /\ ("leader" \in proc[c].group => proc[c].signalled)
           \/ /\ proc'[c].signalled /\ proc'[c].group = proc[c].group
              /\ "cancel" \in proc'[c].kill
    BY DEF Types, CancelHandles, Signal, ProcRecord, TreesOK
  <1>4. handles' = {}
    BY DEF CancelHandles
  <1> QED
    BY <1>2, <1>3, <1>4 DEF TreesOK, SignalledTreeIsReaped

LEMMA CancelKeepsNone ==
  ASSUME handles = {}, proc = [c \in Calls |-> NoProc], CancelHandles
  PROVE  handles' = {} /\ proc' = [c \in Calls |-> NoProc]
  BY DEF CancelHandles

-----------------------------------------------------------------------------
(* Steps that leave alone the way of a call to its executor. *)

Path == Overtaken /\ TasksOK /\ KeyOK /\ QueuedOK

LEMMA InFlightHas ==
  ASSUME NEW w \in Workers, Active(job[w])
  PROVE  job[w].call \in InFlight
  BY DEF InFlight, InvokeSteps, Active, Dispatching, OnItsWay

\* A worker whose call is not on its way goes on, and is not on it afterwards.
Aside(w) ==
    /\ job' \in [Workers -> JobRecord]
    /\ job[w].at # "flush" /\ ~ Dispatching(job[w])
    /\ ~ Dispatching(job'[w]) /\ job'[w].flush = job[w].flush
    /\ \A v \in Workers : v # w => job'[v] = job[v]

LEMMA OffPath ==
  ASSUME Types, JobsOK, Path,
         NEW w \in Workers, NEW overtaken, NEW reports, Aside(w),
         UNCHANGED <<setup, pending>>, cached' \in {cached, "failed"},
         Observed(history.used, history.overlap, history.sent, overtaken, reports),
         history.overtaken \subseteq overtaken,
         life' \in Terminal => life \in Terminal \/ InFlight \subseteq overtaken,
         setup.kind = "queue" =>
            \A c \in Calls : /\ task'[c] = task[c] \/ (task[c] = "offered" /\ task'[c] \in Done)
                             /\ reports[c] = history.reports[c] \/ (reports[c] = 1 /\ task'[c] \in Done)
  PROVE  Path'
  <1>1. ~ Dispatching(job[w]) /\ ~ Dispatching(job'[w]) /\ job[w].at # "flush"
    BY DEF Aside
  <1>2. job'[w].flush = job[w].flush /\ \A v \in Workers : v # w => job'[v] = job[v]
    BY DEF Aside
  <1>3. \A v \in Workers : Dispatching(job'[v]) \/ Dispatching(job[v]) => v # w /\ job'[v] = job[v]
    BY <1>1, <1>2
  <1>4. Overtaken'
    <2> SUFFICES ASSUME life' \in Terminal, NEW v \in Workers,
                        job'[v].at = "mint" \/ (setup.kind # "mcp" /\ Dispatching(job'[v]))
                 PROVE  job'[v].call \in overtaken
      BY DEF Overtaken, Observed
    <2>1. Dispatching(job'[v])
      BY DEF Dispatching
    <2>2. v # w /\ job'[v] = job[v] /\ Active(job[v])
      BY <2>1, <1>3 DEF Active
    <2> QED
      BY <2>2, InFlightHas DEF Path, Overtaken
  <1>5. TasksOK'
    <2> SUFFICES ASSUME setup.kind = "queue" PROVE TasksOK'
      BY DEF TasksOK
    <2>1. TasksOK!2
      BY DEF Path, TasksOK
    <2>2. \A c \in Calls : task[c] = None => task'[c] = None
      BY DEF None
    <2>3. \A c \in Calls : task[c] \in Done => task'[c] \in Done
      OBVIOUS
    <2>4. \A v \in Workers : Dispatching(job[v]) => job[v].call \in Calls
      BY DEF JobsOK, JobOK, Types, HistoryRecord
    <2> QED
      BY <2>1, <2>2, <2>3, <2>4, <1>3 DEF TasksOK, Observed
  <1>6. KeyOK'
    <2> SUFFICES ASSUME ~ history.overlap PROVE KeyOK'
      BY DEF KeyOK, Observed
    <2>1. KeyOK!2
      BY DEF Path, KeyOK
    <2>2. job[w].flush = {}
      BY <2>1, <1>1
    <2>3. \A v \in Workers : Active(job'[v]) => v # w /\ job'[v] = job[v]
      BY <1>2, <1>3, <2>2 DEF Active
    <2> QED
      BY <2>1, <2>2, <2>3, <1>2 DEF KeyOK, Observed, None
  <1>7. QueuedOK'
    BY <1>2, <1>3 DEF Path, QueuedOK, Dispatching
  <1> QED
    BY <1>4, <1>5, <1>6, <1>7 DEF Path

LEMMA JobsKeep ==
  ASSUME JobsOK, UNCHANGED setup, history.used \subseteq history'.used,
         NEW w \in Workers, \A v \in Workers : v # w => job'[v] = job[v],
         JobOK(job[w])', job'[w].flush \subseteq history'.used,
         pending' \subseteq history'.used,
         setup.kind = "shell" => pending' = {},
         setup.kind # "shell" => handles' = {} /\ proc' = [c \in Calls |-> NoProc],
         setup.kind # "queue" => \A c \in Calls : task'[c] = None,
         cached' = "queued" => setup.delivery = "queue_until_executor"
  PROVE  JobsOK'
  <1>1. ASSUME NEW v \in Workers, v # w PROVE JobOK(job[v])' /\ job'[v].flush \subseteq history'.used
    BY <1>1 DEF JobsOK, JobOK
  <1> QED
    BY <1>1 DEF JobsOK

Inv ==
    /\ Types /\ JobsOK /\ Path
    /\ TreesOK /\ SignalledTreeIsReaped /\ EndedIsQuiet

\* What such a step leaves alone: processes, offers, queues and the run.
RunKept ==
    /\ UNCHANGED <<setup, life, child, poolVars, handles, proc, history>>
    /\ cached' \in {cached, "failed"} /\ live' \subseteq live
    /\ memo' \in Memos /\ rowKey' \in BOOLEAN /\ timer' \in BOOLEAN
    /\ outcome' \in [Calls -> {None, "completed", "failed", "handled"}]

LEMMA AsideKeeps ==
  ASSUME Inv, NEW w \in Workers, Aside(w), JobOK(job[w])', RunKept
  PROVE  Inv'
  <1> USE DEF poolVars
  <1>1. Types'
    BY DEF Inv, Types, TypeOK, Aside, RunKept, Memos, Done
  <1>2. Observed(history.used, history.overlap, history.sent, history.overtaken, history.reports)
    BY NothingObserved DEF Inv, Types, RunKept
  <1>3. JobsOK'
    <2>1. job'[w].flush \subseteq history'.used /\ \A v \in Workers : v # w => job'[v] = job[v]
      BY DEF Aside, RunKept, Inv, JobsOK
    <2> QED
      BY <2>1, JobsKeep DEF Inv, JobsOK, RunKept
  <1>4. Path'
    BY <1>2, OffPath DEF Inv, RunKept
  <1>5. TreesOK' /\ SignalledTreeIsReaped' /\ EndedIsQuiet'
    BY DEF Inv, RunKept, TreesOK, SignalledTreeIsReaped, EndedIsQuiet
  <1> QED
    BY <1>1, <1>3, <1>4, <1>5 DEF Inv

LEMMA ProjectReadMoves ==
  ASSUME JobTypes, memo \in Memos, NEW w \in Workers, ProjectRead(w)
  PROVE  \E at \in {"projWrite", "resolve", "autoNested"} :
            /\ at # "projWrite" => job[w].ev = "completed"
            /\ Moves(w, at, job[w].call, job[w].ev, job[w].then, job[w].flush)
  <1> DEFINE at == IF job[w].ev # "completed" \/ setup.complete = "explicit" THEN "projWrite"
                   ELSE IF setup.complete = "auto" THEN "resolve" ELSE "autoNested"
             r == [job[w] EXCEPT !.at = at, !.was = memo]
  <1>1. at \in {"projWrite", "resolve", "autoNested"} /\ (at # "projWrite" => job[w].ev = "completed")
    OBVIOUS
  <1>2. job' = [job EXCEPT ![w].at = at, ![w].was = memo]
    BY DEF ProjectRead
  <1> HIDE DEF at
  <1>3. r \in JobRecord
    BY <1>1 DEF JobTypes, JobRecord, Labels
  <1>4. job' = [job EXCEPT ![w] = r]
    BY <1>2 DEF JobTypes
  <1>5. /\ r.at = at /\ r.call = job[w].call /\ r.ev = job[w].ev
        /\ r.then = job[w].then /\ r.flush = job[w].flush
    BY DEF JobTypes, JobRecord
  <1> HIDE DEF r
  <1>6. Moves(w, at, job[w].call, job[w].ev, job[w].then, job[w].flush)
    BY <1>3, <1>4, <1>5, MovesTo
  <1> QED
    BY <1>1, <1>6

LEMMA InvMemos == Inv => memo \in Memos /\ JobTypes /\ rowKey \in BOOLEAN /\ timer \in BOOLEAN
                         /\ outcome \in [Calls -> {None, "completed", "failed", "handled"}]
  BY DEF Inv, Types, TypeOK, Memos, JobTypes

LEMMA ExitMemosKeeps ==
  ASSUME Inv, NEW w \in Workers, ExitMemos(w)
  PROVE  Inv'
  <1>0. job[w].at = "exitMemos" /\ JobOK(job[w]) /\ JobTypes
    BY InvMemos DEF Inv, JobsOK, ExitMemos
  <1>1. RunKept
    BY InvMemos DEF ExitMemos, RunKept, runVars, shellVars
  <1>2. \/ Moves(w, "idle", 0, None, "idle", {})
        \/ Moves(w, "projRead", job[w].call, job[w].ev, job[w].then, job[w].flush)
    BY <1>0, ReturnMoves, GotoMoves DEF ExitMemos, JobOK, Dispatching, OnItsWay, Labels
  <1>3. Aside(w) /\ JobOK(job[w])'
    BY <1>0, <1>1, <1>2 DEF Aside, RunKept, Moves, JobOK, Dispatching, OnItsWay, InvokeSteps, None
  <1> QED
    BY <1>1, <1>3, AsideKeeps

LEMMA SweepMemosKeeps ==
  ASSUME Inv, NEW w \in Workers, SweepMemos(w)
  PROVE  Inv'
  <1>0. job[w].at = "sweepMemos" /\ JobOK(job[w]) /\ JobTypes
    BY InvMemos DEF Inv, JobsOK, SweepMemos
  <1>1. RunKept
    BY InvMemos DEF SweepMemos, RunKept, runVars, shellVars
  <1>2. \/ Moves(w, "idle", 0, None, "idle", {})
        \/ Moves(w, "failRead", job[w].call, job[w].ev, job[w].then, job[w].flush)
    BY <1>0, ReturnMoves, GotoMoves DEF SweepMemos, JobOK, Dispatching, OnItsWay, Labels
  <1>3. Aside(w) /\ JobOK(job[w])'
    BY <1>0, <1>1, <1>2 DEF Aside, RunKept, Moves, JobOK, Dispatching, OnItsWay, InvokeSteps, None
  <1> QED
    BY <1>1, <1>3, AsideKeeps

LEMMA FailRunReadKeeps ==
  ASSUME Inv, NEW w \in Workers, FailRunRead(w)
  PROVE  Inv'
  <1>0. job[w].at = "failRead" /\ JobOK(job[w]) /\ JobTypes
    BY InvMemos DEF Inv, JobsOK, FailRunRead
  <1>1. RunKept
    BY InvMemos DEF FailRunRead, RunKept, runVars, shellVars
  <1>2. \/ Moves(w, "idle", 0, None, "idle", {})
        \/ Moves(w, "failEnd", job[w].call, job[w].ev, job[w].then, job[w].flush)
    BY <1>0, ReturnMoves, GotoMoves DEF FailRunRead, JobOK, Dispatching, OnItsWay, Labels
  <1>3. Aside(w) /\ JobOK(job[w])'
    BY <1>0, <1>1, <1>2 DEF Aside, RunKept, Moves, JobOK, Dispatching, OnItsWay, InvokeSteps, None
  <1> QED
    BY <1>1, <1>3, AsideKeeps

LEMMA AutoNestedKeeps ==
  ASSUME Inv, NEW w \in Workers, AutoNested(w)
  PROVE  Inv'
  <1>0. job[w].at = "autoNested" /\ JobOK(job[w]) /\ JobTypes
    BY InvMemos DEF Inv, JobsOK, AutoNested
  <1>1. RunKept
    BY InvMemos DEF AutoNested, RunKept, poolVars, shellVars, Memos, Done
  <1>2. Moves(w, "failRead", job[w].call, job[w].ev, job[w].then, job[w].flush)
    BY <1>0, GotoMoves DEF AutoNested, Labels
  <1>3. Aside(w) /\ JobOK(job[w])'
    BY <1>0, <1>1, <1>2 DEF Aside, RunKept, Moves, JobOK, Dispatching, OnItsWay, InvokeSteps, None
  <1> QED
    BY <1>1, <1>3, AsideKeeps

LEMMA MemoizeFailedKeeps ==
  ASSUME Inv, NEW w \in Workers, MemoizeFailed(w)
  PROVE  Inv'
  <1>0. job[w].at = "memoizeFailed" /\ JobOK(job[w]) /\ JobTypes
    BY InvMemos DEF Inv, JobsOK, MemoizeFailed
  <1>1. RunKept
    BY InvMemos DEF MemoizeFailed, RunKept, runVars, shellVars
  <1>2. Moves(w, "failRead", job[w].call, job[w].ev, job[w].then, job[w].flush)
    BY <1>0, GotoMoves DEF MemoizeFailed, Labels
  <1>3. Aside(w) /\ JobOK(job[w])'
    BY <1>0, <1>1, <1>2 DEF Aside, RunKept, Moves, JobOK, Dispatching, OnItsWay, InvokeSteps, None
  <1> QED
    BY <1>1, <1>3, AsideKeeps

LEMMA SweepExpiredKeeps ==
  ASSUME Inv, NEW w \in Workers, SweepExpired(w)
  PROVE  Inv'
  <1>0. job[w].at = "idle" /\ JobOK(job[w]) /\ JobTypes
    BY InvMemos DEF Inv, JobsOK, SweepExpired
  <1>1. RunKept
    BY InvMemos DEF SweepExpired, RunKept, runVars, shellVars
  <1>2. Moves(w, "sweepMemos", 0, "timed_out", "idle", {})
    <2> DEFINE r == [Idle EXCEPT !.at = "sweepMemos", !.ev = "timed_out"]
    <2>1. r \in JobRecord
      BY DEF JobRecord, Idle, Labels, Events, Thens
    <2>2. r.at = "sweepMemos" /\ r.call = 0 /\ r.ev = "timed_out" /\ r.then = "idle" /\ r.flush = {}
      BY DEF Idle
    <2>3. job' = [job EXCEPT ![w] = r]
      BY DEF SweepExpired
    <2> HIDE DEF r
    <2> QED
      BY <1>0, <2>1, <2>2, <2>3, MovesTo
  <1>3. Aside(w) /\ JobOK(job[w])'
    BY <1>0, <1>1, <1>2 DEF Aside, RunKept, Moves, JobOK, Dispatching, OnItsWay, InvokeSteps, None
  <1> QED
    BY <1>1, <1>3, AsideKeeps

LEMMA ShellCompleteKeeps ==
  ASSUME Inv, NEW w \in Workers, ShellComplete(w)
  PROVE  Inv'
  <1>0. job[w].at = "idle" /\ JobOK(job[w]) /\ JobTypes
    BY InvMemos DEF Inv, JobsOK, ShellComplete
  <1> DEFINE at(c) == IF outcome[c] = "failed" THEN "exitMemos" ELSE "projRead"
             then(c) == IF outcome[c] = "failed" THEN "failRead" ELSE "return"
             r(c) == [Idle EXCEPT !.call = c, !.at = at(c), !.ev = outcome[c], !.then = then(c)]
  <1>1. PICK c \in Calls : /\ outcome[c] \in Done
                           /\ outcome' = [outcome EXCEPT ![c] = "handled"]
                           /\ job' = [job EXCEPT ![w] = r(c)]
    BY DEF ShellComplete
  <1>2. RunKept
    BY <1>1, InvMemos DEF ShellComplete, RunKept, runVars, poolVars
  <1>3. /\ at(c) \in {"exitMemos", "projRead"} /\ then(c) \in {"failRead", "return"}
        /\ outcome[c] \in {"completed", "failed"}
    BY <1>1 DEF Done
  <1> HIDE DEF at, then
  <1>4. r(c) \in JobRecord
    BY <1>3 DEF JobRecord, Idle, Labels, Events, Thens
  <1>5. r(c).at = at(c) /\ r(c).ev = outcome[c] /\ r(c).then = then(c) /\ r(c).call = c /\ r(c).flush = {}
    BY DEF Idle
  <1> HIDE DEF r
  <1>6. Moves(w, at(c), c, outcome[c], then(c), {})
    BY <1>0, <1>1, <1>4, <1>5, MovesTo
  <1>7. Aside(w) /\ JobOK(job[w])'
    BY <1>0, <1>2, <1>3, <1>6 DEF Aside, RunKept, Moves, JobOK, Dispatching, OnItsWay, InvokeSteps, None
  <1> QED
    BY <1>2, <1>7, AsideKeeps

\* ProjectRead and ProjectWrite, but for the event of a call on its way.
LEMMA ProjectReadAside ==
  ASSUME Inv, NEW w \in Workers, ProjectRead(w), job[w].ev # "dispatched"
  PROVE  Inv'
  <1>0. job[w].at = "projRead" /\ JobOK(job[w]) /\ JobTypes
    BY InvMemos DEF Inv, JobsOK, ProjectRead
  <1>1. RunKept
    BY InvMemos DEF ProjectRead, RunKept, runVars, shellVars
  <1>2. PICK at \in {"projWrite", "resolve", "autoNested"} :
           /\ at # "projWrite" => job[w].ev = "completed"
           /\ Moves(w, at, job[w].call, job[w].ev, job[w].then, job[w].flush)
    BY <1>0, ProjectReadMoves, InvMemos
  <1>3. Aside(w) /\ JobOK(job[w])'
    BY <1>0, <1>1, <1>2 DEF Aside, RunKept, Moves, JobOK, Dispatching, OnItsWay, InvokeSteps, None
  <1> QED
    BY <1>1, <1>3, AsideKeeps

LEMMA ProjectWriteAside ==
  ASSUME Inv, NEW w \in Workers, ProjectWrite(w), job[w].ev # "dispatched"
  PROVE  Inv'
  <1>0. job[w].at = "projWrite" /\ JobOK(job[w]) /\ JobTypes /\ job[w] \in JobRecord
    BY InvMemos DEF Inv, JobsOK, ProjectWrite, JobTypes
  <1>1. RunKept
    <2>1. job[w].was \in Memos \union {None} /\ job[w].ev \in Events
      BY <1>0 DEF JobRecord
    <2>2. applyStepMemoFromJournal(job[w].was, job[w].ev) \in Memos
      BY <2>1 DEF applyStepMemoFromJournal, Memos, Done
    <2>3. memo' \in Memos
      BY <2>2, InvMemos DEF ProjectWrite
    <2> QED
      BY <2>3, InvMemos DEF ProjectWrite, RunKept, poolVars, shellVars
  <1>2. job[w].then \in {"return", "memoizeFailed", "branch", "failRead"}
    BY <1>0 DEF JobOK, JobRecord, Thens
  <1>3. \/ Moves(w, IF job[w].flush = {} THEN "idle" ELSE "flush", 0, None, "idle", job[w].flush)
        \/ /\ job[w].then # "return"
           /\ \E at \in {"memoizeFailed", "failRead"} :
                 /\ Moves(w, at, job[w].call, None, "idle", job[w].flush)
                 /\ at = "memoizeFailed" => job[w].then = "memoizeFailed"
    BY <1>0, <1>2, ReturnMoves, ContinueMoves DEF ProjectWrite, Labels
  <1>4. Aside(w) /\ JobOK(job[w])'
    BY <1>0, <1>1, <1>2, <1>3 DEF Aside, RunKept, Moves, JobOK, Dispatching, OnItsWay, InvokeSteps, None
  <1> QED
    BY <1>1, <1>4, AsideKeeps

-----------------------------------------------------------------------------
(* The end of the run, and the steps that take its processes back. *)

LEMMA CancelTypes ==
  ASSUME Inv, CancelHandles
  PROVE  /\ proc' \in [Calls -> ProcRecord] /\ handles' = {}
         /\ TreesOK' /\ SignalledTreeIsReaped'
         /\ \A c \in Calls : "leader" \in proc'[c].group => proc'[c].signalled
         /\ setup.kind # "shell" => proc' = [c \in Calls |-> NoProc]
  BY CancelFacts, CancelKeepsNone DEF Inv, JobsOK

LEMMA CancelKeeps ==
  ASSUME Inv, NEW w \in Workers, Aside(w), JobOK(job[w])', CancelHandles, live' = {},
         UNCHANGED <<setup, life, cached, timer, poolVars, outcome, history>>,
         memo' \in Memos, child' \in {None, "working", "completed"}, rowKey' \in BOOLEAN
  PROVE  Inv'
  <1> USE DEF poolVars
  <1>1. Types'
    BY CancelTypes DEF Inv, Types, TypeOK, Aside, Memos, Done
  <1>2. Observed(history.used, history.overlap, history.sent, history.overtaken, history.reports)
    BY NothingObserved DEF Inv, Types
  <1>3. JobsOK'
    <2>1. job'[w].flush \subseteq history'.used /\ \A v \in Workers : v # w => job'[v] = job[v]
      BY DEF Aside, Inv, JobsOK
    <2> QED
      BY <2>1, JobsKeep, CancelTypes DEF Inv, JobsOK
  <1>4. Path'
    BY <1>2, OffPath DEF Inv
  <1>5. EndedIsQuiet'
    BY CancelTypes DEF Inv, EndedIsQuiet
  <1> QED
    BY <1>1, <1>3, <1>4, <1>5, CancelTypes DEF Inv

LEMMA EndKeeps ==
  ASSUME Inv, NEW w \in Workers, Aside(w), JobOK(job[w])',
         NEW status \in Terminal, NEW why \in {"sweep", "exit", "invoke", "cancel", "resolve"},
         EndRun(status, why),
         UNCHANGED <<setup, memo, child, rowKey, cached, pending, queue, held, reachable, outcome>>
  PROVE  Inv'
  <1> DEFINE over == history.overtaken \union InFlight \union pending
  <1>1. Observed(history.used, history.overlap, history.sent, over, history.reports)
    BY EndObserved DEF Inv
  <1>2. /\ CancelHandles /\ timer' = FALSE /\ live' = {} /\ life' = status
        /\ task' = [c \in Calls |-> IF task[c] = "offered" THEN "failed" ELSE task[c]]
    BY DEF EndRun, terminateRunExecutors
  <1>3. task \in [Calls -> {None, "offered", "completed", "failed"}]
    BY DEF Inv, Types, TypeOK
  <1>4. \A c \in Calls : /\ task'[c] = task[c] \/ (task[c] = "offered" /\ task'[c] \in Done)
                         /\ task'[c] # "offered"
    BY <1>2, <1>3 DEF Done
  <1>5. /\ task' \in [Calls -> {None, "offered", "completed", "failed"}]
        /\ \A c \in queue : task'[c] # None
    BY <1>2, <1>3 DEF Inv, Types, TypeOK, None
  <1>6. Types'
    <2>1. timer' \in BOOLEAN /\ handles' = {} /\ live' = {} /\ life' \in Terminal
      BY <1>2 DEF CancelHandles
    <2>2. TypeOK'
      BY <1>5, <2>1 DEF Inv, Types, TypeOK
    <2> QED
      BY <1>1, <1>2, <2>2, CancelTypes DEF Types, Aside, Observed
  <1>7. JobsOK'
    <2>1. job'[w].flush \subseteq history'.used /\ \A v \in Workers : v # w => job'[v] = job[v]
      BY <1>1 DEF Aside, Inv, JobsOK, Observed
    <2>2. setup.kind # "queue" => \A c \in Calls : task'[c] = None
      BY <1>2 DEF Inv, JobsOK, None
    <2> QED
      BY <1>1, <1>2, <2>1, <2>2, JobsKeep, CancelTypes DEF Inv, JobsOK, Observed
  <1>8. Path'
    BY <1>1, <1>4, OffPath DEF Inv
  <1>9. EndedIsQuiet'
    BY <1>2, <1>4, CancelTypes DEF EndedIsQuiet
  <1> QED
    BY <1>2, <1>6, <1>7, <1>8, <1>9, CancelTypes DEF Inv

LEMMA FailRunEndKeeps ==
  ASSUME Inv, NEW w \in Workers, FailRunEnd(w)
  PROVE  Inv'
  <1>0. job[w].at = "failEnd" /\ JobOK(job[w]) /\ JobTypes
    BY InvMemos DEF Inv, JobsOK, FailRunEnd
  <1>1. PICK why \in {"sweep", "exit", "invoke"} : EndRun("failed", why)
    BY DEF FailRunEnd
  <1>2. Moves(w, "idle", 0, None, "idle", {}) /\ job[w].flush = {}
    BY <1>0, ReturnMoves DEF FailRunEnd, JobOK, Dispatching, OnItsWay
  <1>3. Observed(history.used, history.overlap, history.sent,
                 history.overtaken \union InFlight \union pending, history.reports)
    BY <1>1, EndObserved DEF Inv
  <1>4. Aside(w) /\ JobOK(job[w])'
    BY <1>0, <1>2, <1>3
    DEF FailRunEnd, Aside, Moves, JobOK, Dispatching, OnItsWay, InvokeSteps, None, Observed
  <1> QED
    BY <1>1, <1>4, EndKeeps DEF FailRunEnd, Terminal

LEMMA CancelRunKeeps ==
  ASSUME Inv, NEW w \in Workers, CancelRun(w)
  PROVE  Inv'
  <1>0. job[w].at = "idle" /\ JobOK(job[w]) /\ JobTypes /\ EndRun("cancelled", "cancel") /\ job' = job
    BY InvMemos DEF Inv, JobsOK, CancelRun
  <1>1. Observed(history.used, history.overlap, history.sent,
                 history.overtaken \union InFlight \union pending, history.reports)
    BY <1>0, EndObserved DEF Inv
  <1>2. Aside(w) /\ JobOK(job[w])'
    BY <1>0, <1>1
    DEF CancelRun, Aside, JobTypes, JobOK, Dispatching, OnItsWay, InvokeSteps, None, Observed
  <1> QED
    BY <1>0, <1>2, EndKeeps DEF CancelRun, Terminal

LEMMA CompleteRunKeeps ==
  ASSUME Inv, NEW w \in Workers, CompleteRun(w)
  PROVE  Inv'
  <1>0. job[w].at = "completeRun" /\ JobOK(job[w]) /\ JobTypes
    BY InvMemos DEF Inv, JobsOK, CompleteRun
  <1>1. Moves(w, "idle", 0, None, "idle", {}) /\ job[w].flush = {}
    BY <1>0, ReturnMoves DEF CompleteRun, JobOK, Dispatching, OnItsWay
  <1>2. CASE life \in Terminal
    <2>1. RunKept
      BY <1>2, InvMemos DEF CompleteRun, RunKept, poolVars
    <2>2. Aside(w) /\ JobOK(job[w])'
      BY <1>0, <1>1, <2>1 DEF Aside, RunKept, Moves, JobOK, Dispatching, OnItsWay, InvokeSteps, None
    <2> QED
      BY <2>1, <2>2, AsideKeeps
  <1>3. CASE life \notin Terminal
    <2>1. EndRun("completed", "resolve")
      BY <1>3 DEF CompleteRun
    <2>2. Observed(history.used, history.overlap, history.sent,
                   history.overtaken \union InFlight \union pending, history.reports)
      BY <2>1, EndObserved DEF Inv
    <2>3. Aside(w) /\ JobOK(job[w])'
      BY <1>0, <1>1, <2>2
      DEF CompleteRun, Aside, Moves, JobOK, Dispatching, OnItsWay, InvokeSteps, None, Observed
    <2> QED
      BY <2>1, <2>3, EndKeeps DEF CompleteRun, Terminal
  <1> QED
    BY <1>2, <1>3

LEMMA OpenChildKeeps ==
  ASSUME Inv, NEW w \in Workers, OpenChild(w)
  PROVE  Inv'
  <1>0. job[w].at = "idle" /\ JobOK(job[w]) /\ JobTypes /\ job' = job
    BY InvMemos DEF Inv, JobsOK, OpenChild
  <1>1. Aside(w) /\ JobOK(job[w])'
    BY <1>0 DEF OpenChild, Aside, JobTypes, JobOK, Dispatching, OnItsWay, InvokeSteps, None
  <1>2. memo' \in Memos /\ child' \in {None, "working", "completed"} /\ rowKey' \in BOOLEAN
    BY InvMemos DEF OpenChild, Memos
  <1> QED
    BY <1>1, <1>2, CancelKeeps DEF OpenChild

LEMMA ResolveStepKeeps ==
  ASSUME Inv, NEW w \in Workers, ResolveStep(w)
  PROVE  Inv'
  <1>0. job[w].at \in {"idle", "resolve"} /\ JobOK(job[w]) /\ JobTypes
    BY InvMemos DEF Inv, JobsOK, ResolveStep
  <1>1. UNCHANGED <<setup, life, child, cached, timer, poolVars, outcome, history>>
    BY DEF ResolveStep
  <1>2. CASE memo = "working" /\ life \notin Terminal
    <2>1. \/ Moves(w, "completeRun", job[w].call, job[w].ev, job[w].then, job[w].flush)
          \/ Moves(w, "idle", 0, None, "idle", job[w].flush)
      BY <1>0, <1>2, ReturnMoves, GotoMoves DEF ResolveStep, JobOK, Dispatching, OnItsWay, Labels
    <2>2. Aside(w) /\ JobOK(job[w])'
      BY <1>0, <1>1, <2>1 DEF Aside, Moves, JobOK, Dispatching, OnItsWay, InvokeSteps, None
    <2>3. memo' \in Memos /\ child' \in {None, "working", "completed"} /\ rowKey' \in BOOLEAN
      BY <1>1, <1>2 DEF ResolveStep, Memos, Done, Inv, Types, TypeOK
    <2> QED
      BY <1>1, <1>2, <2>2, <2>3, CancelKeeps DEF ResolveStep
  <1>3. CASE ~ (memo = "working" /\ life \notin Terminal)
    <2>1. Moves(w, "projWrite", job[w].call, job[w].ev, job[w].then, job[w].flush) /\ job[w].at = "resolve"
      BY <1>0, <1>3, GotoMoves DEF ResolveStep, Labels
    <2>2. RunKept
      BY <1>1, <1>3, InvMemos DEF ResolveStep, RunKept
    <2>3. Aside(w) /\ JobOK(job[w])'
      BY <1>0, <2>1, <2>2 DEF Aside, RunKept, Moves, JobOK, Dispatching, OnItsWay, InvokeSteps, None
    <2> QED
      BY <2>2, <2>3, AsideKeeps
  <1> QED
    BY <1>2, <1>3

-----------------------------------------------------------------------------
(* The answers of workers and of MCP sessions. *)

LEMMA ReportMoves ==
  ASSUME JobTypes, NEW w \in Workers, NEW c \in Calls, NEW ev \in Done, NEW then \in {"return", "branch"},
         Report(w, c, ev, then)
  PROVE  Moves(w, "projRead", c, ev, then, {})
  <1> DEFINE r == [Idle EXCEPT !.at = "projRead", !.call = c, !.ev = ev, !.then = then]
  <1>1. r \in JobRecord
    BY DEF JobRecord, Idle, Labels, Events, Thens, Done
  <1>2. r.at = "projRead" /\ r.call = c /\ r.ev = ev /\ r.then = then /\ r.flush = {}
    BY DEF Idle
  <1>3. job' = [job EXCEPT ![w] = r]
    BY DEF Report
  <1> HIDE DEF r
  <1> QED
    BY <1>1, <1>2, <1>3, MovesTo

LEMMA ReportKeeps ==
  ASSUME Inv, NEW w \in Workers, NEW c \in Calls, NEW ev \in Done, NEW then \in {"return", "branch"},
         job[w].at = "idle", Report(w, c, ev, then),
         setup.kind = "queue" => task[c] = "offered" /\ task' = [task EXCEPT ![c] = ev],
         setup.kind # "queue" => task' = task,
         UNCHANGED <<runVars, cached, live, timer, pending, queue, held, reachable, shellVars>>
  PROVE  Inv'
  <1> USE DEF runVars, shellVars
  <1> DEFINE reports == [history.reports EXCEPT ![c] = @ + 1]
  <1>1. Observed(history.used, history.overlap, history.sent, history.overtaken, reports)
    BY ReportObserved DEF Inv, Types
  <1>2. Moves(w, "projRead", c, ev, then, {})
    BY ReportMoves, InvMemos
  <1>3. JobOK(job[w]) /\ job[w].flush = {} /\ job[w].ev = None
    BY DEF Inv, JobsOK, JobOK
  <1>4. Aside(w) /\ JobOK(job[w])'
    <2>1. Aside(w)
      BY <1>2, <1>3 DEF Aside, Moves, Dispatching, OnItsWay, None, Done
    <2>2. JobOK(job[w])'
      BY <1>2, <1>3 DEF Moves, JobOK, Dispatching, OnItsWay, InvokeSteps, None, Done
    <2> QED
      BY <2>1, <2>2
  <1>5. task \in [Calls -> {None, "offered", "completed", "failed"}] /\ history.reports \in [Calls -> Nat]
    BY DEF Inv, Types, TypeOK, HistoryRecord
  <1>6. \A d \in Calls : /\ task'[d] = task[d] \/ (task[d] = "offered" /\ task'[d] \in Done)
                         /\ task[d] # None => task'[d] # None
    BY <1>5 DEF Done, None
  <1>7. setup.kind = "queue" =>
           \A d \in Calls : reports[d] = history.reports[d] \/ (reports[d] = 1 /\ task'[d] \in Done)
    <2> SUFFICES ASSUME setup.kind = "queue" PROVE reports[c] = 1 /\ task'[c] \in Done
      BY <1>5
    <2>1. history.reports[c] = 0
      BY DEF Inv, Path, TasksOK, Done
    <2> QED
      BY <1>5, <2>1
  <1>8. task' \in [Calls -> {None, "offered", "completed", "failed"}]
    BY <1>5 DEF Done
  <1> HIDE DEF reports
  <1>9. Types'
    <2>1. TypeOK'
      BY <1>6, <1>8 DEF Inv, Types, TypeOK
    <2> QED
      BY <1>1, <1>2, <2>1 DEF Inv, Types, Observed, Moves
  <1>10. JobsOK'
    <2>1. job'[w].flush \subseteq history'.used /\ \A v \in Workers : v # w => job'[v] = job[v]
      BY <1>2 DEF Moves
    <2> QED
      BY <1>1, <1>4, <2>1, JobsKeep DEF Inv, JobsOK, Observed
  <1>11. Path'
    BY <1>1, <1>4, <1>6, <1>7, OffPath DEF Inv
  <1>12. TreesOK' /\ SignalledTreeIsReaped'
    BY DEF Inv, TreesOK, SignalledTreeIsReaped
  <1>13. EndedIsQuiet'
    BY <1>1, <1>6 DEF Inv, EndedIsQuiet, Observed, Done
  <1> QED
    BY <1>9, <1>10, <1>11, <1>12, <1>13 DEF Inv

LEMMA QueueAnswerKeeps ==
  ASSUME Inv, NEW w \in Workers, QueueAnswer(w)
  PROVE  Inv'
  <1>1. held \subseteq Calls
    BY DEF Inv, Types, TypeOK
  <1>2. PICK c \in Calls, ev \in Done, then \in {"return", "branch"} :
           task[c] = "offered" /\ AnswerTask(w, c, ev, then)
    BY <1>1 DEF QueueAnswer, Done
  <1> QED
    BY <1>2, ReportKeeps DEF QueueAnswer, AnswerTask

LEMMA completeDispatchedActionKeeps ==
  ASSUME Inv, NEW w \in Workers, completeDispatchedAction(w)
  PROVE  Inv'
  <1>1. held \subseteq Calls
    BY DEF Inv, Types, TypeOK
  <1>2. PICK c \in Calls : Report(w, c, "completed", "return")
    BY <1>1 DEF completeDispatchedAction
  <1> QED
    BY <1>2, ReportKeeps DEF completeDispatchedAction, poolVars, Done

-----------------------------------------------------------------------------
(* Process trees, polls and the coming and going of executors. *)

\* Steps that leave every worker, the queues and the run alone.
LEMMA TreeStepKeeps ==
  ASSUME Inv, UNCHANGED <<runVars, cached, live, timer, poolVars, job, history>>,
         setup.kind = "shell", proc' \in [Calls -> ProcRecord],
         outcome' \in [Calls -> {None, "completed", "failed", "handled"}],
         handles' \subseteq handles, \A c \in handles' : ~ proc'[c].settled,
         TreesOK', SignalledTreeIsReaped',
         \A c \in Calls : "leader" \in proc'[c].group =>
                             /\ "leader" \in proc[c].group
                             /\ proc[c].signalled => proc'[c].signalled
  PROVE  Inv'
  <1> USE DEF runVars, poolVars
  <1>1. Types'
    BY DEF Inv, Types, TypeOK
  <1>2. JobsOK'
    BY DEF Inv, JobsOK, JobOK
  <1>3. Path'
    BY DEF Inv, Path, Overtaken, TasksOK, KeyOK, QueuedOK
  <1>4. EndedIsQuiet'
    BY DEF Inv, EndedIsQuiet
  <1> QED
    BY <1>1, <1>2, <1>3, <1>4 DEF Inv

\* Only shell executors have a process tree.
LEMMA TreeIsShell ==
  ASSUME Inv, NEW c \in Calls, proc[c] # NoProc
  PROVE  setup.kind = "shell"
  BY DEF Inv, JobsOK

LEMMA ProcessExitsKeeps ==
  ASSUME Inv, NEW c \in Calls, ProcessExits(c)
  PROVE  Inv'
  <1>0. proc \in [Calls -> ProcRecord]
    BY DEF Inv, Types
  <1> DEFINE p(m) == [proc[c] EXCEPT !.group = @ \ {m}]
             q(m) == IF m = "leader" THEN onLeaderGone(p(m)) ELSE p(m)
  <1>1. PICK m \in proc[c].group : proc' = [proc EXCEPT ![c] = q(m)]
    BY DEF ProcessExits
  <1>2. p(m) \in ProcRecord /\ p(m).group = proc[c].group \ {m} /\ p(m).kill = proc[c].kill
        /\ p(m).signalled = proc[c].signalled /\ p(m).settled = proc[c].settled
    BY <1>0 DEF ProcRecord
  <1> HIDE DEF p
  <1>3. /\ q(m) \in ProcRecord /\ q(m).group = proc[c].group \ {m} /\ q(m).kill \subseteq proc[c].kill
        /\ q(m).group # {} => q(m).kill = proc[c].kill
        /\ q(m).signalled = proc[c].signalled /\ q(m).settled = proc[c].settled
    BY <1>2 DEF ProcRecord, onLeaderGone
  <1> HIDE DEF q
  <1>4. setup.kind = "shell"
    BY TreeIsShell DEF NoProc
  <1>5. proc' \in [Calls -> ProcRecord] /\ proc'[c] = q(m) /\ \A d \in Calls : d # c => proc'[d] = proc[d]
    BY <1>0, <1>1, <1>3
  <1>6. TreesOK' /\ SignalledTreeIsReaped' /\ \A d \in handles' : ~ proc'[d].settled
    BY <1>3, <1>5 DEF Inv, Types, TypeOK, TreesOK, SignalledTreeIsReaped, ProcessExits
  <1>7. \A d \in Calls : "leader" \in proc'[d].group =>
                            /\ "leader" \in proc[d].group
                            /\ proc[d].signalled => proc'[d].signalled
    BY <1>3, <1>5
  <1> QED
    BY <1>4, <1>5, <1>6, <1>7, TreeStepKeeps, InvMemos DEF ProcessExits

LEMMA ProcessClosesKeeps ==
  ASSUME Inv, NEW c \in Calls, ProcessCloses(c)
  PROVE  Inv'
  <1>0. proc \in [Calls -> ProcRecord] /\ handles \subseteq Calls
    BY DEF Inv, Types, TypeOK
  <1> DEFINE p == [proc[c] EXCEPT !.settled = TRUE, !.killed = FALSE]
             q == onLeaderGone(p)
  <1>1. /\ proc' = [proc EXCEPT ![c] = q] /\ handles' = handles \ {c}
        /\ "leader" \notin proc[c].group /\ ~ proc[c].settled
    BY DEF ProcessCloses
  <1>2. p \in ProcRecord /\ p.group = proc[c].group /\ p.kill = proc[c].kill
        /\ p.signalled = proc[c].signalled
    BY <1>0 DEF ProcRecord
  <1> HIDE DEF p
  <1>3. /\ q \in ProcRecord /\ q.group = proc[c].group /\ q.kill \subseteq proc[c].kill
        /\ q.group # {} => q.kill = proc[c].kill
        /\ q.signalled = proc[c].signalled
    BY <1>2 DEF ProcRecord, onLeaderGone
  <1> HIDE DEF q
  <1>4. setup.kind = "shell"
    BY <1>1, TreeIsShell DEF NoProc
  <1>5. proc' \in [Calls -> ProcRecord] /\ proc'[c] = q /\ \A d \in Calls : d # c => proc'[d] = proc[d]
    BY <1>0, <1>1, <1>3
  <1>6. TreesOK' /\ SignalledTreeIsReaped' /\ \A d \in handles' : ~ proc'[d].settled
    BY <1>0, <1>1, <1>3, <1>5 DEF Inv, Types, TypeOK, TreesOK, SignalledTreeIsReaped
  <1>7. outcome' \in [Calls -> {None, "completed", "failed", "handled"}]
    BY InvMemos DEF ProcessCloses, Done
  <1>8. \A d \in Calls : "leader" \in proc'[d].group =>
                            /\ "leader" \in proc[d].group
                            /\ proc[d].signalled => proc'[d].signalled
    BY <1>3, <1>5
  <1> QED
    BY <1>1, <1>4, <1>5, <1>6, <1>7, <1>8, TreeStepKeeps DEF ProcessCloses

LEMMA ProcessTimesOutKeeps ==
  ASSUME Inv, NEW c \in Calls, ProcessTimesOut(c)
  PROVE  Inv'
  <1>0. proc \in [Calls -> ProcRecord] /\ handles \subseteq Calls
    BY DEF Inv, Types, TypeOK
  <1> DEFINE p == [proc[c] EXCEPT !.settled = TRUE]
             q == Signal(p, "timeout")
  <1>1. proc' = [proc EXCEPT ![c] = q] /\ handles' = handles \ {c} /\ ~ proc[c].settled
    BY DEF ProcessTimesOut
  <1>2. p \in ProcRecord /\ p.group = proc[c].group /\ p.kill = proc[c].kill
    BY <1>0 DEF ProcRecord
  <1> HIDE DEF p
  <1>3. q \in ProcRecord /\ q.group = proc[c].group /\ q.kill = proc[c].kill \union {"timeout"} /\ q.signalled
    BY <1>2 DEF ProcRecord, Signal
  <1> HIDE DEF q
  <1>4. setup.kind = "shell"
    BY <1>1, TreeIsShell DEF NoProc
  <1>5. proc' \in [Calls -> ProcRecord] /\ proc'[c] = q /\ \A d \in Calls : d # c => proc'[d] = proc[d]
    BY <1>0, <1>1, <1>3
  <1>6. TreesOK' /\ SignalledTreeIsReaped' /\ \A d \in handles' : ~ proc'[d].settled
    BY <1>0, <1>1, <1>3, <1>5 DEF Inv, Types, TypeOK, TreesOK, SignalledTreeIsReaped
  <1>7. outcome' \in [Calls -> {None, "completed", "failed", "handled"}]
    BY InvMemos DEF ProcessTimesOut
  <1>8. \A d \in Calls : "leader" \in proc'[d].group =>
                            /\ "leader" \in proc[d].group
                            /\ proc[d].signalled => proc'[d].signalled
    BY <1>3, <1>5
  <1> QED
    BY <1>1, <1>4, <1>5, <1>6, <1>7, <1>8, TreeStepKeeps DEF ProcessTimesOut

LEMMA EscalateKeeps ==
  ASSUME Inv, NEW c \in Calls, Escalate(c)
  PROVE  Inv'
  <1>0. proc \in [Calls -> ProcRecord] /\ handles \subseteq Calls
    BY DEF Inv, Types, TypeOK
  <1> DEFINE killed == ~ proc[c].settled /\ "leader" \in proc[c].group
             q(by) == [proc[c] EXCEPT !.group = {}, !.kill = proc[c].kill \ {by}, !.killed = killed]
  <1>1. PICK by \in proc[c].kill : proc' = [proc EXCEPT ![c] = q(by)]
    BY Zenon DEF Escalate
  <1>2. killed \in BOOLEAN
    OBVIOUS
  <1> HIDE DEF killed
  <1>3. /\ q(by) \in ProcRecord /\ q(by).group = {} /\ q(by).kill \subseteq proc[c].kill
        /\ q(by).signalled = proc[c].signalled /\ q(by).settled = proc[c].settled
    BY <1>0, <1>2 DEF ProcRecord
  <1> HIDE DEF q
  <1>4. setup.kind = "shell"
    BY <1>1, TreeIsShell DEF NoProc
  <1>5. proc' \in [Calls -> ProcRecord] /\ proc'[c] = q(by) /\ \A d \in Calls : d # c => proc'[d] = proc[d]
    BY <1>0, <1>1, <1>3
  <1>6. TreesOK' /\ SignalledTreeIsReaped' /\ \A d \in handles' : ~ proc'[d].settled
    BY <1>0, <1>3, <1>5 DEF Inv, Types, TypeOK, TreesOK, SignalledTreeIsReaped, Escalate
  <1>7. \A d \in Calls : "leader" \in proc'[d].group =>
                            /\ "leader" \in proc[d].group
                            /\ proc[d].signalled => proc'[d].signalled
    BY <1>3, <1>5
  <1> QED
    BY <1>4, <1>5, <1>6, <1>7, TreeStepKeeps, InvMemos DEF Escalate

LEMMA PollKeeps ==
  ASSUME Inv, Poll
  PROVE  Inv'
  <1> USE DEF Poll, runVars, shellVars
  <1>1. Types'
    BY DEF Inv, Types, TypeOK
  <1>2. JobsOK'
    BY DEF Inv, JobsOK, JobOK
  <1>3. Path'
    BY DEF Inv, Path, Overtaken, TasksOK, KeyOK, QueuedOK
  <1>4. TreesOK' /\ SignalledTreeIsReaped' /\ EndedIsQuiet'
    BY DEF Inv, TreesOK, SignalledTreeIsReaped, EndedIsQuiet
  <1> QED
    BY <1>1, <1>2, <1>3, <1>4 DEF Inv

LEMMA GoAwayKeeps ==
  ASSUME Inv, GoAway
  PROVE  Inv'
  <1> USE DEF GoAway, runVars, shellVars
  <1>1. Types'
    BY DEF Inv, Types, TypeOK
  <1>2. JobsOK'
    BY DEF Inv, JobsOK, JobOK
  <1>3. Path'
    BY DEF Inv, Path, Overtaken, TasksOK, KeyOK, QueuedOK
  <1>4. TreesOK' /\ SignalledTreeIsReaped' /\ EndedIsQuiet'
    BY DEF Inv, TreesOK, SignalledTreeIsReaped, EndedIsQuiet
  <1> QED
    BY <1>1, <1>2, <1>3, <1>4 DEF Inv

-----------------------------------------------------------------------------
(* The way of a call to its executor. *)

LEMMA InvokeMoves ==
  ASSUME JobTypes, NEW w \in Workers, NEW resumed, Invoke(w, resumed)
  PROVE  Moves(w, "mint", Min(Fresh), None, "idle", {}) /\ Min(Fresh) \in Calls \ history.used
  <1> DEFINE c == Min(Fresh)
             r == [Idle EXCEPT !.at = "mint", !.call = c]
  <1>1. c \in Calls \ history.used
    BY FirstCall DEF Invoke
  <1>2. job' = [job EXCEPT ![w] = r]
    BY DEF Invoke
  <1> HIDE DEF c
  <1>3. r \in JobRecord
    BY <1>1 DEF JobRecord, Idle, Labels, Events, Thens
  <1>4. r.at = "mint" /\ r.call = c /\ r.ev = None /\ r.then = "idle" /\ r.flush = {}
    BY DEF Idle
  <1> HIDE DEF r
  <1>5. Moves(w, "mint", c, None, "idle", {})
    BY <1>2, <1>3, <1>4, MovesTo
  <1> QED
    BY <1>1, <1>5 DEF c

LEMMA InvokeKeeps ==
  ASSUME Inv, NEW w \in Workers, NEW resumed \in BOOLEAN, job[w].at = "idle", Invoke(w, resumed),
         UNCHANGED <<setup, life, rowKey, cached, live, timer, poolVars, shellVars>>,
         memo' \in Memos, child' \in {None, "working", "completed"}
  PROVE  Inv'
  <1> USE DEF poolVars, shellVars
  <1>1. JobOK(job[w]) /\ JobTypes
    BY InvMemos DEF Inv, JobsOK
  <1> DEFINE c == Min(Fresh)
             overlap == history.overlap \/ InFlight # {} \/ pending # {}
             over == IF life \in Terminal THEN history.overtaken \union {c} ELSE history.overtaken
  <1>2. Moves(w, "mint", c, None, "idle", {}) /\ c \in Calls \ history.used
    BY <1>1, InvokeMoves
  <1>3. Observed(history.used \union {c}, overlap, history.sent, over, history.reports)
    BY InvokeObserved DEF Inv, Types
  <1>4. history.overtaken \subseteq over /\ (life \in Terminal => c \in over)
    OBVIOUS
  <1>5. ~ overlap => ~ history.overlap /\ pending = {} /\ \A v \in Workers : ~ Active(job[v])
    BY InFlightHas
  <1> HIDE DEF c, overlap, over
  <1>6. /\ job'[w].at = "mint" /\ job'[w].call = c /\ job'[w].ev = None
        /\ job'[w].then = "idle" /\ job'[w].flush = {}
        /\ \A v \in Workers : v # w => job'[v] = job[v]
    BY <1>2 DEF Moves
  <1>7. Types'
    <2>1. TypeOK'
      BY DEF Inv, Types, TypeOK, Memos
    <2> QED
      BY <1>2, <1>3, <2>1 DEF Inv, Types, Moves, Observed
  <1>8. JobsOK'
    <2>1. JobOK(job[w])'
      BY <1>3, <1>6 DEF JobOK, Dispatching, OnItsWay, InvokeSteps, None, Observed
    <2> QED
      BY <1>3, <1>6, <2>1, JobsKeep DEF Inv, JobsOK, Observed
  <1>9. ~ Active(job[w])
    BY <1>1 DEF JobOK, Active, Dispatching, OnItsWay, None
  <1>10. Path'
    <2>1. Overtaken'
      BY <1>3, <1>4, <1>6 DEF Inv, Path, Overtaken, Observed
    <2>2. TasksOK'
      <3> SUFFICES ASSUME setup.kind = "queue" PROVE TasksOK'
        BY DEF TasksOK
      <3>1. TasksOK!2
        BY DEF Inv, Path, TasksOK
      <3>2. \A v \in Workers : Dispatching(job[v]) => job[v].call \in history.used
        BY DEF Inv, JobsOK, JobOK
      <3>3. \A v \in Workers : v # w => (Dispatching(job'[v]) <=> Dispatching(job[v]))
        BY <1>6
      <3> QED
        BY <1>2, <1>3, <1>6, <3>1, <3>2, <3>3 DEF TasksOK, Observed
    <2>3. KeyOK'
      <3> SUFFICES ASSUME ~ overlap PROVE KeyOK'
        BY <1>3 DEF KeyOK, Observed
      <3>1. KeyOK!2
        BY <1>5 DEF Inv, Path, KeyOK
      <3>2. \A v \in Workers : Active(job'[v]) => v = w
        BY <1>5, <1>6
      <3> QED
        BY <1>3, <1>5, <1>6, <3>1, <3>2 DEF KeyOK, Observed
    <2>4. QueuedOK'
      BY <1>6, <1>9 DEF Inv, Path, QueuedOK, Active, Dispatching
    <2> QED
      BY <2>1, <2>2, <2>3, <2>4 DEF Path
  <1>11. TreesOK' /\ SignalledTreeIsReaped'
    BY DEF Inv, TreesOK, SignalledTreeIsReaped
  <1>12. EndedIsQuiet'
    BY <1>3, <1>4 DEF Inv, EndedIsQuiet, Observed
  <1> QED
    BY <1>7, <1>8, <1>10, <1>11, <1>12 DEF Inv

LEMMA ClientInvokeKeeps ==
  ASSUME Inv, NEW w \in Workers, ClientInvoke(w)
  PROVE  Inv'
  <1>1. child \in {None, "working", "completed"}
    BY DEF Inv, Types, TypeOK
  <1> QED
    BY <1>1, InvokeKeeps, InvMemos DEF ClientInvoke, runVars

LEMMA ResumeParentKeeps ==
  ASSUME Inv, NEW w \in Workers, ResumeParent(w)
  PROVE  Inv'
  BY InvokeKeeps DEF ResumeParent, Memos

\* A worker whose call is on its way takes it one step further.
Onward(w) ==
    /\ job' \in [Workers -> JobRecord]
    /\ Dispatching(job[w]) /\ Dispatching(job'[w])
    /\ job'[w].at # "mint" /\ (OnItsWay(job[w]) => OnItsWay(job'[w]))
    /\ job'[w].call = job[w].call /\ job'[w].flush = job[w].flush
    /\ OnItsWay(job[w]) \/ job'[w].at = "lookup" \/ cached = None
    /\ \A v \in Workers : v # w => job'[v] = job[v]

LEMMA NotAtFlush ==
  ASSUME JobsOK, NEW w \in Workers, Dispatching(job[w])
  PROVE  /\ job[w].at # "flush" /\ job[w].call \in history.used
         /\ KeyOK /\ ~ history.overlap => job[w].flush = {} /\ pending = {}
  BY DEF JobsOK, JobOK, Dispatching, OnItsWay, KeyOK, Active, None

LEMMA OnwardKeeps ==
  ASSUME Inv, NEW w \in Workers, Onward(w), JobOK(job[w])',
         UNCHANGED <<setup, life, child, cached, poolVars, shellVars, history>>,
         memo' \in Memos, rowKey' \in BOOLEAN, timer' \in BOOLEAN, live' \subseteq Calls,
         life \in Terminal => live' \subseteq live \union history.overtaken
  PROVE  Inv'
  <1> USE DEF poolVars, shellVars
  <1>1. Types'
    BY DEF Inv, Types, TypeOK, Memos, Onward
  <1>2. JobsOK'
    <2>1. job'[w].flush \subseteq history'.used /\ \A v \in Workers : v # w => job'[v] = job[v]
      BY DEF Onward, Inv, JobsOK
    <2> QED
      BY <2>1, JobsKeep DEF Inv, JobsOK
  <1>3. /\ Dispatching(job[w]) /\ Dispatching(job'[w])
        /\ job'[w].call = job[w].call /\ job'[w].flush = job[w].flush
        /\ \A v \in Workers : v # w => job'[v] = job[v]
    BY DEF Onward
  <1>4. \A v \in Workers : /\ Dispatching(job'[v]) <=> Dispatching(job[v])
                           /\ job'[v].call = job[v].call /\ job'[v].flush = job[v].flush
    BY <1>3
  <1>5. Overtaken'
    BY <1>3 DEF Onward, Inv, Path, Overtaken
  <1>6. TasksOK'
    BY <1>4 DEF Inv, Path, TasksOK
  <1>7. KeyOK'
    <2> SUFFICES ASSUME ~ history.overlap PROVE KeyOK'
      BY DEF KeyOK
    <2>1. KeyOK!2
      BY DEF Inv, Path, KeyOK
    <2>2. \A v \in Workers : Active(job'[v]) <=> Active(job[v])
      BY <1>4 DEF Active
    <2>3. job[w].flush = {} /\ Active(job[w])
      BY <1>3, NotAtFlush DEF Inv, Path, Active
    <2>4. OnItsWay(job[w]) => history.sent = {}
      BY <2>1, <2>3 DEF OnItsWay, Inv, JobsOK, JobOK, InvokeSteps
    <2>5. history.sent # {} => job'[w].at = "lookup"
      BY <2>1, <2>4 DEF Onward
    <2> QED
      BY <1>3, <1>4, <2>1, <2>2, <2>3, <2>5 DEF KeyOK
  <1>8. QueuedOK'
    BY <1>3 DEF Onward, Inv, Path, QueuedOK
  <1>9. TreesOK' /\ SignalledTreeIsReaped' /\ EndedIsQuiet'
    BY DEF Inv, TreesOK, SignalledTreeIsReaped, EndedIsQuiet
  <1> QED
    BY <1>1, <1>2, <1>5, <1>6, <1>7, <1>8, <1>9 DEF Inv, Path

\* A worker's call arrives, is queued or is given up.
Leaves(w) ==
    /\ job' \in [Workers -> JobRecord]
    /\ Dispatching(job[w]) /\ ~ Dispatching(job'[w]) /\ job'[w].flush = job[w].flush
    /\ \A v \in Workers : v # w => job'[v] = job[v]

Arrives(c, sent) == sent = history.sent \union {c} /\ pending' = pending /\ cached' = "dispatched"
IsQueued(c, sent) == sent = history.sent /\ pending' = pending \union {c} /\ cached' = "queued"
GivenUp(w, sent) ==
    /\ sent = history.sent /\ pending' = pending
    /\ \/ cached' = cached /\ cached' # "queued"
       \/ job[w].at = "lookup" /\ cached' # None /\ (cached' = "queued" => cached = "queued")

LEMMA LeavesPath ==
  ASSUME Types, JobsOK, Path, NEW w \in Workers, NEW sent, Leaves(w), UNCHANGED <<setup, life>>,
         Observed(history.used, history.overlap, sent, history.overtaken, history.reports),
         \/ OnItsWay(job[w]) /\ (Arrives(job[w].call, sent) \/ IsQueued(job[w].call, sent))
         \/ GivenUp(w, sent),
         \A c \in Calls : c # job[w].call => task'[c] = task[c]
  PROVE  Path'
  <1> DEFINE call == job[w].call
  <1>1. /\ Dispatching(job[w]) /\ ~ Dispatching(job'[w]) /\ job'[w].flush = job[w].flush
        /\ \A v \in Workers : v # w => job'[v] = job[v]
    BY DEF Leaves
  <1>2. \A v \in Workers : Dispatching(job'[v]) => v # w /\ Dispatching(job[v]) /\ job'[v] = job[v]
    BY <1>1
  <1>3. Overtaken'
    <2>1. \A v \in Workers : job'[v].at = "mint" => Dispatching(job'[v])
      BY DEF Dispatching
    <2> QED
      BY <1>2, <2>1 DEF Path, Overtaken, Observed
  <1>4. TasksOK'
    <2> SUFFICES ASSUME setup.kind = "queue" PROVE TasksOK'
      BY DEF TasksOK
    <2>1. TasksOK!2
      BY DEF Path, TasksOK
    <2>2. \A v \in Workers : Dispatching(job[v]) => job[v].call \in history.used /\ job[v].call \in Calls
      BY DEF JobsOK, JobOK, Types, HistoryRecord
    <2>3. \A v \in Workers : Dispatching(job'[v]) => job[v].call # call
      BY <1>1, <1>2, <2>1
    <2>4. history.reports[call] = 0
      BY <1>1, <2>1, <2>2 DEF None, Done
    <2> QED
      BY <1>1, <1>2, <2>1, <2>2, <2>3, <2>4 DEF TasksOK, Observed
  <1>5. KeyOK'
    <2> SUFFICES ASSUME ~ history.overlap PROVE KeyOK'
      BY DEF KeyOK, Observed
    <2>1. KeyOK!2
      BY DEF Path, KeyOK
    <2>2. job[w].flush = {} /\ Active(job[w]) /\ pending = {}
      BY <1>1, NotAtFlush DEF Path, Active
    <2>3. \A v \in Workers : ~ Active(job'[v])
      <3> SUFFICES ASSUME NEW v \in Workers, Active(job'[v]) PROVE FALSE
        OBVIOUS
      <3>1. CASE v = w
        BY <3>1, <1>1, <2>2 DEF Active
      <3>2. CASE v # w
        BY <3>2, <1>1, <2>1, <2>2
      <3> QED
        BY <3>1, <3>2
    <2>4. OnItsWay(job[w]) => history.sent = {}
      BY <2>1, <2>2 DEF OnItsWay, JobsOK, JobOK, InvokeSteps
    <2>5. /\ \A c, d \in sent : c = d
          /\ \A c, d \in pending' : c = d
          /\ sent # {} => cached' # None /\ pending' = {}
      BY <2>1, <2>2, <2>4 DEF Arrives, IsQueued, GivenUp, None
    <2> QED
      BY <1>1, <2>1, <2>2, <2>3, <2>5 DEF KeyOK, Observed
  <1>6. QueuedOK'
    <2>1. job[w].at = "lookup" => job[w].flush = {} /\ ~ OnItsWay(job[w])
      BY DEF JobsOK, JobOK, OnItsWay, InvokeSteps
    <2> QED
      BY <1>1, <2>1 DEF Path, QueuedOK, Arrives, IsQueued, GivenUp
  <1> QED
    BY <1>3, <1>4, <1>5, <1>6 DEF Path

LEMMA LeavesKeeps ==
  ASSUME Inv, NEW w \in Workers, NEW sent, Leaves(w), JobOK(job[w])',
         UNCHANGED <<setup, life, memo, child, rowKey, live, timer, reachable, shellVars>>,
         Observed(history.used, history.overlap, sent, history.overtaken, history.reports),
         \/ OnItsWay(job[w]) /\ (Arrives(job[w].call, sent) \/ IsQueued(job[w].call, sent))
         \/ GivenUp(w, sent),
         cached' \in {None, "queued", "dispatched"} \union Done,
         cached' = "queued" => setup.delivery = "queue_until_executor",
         queue' \subseteq Calls, held' \subseteq Calls, \A c \in queue' : task'[c] # None,
         setup.kind = "queue" => /\ task' \in [Calls -> {None, "offered", "completed", "failed"}]
                                 /\ \A c \in Calls : c # job[w].call => task'[c] = task[c],
         setup.kind # "queue" => task' = task
  PROVE  Inv'
  <1> USE DEF shellVars
  <1>1. job[w].call \in Calls /\ Dispatching(job[w]) /\ job[w].call \in history.used
    BY NotAtFlush DEF Inv, Leaves, Types, HistoryRecord
  <1>2. pending' \subseteq pending \union {job[w].call}
    BY DEF Arrives, IsQueued, GivenUp
  <1>3. Types'
    <2>1. pending' \subseteq Calls /\ task' \in [Calls -> {None, "offered", "completed", "failed"}]
      BY <1>1, <1>2 DEF Inv, Types, TypeOK
    <2>2. TypeOK'
      BY <2>1 DEF Inv, Types, TypeOK
    <2> QED
      BY <2>2 DEF Inv, Types, Leaves, Observed
  <1>4. JobsOK'
    <2>1. job'[w].flush \subseteq history'.used /\ \A v \in Workers : v # w => job'[v] = job[v]
      BY DEF Leaves, Inv, JobsOK, Observed
    <2>2. pending' \subseteq history'.used
      BY <1>1, <1>2 DEF Inv, JobsOK, Observed
    <2>3. setup.kind = "shell" => pending' = {}
      BY DEF Inv, JobsOK, Arrives, IsQueued, GivenUp
    <2>4. /\ setup.kind # "shell" => handles' = {} /\ proc' = [c \in Calls |-> NoProc]
          /\ setup.kind # "queue" => \A c \in Calls : task'[c] = None
      BY DEF Inv, JobsOK
    <2> QED
      BY <2>1, <2>2, <2>3, <2>4, JobsKeep DEF Inv, Observed
  <1>5. \A c \in Calls : c # job[w].call => task'[c] = task[c]
    OBVIOUS
  <1>6. Path'
    BY <1>5, LeavesPath DEF Inv
  <1>7. TreesOK' /\ SignalledTreeIsReaped'
    BY DEF Inv, TreesOK, SignalledTreeIsReaped
  <1>8. EndedIsQuiet'
    <2>1. life \in Terminal /\ setup.kind = "queue" => job[w].call \in history.overtaken
      BY <1>1 DEF Inv, Path, Overtaken
    <2> QED
      BY <1>5, <2>1 DEF Inv, EndedIsQuiet, Observed
  <1> QED
    BY <1>3, <1>4, <1>6, <1>7, <1>8 DEF Inv

LEMMA MintRunResolveTokenKeeps ==
  ASSUME Inv, NEW w \in Workers, MintRunResolveToken(w)
  PROVE  Inv'
  <1>0. job[w].at = "mint" /\ JobOK(job[w]) /\ JobTypes
    BY InvMemos DEF Inv, JobsOK, MintRunResolveToken
  <1>1. Moves(w, "lookup", job[w].call, job[w].ev, job[w].then, job[w].flush)
    BY <1>0, GotoMoves DEF MintRunResolveToken, Labels
  <1>2. Onward(w) /\ JobOK(job[w])'
    BY <1>0, <1>1
    DEF MintRunResolveToken, Onward, Moves, JobOK, Dispatching, OnItsWay, InvokeSteps, None, runVars
  <1>3. job[w].call \in Calls /\ (life \in Terminal => job[w].call \in history.overtaken)
    BY <1>0 DEF Inv, Path, Overtaken, JobOK, Dispatching, Types, HistoryRecord
  <1>4. live' \subseteq Calls /\ (life \in Terminal => live' \subseteq live \union history.overtaken)
    BY <1>3 DEF MintRunResolveToken, Inv, Types, TypeOK
  <1> QED
    BY <1>2, <1>4, OnwardKeeps, InvMemos DEF MintRunResolveToken, runVars

LEMMA LiveIsTyped == Inv => live \subseteq Calls
  BY DEF Inv, Types, TypeOK

LEMMA StartTimeoutKeeps ==
  ASSUME Inv, NEW w \in Workers, StartTimeout(w)
  PROVE  Inv'
  <1>0. job[w].at = "dispatch" /\ JobOK(job[w]) /\ JobTypes
    BY InvMemos DEF Inv, JobsOK, StartTimeout
  <1>1. Moves(w, "port", job[w].call, job[w].ev, job[w].then, job[w].flush)
    BY <1>0, GotoMoves DEF StartTimeout, Labels
  <1>2. Onward(w) /\ JobOK(job[w])'
    BY <1>0, <1>1
    DEF StartTimeout, Onward, Moves, JobOK, Dispatching, OnItsWay, InvokeSteps, None, runVars
  <1> QED
    BY <1>2, OnwardKeeps, InvMemos, LiveIsTyped DEF StartTimeout, runVars

LEMMA ProjectReadKeeps ==
  ASSUME Inv, NEW w \in Workers, ProjectRead(w)
  PROVE  Inv'
  <1> SUFFICES ASSUME job[w].ev = "dispatched" PROVE Inv'
    BY ProjectReadAside
  <1>0. job[w].at = "projRead" /\ JobOK(job[w]) /\ JobTypes
    BY InvMemos DEF Inv, JobsOK, ProjectRead
  <1>1. Moves(w, "projWrite", job[w].call, job[w].ev, job[w].then, job[w].flush)
    BY <1>0, ProjectReadMoves, InvMemos
  <1>2. Onward(w) /\ JobOK(job[w])'
    BY <1>0, <1>1
    DEF ProjectRead, Onward, Moves, JobOK, Dispatching, OnItsWay, InvokeSteps, None, runVars
  <1> QED
    BY <1>2, OnwardKeeps, InvMemos, LiveIsTyped DEF ProjectRead, runVars

LEMMA ProjectWriteKeeps ==
  ASSUME Inv, NEW w \in Workers, ProjectWrite(w)
  PROVE  Inv'
  <1> SUFFICES ASSUME job[w].ev = "dispatched" PROVE Inv'
    BY ProjectWriteAside
  <1>0. job[w].at = "projWrite" /\ JobOK(job[w]) /\ JobTypes /\ job[w].was \in Memos \union {None}
    BY InvMemos DEF Inv, JobsOK, ProjectWrite, JobTypes, JobRecord
  <1>1. Moves(w, "dispatch", job[w].call, None, "idle", job[w].flush)
    BY <1>0, ContinueMoves DEF ProjectWrite, JobOK, Labels
  <1>2. Onward(w) /\ JobOK(job[w])'
    BY <1>0, <1>1
    DEF ProjectWrite, Onward, Moves, JobOK, Dispatching, OnItsWay, InvokeSteps, None
  <1>3. memo' \in Memos
    BY <1>0 DEF ProjectWrite, applyStepMemoFromJournal, Memos, Done
  <1>4. rowKey' \in BOOLEAN /\ timer' \in BOOLEAN
    BY InvMemos DEF ProjectWrite
  <1> QED
    BY <1>2, <1>3, <1>4, OnwardKeeps, LiveIsTyped DEF ProjectWrite

LEMMA LookupMemoKeeps ==
  ASSUME Inv, NEW w \in Workers, LookupMemo(w)
  PROVE  Inv'
  <1>0. job[w].at = "lookup" /\ JobOK(job[w]) /\ JobTypes
    BY InvMemos DEF Inv, JobsOK, LookupMemo
  <1>1. CASE cached' = None
    <2>1. Moves(w, "preflight", job[w].call, job[w].ev, job[w].then, job[w].flush) /\ cached = None
      BY <1>0, <1>1, GotoMoves DEF LookupMemo, Labels
    <2>2. Onward(w) /\ JobOK(job[w])'
      BY <1>0, <2>1
      DEF LookupMemo, Onward, Moves, JobOK, Dispatching, OnItsWay, InvokeSteps, None, runVars
    <2> QED
      BY <1>1, <2>1, <2>2, OnwardKeeps, InvMemos, LiveIsTyped DEF LookupMemo, runVars
  <1>2. CASE cached' # None
    <2>1. Moves(w, "idle", 0, None, "idle", {}) /\ job[w].flush = {}
      BY <1>0, <1>2, ReturnMoves DEF LookupMemo, JobOK
    <2>2. Leaves(w) /\ JobOK(job[w])'
      BY <1>0, <2>1
      DEF LookupMemo, Leaves, Moves, JobOK, Dispatching, OnItsWay, InvokeSteps, None, runVars
    <2>3. dispatchOutcomeFromStepMemo \in {None, "dispatched"} \union Done
      BY InvMemos DEF dispatchOutcomeFromStepMemo, Memos
    <2>4. /\ cached' \in {None, "queued", "dispatched"} \union Done
          /\ cached' = "queued" => cached = "queued"
      BY <2>3 DEF LookupMemo, Inv, Types, TypeOK, None, Done
    <2>5. GivenUp(w, history.sent)
      BY <1>0, <1>2, <2>4 DEF GivenUp, LookupMemo, poolVars
    <2>6. Observed(history.used, history.overlap, history.sent, history.overtaken, history.reports)
      BY NothingObserved DEF Inv, Types, LookupMemo
    <2>7. /\ task \in [Calls -> {None, "offered", "completed", "failed"}]
          /\ queue \subseteq Calls /\ held \subseteq Calls /\ \A c \in queue : task[c] # None
          /\ cached' = "queued" => setup.delivery = "queue_until_executor"
      BY <2>4 DEF Inv, Types, TypeOK, JobsOK
    <2>8. UNCHANGED <<setup, life, memo, child, rowKey, live, timer, reachable, shellVars, task, queue, held>>
      BY DEF LookupMemo, runVars, poolVars
    <2> QED
      BY <2>2, <2>4, <2>5, <2>6, <2>7, <2>8, LeavesKeeps
  <1> QED
    BY <1>1, <1>2

LEMMA PoolTyped ==
  ASSUME Inv
  PROVE  /\ task \in [Calls -> {None, "offered", "completed", "failed"}]
         /\ queue \subseteq Calls /\ held \subseteq Calls /\ pending \subseteq Calls
         /\ \A c \in queue : task[c] # None
         /\ cached \in {None, "queued", "dispatched"} \union Done
         /\ cached = "queued" => setup.delivery = "queue_until_executor"
         /\ setup.delivery \in {"fail_fast", "queue_until_executor"}
         /\ setup.kind \in {"shell", "queue", "mcp"}
         /\ history \in HistoryRecord
  BY KindsAssumption DEF Inv, Types, TypeOK, JobsOK, Setups

LEMMA PreflightKeeps ==
  ASSUME Inv, NEW w \in Workers, Preflight(w)
  PROVE  Inv'
  <1>0. job[w].at = "preflight" /\ JobOK(job[w]) /\ JobTypes
    BY InvMemos DEF Inv, JobsOK, Preflight
  <1>1. UNCHANGED <<setup, life, memo, child, rowKey, live, timer, task, queue, held, reachable, shellVars, history>>
    BY DEF Preflight, runVars
  <1>2. Observed(history.used, history.overlap, history.sent, history.overtaken, history.reports)
    BY <1>1, NothingObserved, PoolTyped
  <1>3. CASE /\ job' = [job EXCEPT ![w].at = "projRead", ![w].ev = "dispatched", ![w].then = "dispatch"]
             /\ UNCHANGED <<cached, pending>>
    <2>1. Moves(w, "projRead", job[w].call, "dispatched", "dispatch", job[w].flush)
      BY <1>0, <1>3, ProjectMoves DEF Events, Thens
    <2>2. Onward(w) /\ JobOK(job[w])'
      BY <1>0, <1>1, <2>1
      DEF Onward, Moves, JobOK, Dispatching, OnItsWay, InvokeSteps, None
    <2> QED
      BY <1>1, <1>3, <2>2, OnwardKeeps, InvMemos, LiveIsTyped DEF poolVars
  <1>4. CASE /\ setup.delivery = "queue_until_executor" /\ Return(w)
             /\ pending' = pending \union {job[w].call} /\ cached' = "queued"
    <2>1. Moves(w, IF job[w].flush = {} THEN "idle" ELSE "flush", 0, None, "idle", job[w].flush)
      BY <1>0, <1>4, ReturnMoves
    <2>2. Leaves(w) /\ JobOK(job[w])'
      BY <1>0, <1>1, <2>1 DEF Leaves, Moves, JobOK, Dispatching, OnItsWay, InvokeSteps, None
    <2>3. OnItsWay(job[w]) /\ IsQueued(job[w].call, history.sent)
      BY <1>0, <1>4 DEF OnItsWay, IsQueued
    <2> QED
      BY <1>1, <1>2, <1>4, <2>2, <2>3, LeavesKeeps, PoolTyped
  <1>5. CASE /\ setup.delivery = "fail_fast"
             /\ job' = [job EXCEPT ![w].at = "projRead", ![w].ev = "unavailable", ![w].then = "return"]
             /\ UNCHANGED <<cached, pending>>
    <2>1. Moves(w, "projRead", job[w].call, "unavailable", "return", job[w].flush)
      BY <1>0, <1>5, ProjectMoves DEF Events, Thens
    <2>2. Leaves(w) /\ JobOK(job[w])'
      BY <1>0, <1>1, <2>1 DEF Leaves, Moves, JobOK, Dispatching, OnItsWay, InvokeSteps, None
    <2>3. GivenUp(w, history.sent)
      BY <1>5, PoolTyped DEF GivenUp
    <2> QED
      BY <1>1, <1>2, <1>5, <2>2, <2>3, LeavesKeeps, PoolTyped
  <1> QED
    BY <1>3, <1>4, <1>5 DEF Preflight

LEMMA DispatchRemoteKeeps ==
  ASSUME Inv, NEW w \in Workers, DispatchRemote(w)
  PROVE  Inv'
  <1> DEFINE c == job[w].call
  <1>0. job[w].at = "port" /\ JobOK(job[w]) /\ JobTypes
    BY InvMemos DEF Inv, JobsOK, DispatchRemote
  <1>1. UNCHANGED <<setup, life, memo, child, rowKey, live, timer, reachable, shellVars>>
    BY DEF DispatchRemote, runVars
  <1>2. Moves(w, IF job[w].flush = {} THEN "idle" ELSE "flush", 0, None, "idle", job[w].flush)
    BY <1>0, ReturnMoves DEF DispatchRemote
  <1>3. OnItsWay(job[w]) /\ Dispatching(job[w]) /\ c \in Calls /\ c \in history.used
    BY <1>0, PoolTyped DEF OnItsWay, Dispatching, JobOK, HistoryRecord
  <1>4. ASSUME history'.used = history.used PROVE Leaves(w) /\ JobOK(job[w])'
    BY <1>0, <1>1, <1>2, <1>4 DEF Leaves, Moves, JobOK, Dispatching, OnItsWay, InvokeSteps, None
  <1>5. CASE /\ cached' = "dispatched" /\ Sent(c) /\ UNCHANGED pending
             /\ IF setup.kind = "queue"
                THEN /\ task' = [task EXCEPT ![c] = "offered"] /\ queue' = queue \union {c}
                     /\ UNCHANGED held
                ELSE held' = held \union {c} /\ UNCHANGED <<task, queue>>
    <2>1. Observed(history.used, history.overlap, history.sent \union {c}, history.overtaken, history.reports)
      BY <1>3, <1>5, SentObserved, PoolTyped
    <2>2. Leaves(w) /\ JobOK(job[w])'
      BY <1>4, <2>1 DEF Observed
    <2>3. Arrives(c, history.sent \union {c})
      BY <1>5 DEF Arrives
    <2>4. /\ queue' \subseteq Calls /\ held' \subseteq Calls /\ \A d \in queue' : task'[d] # None
          /\ setup.kind = "queue" => /\ task' \in [Calls -> {None, "offered", "completed", "failed"}]
                                     /\ \A d \in Calls : d # c => task'[d] = task[d]
          /\ setup.kind # "queue" => task' = task
      BY <1>3, <1>5, PoolTyped DEF None
    <2> QED
      BY <1>1, <1>3, <1>5, <2>1, <2>2, <2>3, <2>4, LeavesKeeps
  <1>6. CASE /\ setup.delivery = "queue_until_executor"
             /\ pending' = pending \union {c} /\ cached' = "queued"
             /\ UNCHANGED <<task, queue, held, history>>
    <2>1. Observed(history.used, history.overlap, history.sent, history.overtaken, history.reports)
      BY <1>6, NothingObserved, PoolTyped
    <2>2. Leaves(w) /\ JobOK(job[w])'
      BY <1>4, <2>1 DEF Observed
    <2>3. IsQueued(c, history.sent)
      BY <1>6 DEF IsQueued
    <2> QED
      BY <1>1, <1>3, <1>6, <2>1, <2>2, <2>3, LeavesKeeps, PoolTyped
  <1>7. CASE setup.delivery = "fail_fast" /\ UNCHANGED <<pending, cached, task, queue, held, history>>
    <2>1. Observed(history.used, history.overlap, history.sent, history.overtaken, history.reports)
      BY <1>7, NothingObserved, PoolTyped
    <2>2. Leaves(w) /\ JobOK(job[w])'
      BY <1>4, <2>1 DEF Observed
    <2>3. GivenUp(w, history.sent)
      BY <1>7, PoolTyped DEF GivenUp
    <2> QED
      BY <1>1, <1>7, <2>1, <2>2, <2>3, LeavesKeeps, PoolTyped
  <1> QED
    BY <1>5, <1>6, <1>7 DEF DispatchRemote

\* A new process tree has a handle: the cancel of the run can find it.
LEMMA DispatchShellKeeps ==
  ASSUME Inv, NEW w \in Workers, DispatchShell(w)
  PROVE  Inv'
  <1> DEFINE c == job[w].call
             p == [NoProc EXCEPT !.group = {"leader", "descendant"}, !.settled = FALSE]
  <1>0. job[w].at = "port" /\ JobOK(job[w]) /\ JobTypes /\ setup.kind = "shell"
    BY InvMemos DEF Inv, JobsOK, DispatchShell
  <1>1. UNCHANGED <<setup, life, memo, child, rowKey, live, timer, poolVars, outcome>>
    BY DEF DispatchShell, runVars
  <1>2. OnItsWay(job[w]) /\ Dispatching(job[w]) /\ c \in Calls /\ c \in history.used
    BY <1>0, PoolTyped DEF OnItsWay, Dispatching, JobOK, HistoryRecord
  <1>3. CASE /\ proc' = [proc EXCEPT ![c] = p]
             /\ handles' = handles \union {c}
             /\ cached' = "dispatched" /\ Sent(c) /\ Return(w)
    <2>1. Moves(w, "idle", 0, None, "idle", {}) /\ job[w].flush = {}
      BY <1>0, <1>3, ReturnMoves DEF JobOK
    <2>2. Observed(history.used, history.overlap, history.sent \union {c}, history.overtaken, history.reports)
      BY <1>2, <1>3, SentObserved, PoolTyped
    <2>3. Leaves(w) /\ JobOK(job[w])'
      BY <1>0, <1>1, <2>1, <2>2
      DEF Leaves, Moves, JobOK, Dispatching, OnItsWay, InvokeSteps, None, Observed
    <2>4. Arrives(c, history.sent \union {c})
      BY <1>1, <1>3 DEF Arrives, poolVars
    <2>5. Path'
      BY <1>1, <1>2, <2>2, <2>3, <2>4, LeavesPath DEF Inv, poolVars
    <2>6. p \in ProcRecord /\ p.kill = {} /\ ~ p.signalled /\ ~ p.settled
      BY DEF NoProc, ProcRecord
    <2> HIDE DEF p
    <2>7. proc' \in [Calls -> ProcRecord] /\ proc'[c] = p /\ \A d \in Calls : d # c => proc'[d] = proc[d]
      BY <1>2, <1>3, <2>6 DEF Inv, Types
    <2>8. TreesOK' /\ SignalledTreeIsReaped'
      BY <1>2, <1>3, <2>6, <2>7 DEF Inv, TreesOK, SignalledTreeIsReaped
    <2>9. Types'
      <3>1. handles' \subseteq {d \in Calls : ~ proc'[d].settled}
        BY <1>2, <1>3, <2>6, <2>7 DEF Inv, Types, TypeOK
      <3>2. TypeOK'
        BY <1>1, <1>3, <3>1 DEF Inv, Types, TypeOK, poolVars
      <3> QED
        BY <2>1, <2>2, <2>7, <3>2 DEF Types, Moves, Observed
    <2>10. JobsOK'
      BY <1>0, <1>1, <1>3, <2>1, <2>2, <2>3, JobsKeep DEF Inv, JobsOK, Moves, Observed, poolVars
    <2>11. EndedIsQuiet'
      <3>1. life \in Terminal => c \in history.overtaken
        BY <1>0, <1>2 DEF Inv, Path, Overtaken
      <3> QED
        BY <1>1, <1>3, <2>2, <2>7, <3>1 DEF Inv, EndedIsQuiet, Observed, poolVars
    <2> QED
      BY <2>5, <2>8, <2>9, <2>10, <2>11 DEF Inv
  <1>4. CASE /\ job' = [job EXCEPT ![w].at = "projRead", ![w].ev = "failed", ![w].then = "memoizeFailed"]
             /\ UNCHANGED <<proc, handles, cached, history>>
    <2>1. Moves(w, "projRead", c, "failed", "memoizeFailed", job[w].flush)
      BY <1>0, <1>4, ProjectMoves DEF Events, Thens
    <2>2. Observed(history.used, history.overlap, history.sent, history.overtaken, history.reports)
      BY <1>4, NothingObserved, PoolTyped
    <2>3. Leaves(w) /\ JobOK(job[w])'
      BY <1>0, <1>1, <1>4, <2>1 DEF Leaves, Moves, JobOK, Dispatching, OnItsWay, InvokeSteps, None
    <2>4. setup.delivery = "fail_fast"
      BY <1>0 DEF Inv, JobsOK
    <2>5. GivenUp(w, history.sent)
      BY <1>1, <1>4, <2>4, PoolTyped DEF GivenUp, poolVars
    <2> QED
      BY <1>0, <1>1, <1>4, <2>2, <2>3, <2>5, LeavesKeeps, PoolTyped DEF poolVars, shellVars
  <1> QED
    BY <1>3, <1>4 DEF DispatchShell

-----------------------------------------------------------------------------
(* The flush of queued invokes, which only MCP executors have. *)

LEMMA FlushIsMcp ==
  ASSUME Inv, NEW w \in Workers, job[w].flush # {}
  PROVE  setup.kind = "mcp"
  BY DEF Inv, JobsOK, JobOK

LEMMA McpConnectKeeps ==
  ASSUME Inv, NEW w \in Workers, McpConnect(w)
  PROVE  Inv'
  <1>0. job[w].at = "idle" /\ JobOK(job[w]) /\ JobTypes /\ setup.kind = "mcp"
    BY InvMemos DEF Inv, JobsOK, McpConnect
  <1>1. /\ UNCHANGED <<setup, life, memo, child, rowKey, cached, live, timer, task, queue, held,
                       handles, proc, outcome, history>>
        /\ reachable' = TRUE /\ pending' = {}
    BY DEF McpConnect, runVars, shellVars
  <1>2. TypeOK'
    <2>1. reachable' \in BOOLEAN
      BY <1>1
    <2> QED
      BY <1>1, <2>1 DEF Inv, Types, TypeOK
  <1>3. TreesOK' /\ SignalledTreeIsReaped' /\ EndedIsQuiet'
    BY <1>1 DEF Inv, TreesOK, SignalledTreeIsReaped, EndedIsQuiet
  <1>4. CASE pending = {}
    <2>1. job' = job
      BY <1>0, <1>4 DEF McpConnect, JobTypes
    <2>2. Types' /\ JobsOK'
      BY <1>1, <1>2, <2>1 DEF Inv, Types, JobsOK, JobOK
    <2>3. Path'
      BY <1>1, <1>4, <2>1 DEF Inv, Path, Overtaken, TasksOK, KeyOK, QueuedOK
    <2> QED
      BY <1>3, <2>2, <2>3 DEF Inv
  <1>5. CASE pending # {}
    <2> DEFINE r == [Idle EXCEPT !.at = "flush", !.flush = pending]
    <2>1. pending \subseteq Calls /\ pending \subseteq history.used
      BY DEF Inv, Types, TypeOK, JobsOK
    <2>2. r \in JobRecord
      BY <2>1 DEF JobRecord, Idle, Labels, Events, Thens
    <2>3. r.at = "flush" /\ r.call = 0 /\ r.ev = None /\ r.then = "idle" /\ r.flush = pending
      BY DEF Idle
    <2>4. job' = [job EXCEPT ![w] = r]
      BY <1>5 DEF McpConnect
    <2> HIDE DEF r
    <2>5. Moves(w, "flush", 0, None, "idle", pending)
      BY <1>0, <2>2, <2>3, <2>4, MovesTo
    <2>6. JobOK(job[w])'
      BY <1>0, <1>1, <1>5, <2>5 DEF Moves, JobOK, Dispatching, OnItsWay, InvokeSteps, None
    <2>7. Types'
      BY <1>1, <1>2, <2>5 DEF Inv, Types, Moves
    <2>8. JobsOK'
      BY <1>1, <2>1, <2>5, <2>6, JobsKeep DEF Inv, JobsOK, Moves
    <2>9. Overtaken'
      BY <1>0, <1>1, <2>5 DEF Inv, Path, Overtaken, Moves
    <2>10. KeyOK'
      <3> SUFFICES ASSUME ~ history.overlap PROVE KeyOK'
        BY <1>1 DEF KeyOK
      <3>1. KeyOK!2
        BY DEF Inv, Path, KeyOK
      <3>2. \A v \in Workers : Active(job'[v]) => v = w
        BY <1>5, <2>5, <3>1 DEF Moves
      <3> QED
        BY <1>1, <1>5, <2>5, <3>1, <3>2 DEF KeyOK, Moves
    <2>11. QueuedOK'
      BY <1>5, <2>5 DEF QueuedOK, Moves
    <2> QED
      BY <1>0, <1>1, <1>3, <2>7, <2>8, <2>9, <2>10, <2>11 DEF Inv, Path, TasksOK
  <1> QED
    BY <1>4, <1>5

LEMMA FlushNextKeeps ==
  ASSUME Inv, NEW w \in Workers, FlushNext(w)
  PROVE  Inv'
  <1>0. job[w].at = "flush" /\ JobOK(job[w]) /\ JobTypes
    BY InvMemos DEF Inv, JobsOK, FlushNext
  <1> DEFINE c == Min(job[w].flush)
             r == [job[w] EXCEPT !.at = "preflight", !.call = c, !.flush = job[w].flush \ {c}]
  <1>1. job[w] \in JobRecord /\ job[w].flush # {} /\ job[w].flush \subseteq Calls
    BY <1>0 DEF JobOK, JobTypes, JobRecord
  <1>2. c \in job[w].flush
    BY <1>1, MinIn, CallsAssumption
  <1>3. setup.kind = "mcp"
    BY <1>1, FlushIsMcp
  <1>4. UNCHANGED <<setup, life, memo, child, rowKey, cached, live, timer, poolVars, handles, proc, outcome, history>>
    BY DEF FlushNext, runVars, shellVars
  <1>5. job' = [job EXCEPT ![w] = r]
    BY DEF FlushNext
  <1> HIDE DEF c
  <1>6. r \in JobRecord
    BY <1>1, <1>2 DEF JobRecord, Labels
  <1>7. r.at = "preflight" /\ r.call = c /\ r.ev = job[w].ev /\ r.then = job[w].then
        /\ r.flush = job[w].flush \ {c}
    BY <1>1 DEF JobRecord
  <1> HIDE DEF r
  <1>8. Moves(w, "preflight", c, job[w].ev, job[w].then, job[w].flush \ {c})
    BY <1>0, <1>5, <1>6, <1>7, MovesTo
  <1>9. job[w].flush \subseteq history.used
    BY DEF Inv, JobsOK
  <1>10. JobOK(job[w])'
    BY <1>0, <1>2, <1>3, <1>4, <1>8, <1>9 DEF Moves, JobOK, Dispatching, OnItsWay, InvokeSteps, None
  <1>11. Types'
    BY <1>4, <1>8 DEF Inv, Types, TypeOK, Moves, poolVars
  <1>12. JobsOK'
    BY <1>4, <1>8, <1>9, <1>10, JobsKeep DEF Inv, JobsOK, Moves, poolVars
  <1>13. Overtaken'
    BY <1>3, <1>4, <1>8 DEF Inv, Path, Overtaken, Moves
  <1>14. KeyOK'
    <2> SUFFICES ASSUME ~ history.overlap PROVE KeyOK'
      BY <1>4 DEF KeyOK
    <2>1. KeyOK!2
      BY DEF Inv, Path, KeyOK
    <2>2. Active(job[w]) /\ job[w].flush \ {c} = {}
      BY <1>1, <1>2, <2>1 DEF Active
    <2>3. \A v \in Workers : Active(job'[v]) => v = w
      BY <1>8, <2>1, <2>2 DEF Moves
    <2>4. pending = {} /\ history.sent = {}
      BY <1>0, <2>1, <2>2
    <2> QED
      BY <1>4, <1>8, <2>1, <2>2, <2>3, <2>4 DEF KeyOK, Moves, poolVars
  <1>15. QueuedOK'
    BY <1>8 DEF QueuedOK, Moves, OnItsWay
  <1>16. TreesOK' /\ SignalledTreeIsReaped' /\ EndedIsQuiet'
    BY <1>4 DEF Inv, TreesOK, SignalledTreeIsReaped, EndedIsQuiet, poolVars
  <1> QED
    BY <1>3, <1>4, <1>11, <1>12, <1>13, <1>14, <1>15, <1>16 DEF Inv, Path, TasksOK

LEMMA FlushThrowsKeeps ==
  ASSUME Inv, NEW w \in Workers, FlushThrows(w)
  PROVE  Inv'
  <1>0. job[w].at = "projRead" /\ job[w].ev = "dispatched" /\ JobOK(job[w]) /\ JobTypes /\ setup.kind = "mcp"
    BY InvMemos DEF Inv, JobsOK, FlushThrows
  <1>1. /\ UNCHANGED <<setup, life, memo, child, rowKey, cached, live, timer, task, queue, held, reachable,
                       handles, proc, outcome, history>>
        /\ cached = "queued" /\ pending' = pending \union job[w].flush \union {job[w].call}
    BY DEF FlushThrows, runVars, shellVars
  <1>2. Idle \in JobRecord
    BY DEF Idle, JobRecord, Labels, Events, Thens
  <1>3. Moves(w, "idle", 0, None, "idle", {})
    <2>1. Idle.at = "idle" /\ Idle.call = 0 /\ Idle.ev = None /\ Idle.then = "idle" /\ Idle.flush = {}
      BY DEF Idle
    <2>2. job' = [job EXCEPT ![w] = Idle]
      BY DEF FlushThrows
    <2> QED
      BY <1>0, <1>2, <2>1, <2>2, MovesTo
  <1>4. OnItsWay(job[w]) /\ Dispatching(job[w]) /\ Active(job[w])
    BY <1>0 DEF OnItsWay, Dispatching, Active
  <1>5. job[w].call \in history.used /\ job[w].flush \subseteq history.used /\ history.used \subseteq Calls
    BY <1>4, PoolTyped DEF Inv, JobsOK, JobOK, HistoryRecord
  <1>6. JobOK(job[w])'
    BY <1>0, <1>1, <1>3 DEF Moves, JobOK, Dispatching, OnItsWay, InvokeSteps, None
  <1>7. Types'
    <2>1. TypeOK'
      BY <1>1, <1>5 DEF Inv, Types, TypeOK
    <2> QED
      BY <1>1, <1>3, <2>1 DEF Inv, Types, Moves
  <1>8. JobsOK'
    <2>1. pending' \subseteq history'.used
      BY <1>1, <1>5 DEF Inv, JobsOK
    <2> QED
      BY <1>0, <1>1, <1>3, <1>6, <2>1, JobsKeep DEF Inv, JobsOK, Moves
  <1>9. Overtaken'
    BY <1>0, <1>1, <1>3 DEF Inv, Path, Overtaken, Moves
  <1>10. KeyOK'
    <2> SUFFICES ASSUME ~ history.overlap PROVE KeyOK'
      BY <1>1 DEF KeyOK
    <2>1. KeyOK!2
      BY DEF Inv, Path, KeyOK
    <2>2. pending = {} /\ job[w].flush = {} /\ history.sent = {}
      BY <1>0, <1>4, <2>1
    <2>3. \A v \in Workers : ~ Active(job'[v])
      <3> SUFFICES ASSUME NEW v \in Workers, Active(job'[v]) PROVE FALSE
        OBVIOUS
      <3>1. CASE v = w
        BY <3>1, <1>3 DEF Moves, Active, Dispatching, OnItsWay, None
      <3>2. CASE v # w
        BY <3>2, <1>3, <1>4, <2>1 DEF Moves
      <3> QED
        BY <3>1, <3>2
    <2> QED
      BY <1>1, <1>3, <2>1, <2>2, <2>3 DEF KeyOK, Moves
  <1>11. QueuedOK'
    BY <1>1 DEF QueuedOK
  <1>12. TreesOK' /\ SignalledTreeIsReaped' /\ EndedIsQuiet'
    BY <1>1 DEF Inv, TreesOK, SignalledTreeIsReaped, EndedIsQuiet
  <1> QED
    BY <1>0, <1>1, <1>7, <1>8, <1>9, <1>10, <1>11, <1>12 DEF Inv, Path, TasksOK

-----------------------------------------------------------------------------
LEMMA InitKeeps == Init => Inv
  <1> SUFFICES ASSUME Init PROVE Inv
    OBVIOUS
  <1> DEFINE first == CHOOSE w \in Workers : TRUE
             m == Min(Calls)
             r == [Idle EXCEPT !.at = "mint", !.call = m]
  <1>1. m \in Calls
    BY FirstCall
  <1>2. job = [w \in Workers |-> IF w = first THEN r ELSE Idle]
    BY DEF Init
  <1>3. history = [used |-> {m}, overlap |-> FALSE, sent |-> {}, overtaken |-> {},
                   resumed |-> {}, reports |-> [c \in Calls |-> 0], why |-> None]
    BY DEF Init
  <1> HIDE DEF m, first
  <1>4. r \in JobRecord /\ Idle \in JobRecord
    BY <1>1 DEF Idle, JobRecord, Labels, Events, Thens
  <1>5. /\ r.at = "mint" /\ r.call = m /\ r.ev = None /\ r.then = "idle" /\ r.flush = {}
        /\ Idle.at = "idle" /\ Idle.ev = None /\ Idle.then = "idle" /\ Idle.flush = {}
    BY DEF Idle
  <1> HIDE DEF r
  <1>6. \A w \in Workers : /\ job[w].at = (IF w = first THEN "mint" ELSE "idle")
                           /\ job[w].ev = None /\ job[w].then = "idle" /\ job[w].flush = {}
                           /\ w = first => job[w].call = m
    BY <1>2, <1>5
  <1>7. history \in HistoryRecord
    BY <1>1, <1>3 DEF HistoryRecord
  <1>8. NoProc \in ProcRecord /\ NoProc.group = {} /\ NoProc.kill = {}
    BY DEF NoProc, ProcRecord
  <1>9. proc \in [Calls -> ProcRecord] /\ \A c \in Calls : proc[c].group = {} /\ proc[c].kill = {}
    BY <1>8 DEF Init
  <1>10. Types
    <2>1. TypeOK
      BY DEF Init, TypeOK, Setups, None
    <2> QED
      BY <1>2, <1>4, <1>7, <1>9, <2>1 DEF Types
  <1>11. JobsOK
    <2>1. \A w \in Workers : JobOK(job[w]) /\ job[w].flush \subseteq history.used
      BY <1>3, <1>6 DEF JobOK, Dispatching, OnItsWay, InvokeSteps, None
    <2> QED
      BY <2>1 DEF Init, JobsOK, None
  <1>12. \A w \in Workers : Active(job[w]) => w = first /\ job[w].at = "mint"
    BY <1>6 DEF Active, Dispatching, OnItsWay, None
  <1>13. Path
    <2>1. Overtaken
      BY DEF Init, Overtaken, Terminal
    <2>2. TasksOK
      BY <1>1, <1>3, <1>6, <1>12 DEF Init, TasksOK, Active
    <2>3. KeyOK
      BY <1>3, <1>6, <1>12 DEF Init, KeyOK
    <2>4. QueuedOK
      BY DEF Init, QueuedOK, None
    <2> QED
      BY <2>1, <2>2, <2>3, <2>4 DEF Path
  <1>14. TreesOK /\ SignalledTreeIsReaped /\ EndedIsQuiet
    BY <1>9 DEF Init, TreesOK, SignalledTreeIsReaped, EndedIsQuiet, Terminal
  <1> QED
    BY <1>10, <1>11, <1>13, <1>14 DEF Inv

LEMMA StepKeeps ==
  ASSUME Inv, [Next]_vars
  PROVE  Inv'
  <1>1. CASE UNCHANGED vars
    BY <1>1 DEF vars, Inv, Types, TypeOK, JobsOK, JobOK, Path, Overtaken, TasksOK, KeyOK, QueuedOK,
                TreesOK, SignalledTreeIsReaped, EndedIsQuiet
  <1>2. ASSUME NEW w \in Workers,
               \/ ClientInvoke(w) \/ MintRunResolveToken(w) \/ LookupMemo(w) \/ Preflight(w)
               \/ StartTimeout(w) \/ DispatchShell(w) \/ DispatchRemote(w) \/ MemoizeFailed(w)
               \/ McpConnect(w) \/ FlushNext(w) \/ FlushThrows(w)
        PROVE  Inv'
    BY <1>2, ClientInvokeKeeps, MintRunResolveTokenKeeps, LookupMemoKeeps, PreflightKeeps,
       StartTimeoutKeeps, DispatchShellKeeps, DispatchRemoteKeeps, MemoizeFailedKeeps,
       McpConnectKeeps, FlushNextKeeps, FlushThrowsKeeps
  <1>3. ASSUME NEW w \in Workers,
               \/ ProjectRead(w) \/ AutoNested(w) \/ ProjectWrite(w) \/ ShellComplete(w) \/ ExitMemos(w)
               \/ QueueAnswer(w) \/ completeDispatchedAction(w)
               \/ SweepExpired(w) \/ SweepMemos(w) \/ FailRunRead(w) \/ FailRunEnd(w)
               \/ CancelRun(w) \/ OpenChild(w) \/ ResumeParent(w)
               \/ ResolveStep(w) \/ CompleteRun(w)
        PROVE  Inv'
    BY <1>3, ProjectReadKeeps, AutoNestedKeeps, ProjectWriteKeeps, ShellCompleteKeeps, ExitMemosKeeps,
       QueueAnswerKeeps, completeDispatchedActionKeeps, SweepExpiredKeeps, SweepMemosKeeps,
       FailRunReadKeeps, FailRunEndKeeps, CancelRunKeeps, OpenChildKeeps, ResumeParentKeeps,
       ResolveStepKeeps, CompleteRunKeeps
  <1>4. ASSUME NEW c \in Calls,
               ProcessExits(c) \/ ProcessCloses(c) \/ ProcessTimesOut(c) \/ Escalate(c)
        PROVE  Inv'
    BY <1>4, ProcessExitsKeeps, ProcessClosesKeeps, ProcessTimesOutKeeps, EscalateKeeps
  <1> QED
    BY <1>1, <1>2, <1>3, <1>4, PollKeeps, GoAwayKeeps DEF Next

LEMMA InvCarriedOutOnce == Inv => CarriedOutOnce
  <1> SUFFICES ASSUME Inv PROVE CarriedOutOnce
    OBVIOUS
  <1>1. OneDispatchPerKey
    <2> SUFFICES ASSUME ~ history.overlap PROVE Cardinality(history.sent) <= 1
      BY DEF OneDispatchPerKey
    <2>1. \A c, d \in history.sent : c = d
      BY DEF Inv, Path, KeyOK
    <2>2. CASE history.sent = {}
      BY <2>2, FS_EmptySet
    <2>3. ASSUME NEW c \in history.sent PROVE Cardinality(history.sent) <= 1
      <3>1. history.sent = {c}
        BY <2>1
      <3> QED
        BY <3>1, FS_Singleton
    <2> QED
      BY <2>2, <2>3
  <1>2. QueuedIsKept
    BY InFlightHas DEF Inv, Path, QueuedOK, QueuedIsKept, Active, Dispatching
  <1>3. OneReportPerTask
    BY DEF Inv, Path, TasksOK, OneReportPerTask
  <1> QED
    BY <1>1, <1>2, <1>3 DEF CarriedOutOnce

\* The inductive invariant: every behaviour of the executors keeps it.
THEOREM InvHolds == Spec => []Inv
  <1>1. Init => Inv
    BY InitKeeps
  <1>2. Inv /\ [Next]_vars => Inv'
    BY StepKeeps
  <1> QED
    BY <1>1, <1>2, PTL DEF Spec

\* Types: every variable of the executors keeps its type, whatever calls, process
\* events and polls interleave (memoStore, handlesByKey, the poll store).
THEOREM ExecutorsTypes == Spec => []TypeOK
  <1>1. Inv => TypeOK
    BY DEF Inv, Types
  <1> QED
    BY <1>1, InvHolds, PTL

\* A process tree that was sent SIGTERM has a SIGKILL coming as long as one of its
\* processes lives (killChildProcess, runCommandDetached, onLeaderGone).
THEOREM TreeIsReaped == Spec => []SignalledTreeIsReaped
  <1>1. Inv => SignalledTreeIsReaped
    BY DEF Inv
  <1> QED
    BY <1>1, InvHolds, PTL

\* An ended run leaves nothing behind but what it overtook (terminateRunExecutors).
THEOREM RunEndsQuietly == Spec => []EndedIsQuiet
  <1>1. Inv => EndedIsQuiet
    BY DEF Inv
  <1> QED
    BY <1>1, InvHolds, PTL

\* An invoke reaches an executor once, is not lost while it is queued, and its end
\* is reported once (orchestrateInvoke, flushQueuedInvokes, completeQueuedTask).
THEOREM InvokeIsCarriedOutOnce == Spec => []CarriedOutOnce
  <1>1. Inv => CarriedOutOnce
    BY InvCarriedOutOnce
  <1> QED
    BY <1>1, InvHolds, PTL
=============================================================================
