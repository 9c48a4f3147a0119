--------------------------- MODULE MeetingsProofs ---------------------------
(***************************************************************************)
(* Proofs about Meetings, for any roster, any calls and any plan.          *)
(*                                                                         *)
(* The inductive invariant Inv has five parts.  Base: jobs, seats and      *)
(* processes are well formed, and a dispatch has launched a process only   *)
(* for a seat its loop has come past.  Numbers: only a message on its way  *)
(* to the journal is overtaken.  Tells: receipts are unique and follow the *)
(* loop, what is queued or notified has one, what was delivered is held.   *)
(* OrderKept: queues and turns are parts of what the seat was told, in its *)
(* order.  Reaches: without overlapping dispatches no seat that is about   *)
(* to be given a process has one.                                          *)
(*                                                                         *)
(* A group of actions that change the state alike shares one frame         *)
(* (Advance, InLoop, Cleared, Notified, Attached) and the lemmas about it. *)
(***************************************************************************)
EXTENDS Meetings, FiniteSetTheorems, SequenceTheorems, WellFoundedInduction, TLAPS

(* What the loop over the targets of a message or of a wake does, and a message *)
(* before it.                                                                   *)
Loop == {"dispatch", "notify", "admit", "start", "invoke"}
Numbering == {"idle", "number", "append", "index"}
Labels ==
    Loop \union Numbering \union
    {"done", "convened", "snapshot", "resumed", "reopen", "closed", "close", "revoke", "exits",
     "orphans", "rehydrate"}

Messages == Calls \union {Wake}
JobType == [at : Labels, todo : SUBSET (Seats \union Calls \union Procs)]
SeatType == [run : Workers \union {None}, ctl : Procs \union {NoCtl}, notified : SUBSET Messages]
ProcType ==
    [at : {None, "up", "exited", "gone"}, stop : BOOLEAN, busy : BOOLEAN,
     queue : Seq(Messages), got : Seq(Messages)]
ReceiptType == [msg : Calls, seat : Seats, how : {"delivered", "failed"}]

Types ==
    /\ plan \in Plans /\ crashes \in Nat /\ crashes <= plan.crashes /\ exits \in Nat
    /\ status \in {None, "open", "closed"} /\ bound \in {"working", "resolved", "failed"}
    /\ row \in [Calls -> {None, "appended", "numbered"}] /\ passed \subseteq Calls
    /\ receipts \subseteq ReceiptType
    /\ seat \in [Seats -> SeatType] /\ pending \in [Seats -> Seq(Messages)]
    /\ proc \in [Procs -> ProcType] /\ job \in [Workers -> JobType]
    /\ history \in [dropped : SUBSET (Messages \X Seats), told : [Seats -> Seq(Messages)], doubled : BOOLEAN]

(* A job is at a step of its kind, and has targets as long as it is in the loop. *)
Job(w) ==
    /\ job[w].at \in Loop => job[w].todo \subseteq Seats /\ job[w].todo # {}
    /\ job[w].at \in {"number", "append", "index"} => IsSay(w)
    /\ job[w].at \in {"append", "index"} => job[w].todo \subseteq Calls
    /\ job[w].at = "exits" => job[w].todo \subseteq Procs
    /\ IsSay(w) => job[w].at \in Numbering \union Loop \union {"done"}
    /\ IsSay(w) /\ job[w].at \in Loop => job[w].todo \subseteq Request[w].to
Jobs == \A w \in Workers : Job(w)

(* A seat that is not registered is empty; a controller is one of its seat, has *)
(* taken what was queued, and is what was notified.                             *)
Seated(p) ==
    /\ seat[p].run = None => seat[p] = NoSeat
    /\ seat[p].ctl # NoCtl =>
          seat[p].ctl \in Workers \X {p} /\ proc[seat[p].ctl].at # None /\ pending[p] = <<>>
    /\ seat[p].ctl = NoCtl => seat[p].notified = {}
Seatings == \A p \in Seats : Seated(p)

(* A process that was not launched has nothing, an idle one no turn to come. *)
Shaped(q) == (q.at = None => q = NoProc) /\ (~q.busy => q.queue = <<>>)
Shapes == \A k \in Procs : Shaped(proc[k])

(* A process is launched once, by the dispatch that has come past its seat; the *)
(* boot passes to come have launched none.                                      *)
Past(w, p) ==
    /\ job[w].at \in Loop \union {"done"}
    /\ job[w].at \in Loop => p \notin job[w].todo
    /\ \A i \in DOMAIN Boots : w = Boots[i] => i <= crashes
Launched == \A w \in Workers, p \in Seats : proc[<<w, p>>].at # None => Past(w, p)
ToCome == \A i \in DOMAIN Boots : i > crashes => job[Boots[i]].at = "done"

Numbers == passed \subseteq Unnumbered
Base == Types /\ Jobs /\ Seatings /\ Shapes /\ Launched /\ ToCome

(* The receipts of a message: one for each target it has come past. *)
Has(c, p) == \E r \in receipts : r.msg = c /\ r.seat = p
Receipts ==
    /\ \A r, s \in receipts : r.msg = s.msg /\ r.seat = s.seat => r = s
    /\ \A r \in receipts : IsSay(r.msg) /\ r.seat \in Request[r.msg].to
    /\ \A r \in receipts : job[r.msg].at \notin Numbering
    /\ \A c \in Calls : IsSay(c) /\ job[c].at \in Loop =>
          \A p \in Request[c].to : Has(c, p) <=> p \notin job[c].todo
(* What a seat was notified of, or is to be, has its receipt. *)
Noted ==
    \A p \in Seats : \A m \in (ToSet(pending[p]) \union seat[p].notified) \ {Wake} : Has(m, p)

(* What is queued for a seat is in the order of its notifies. *)
Queued == \A p \in Seats : IsSubSeq(pending[p], history.told[p])

(* Dispatches to a seat that do not overlap. *)
Starting(w, p) == job[w].at \in {"start", "invoke"} /\ Target(w) = p
Alone ==
    ~history.doubled =>
        /\ \A v, w \in Workers, p \in Seats : Starting(v, p) /\ Starting(w, p) => v = w
        /\ \A w \in Workers, p \in Seats : job[w].at = "invoke" /\ Target(w) = p => seat[p].ctl = NoCtl
OrderKept == Queued /\ TurnsInOrder
Tells == Receipts /\ Noted /\ DeliveredIsHeld
Reaches == Alone /\ ReachableProcess
Inv == Base /\ Numbers /\ Tells /\ OrderKept /\ Reaches

-----------------------------------------------------------------------------
(* Targets *)

LEMMA LeastExists ==
  ASSUME NEW S, S \subseteq Nat, S # {}
  PROVE  \E x \in S : \A y \in S : x <= y
  <1> DEFINE R == OpToRel(<, Nat)
  <1>1. PICK x \in S : \A y \in S : ~ (<<y, x>> \in R)
    BY NatLessThanWellFounded, WFMin
  <1>2. ASSUME NEW y \in S, y < x PROVE FALSE
    <2>1. <<y, x>> \in R
      BY <1>2 DEF OpToRel
    <2> QED
      BY <1>1, <2>1
  <1>3. \A y \in S : x <= y
    BY <1>2
  <1> QED
    BY <1>3

LEMMA FirstIsIn ==
  ASSUME NEW order \in Seq(Seats), ToSet(order) = Seats, NEW todo, todo \subseteq Seats, todo # {}
  PROVE  First(order, todo) \in todo
  <1> DEFINE S == {i \in DOMAIN order : order[i] \in todo}
  <1>1. S \subseteq Nat /\ S # {}
    BY DEF ToSet
  <1>2. PICK x \in S : \A y \in S : x <= y
    BY <1>1, LeastExists
  <1> HIDE DEF S
  <1>3. Min(S) \in S
    BY <1>2 DEF Min
  <1> QED
    BY <1>3 DEF First, S

LEMMA OrderIs ==
  ASSUME NEW w \in Workers
  PROVE  Order(w) \in Seq(Seats) /\ ToSet(Order(w)) = Seats
  <1>1. Roster \in Seq(Seats) /\ ToSet(Roster) = Seats
    BY MeetingAssumption DEF Seats
  <1>2. \A s \in Orders : s \in Seq(Seats) /\ ToSet(s) = Seats
    BY <1>1 DEF Orders
  <1>3. IsSay(w) => Request[w].order \in Orders
    BY MeetingAssumption DEF IsSay, RequestType
  <1> QED
    BY <1>1, <1>2, <1>3 DEF Order

(* Sequences within sequences *)

LEMMA EmptyWithin ==
  ASSUME NEW T, NEW t \in Seq(T)
  PROVE  IsSubSeq(<<>>, t)
  <1>1. DOMAIN <<>> = {}
    OBVIOUS
  <1> DEFINE f == [i \in {} |-> i]
  <1>2. f \in [{} -> DOMAIN t]
    OBVIOUS
  <1> HIDE DEF f
  <1> QED
    BY <1>1, <1>2, Zenon DEF IsSubSeq

LEMMA WithinLonger ==
  ASSUME NEW T, NEW s \in Seq(T), NEW t \in Seq(T), NEW m \in T, IsSubSeq(s, t)
  PROVE  IsSubSeq(s, Append(t, m))
  <1>1. PICK f \in [DOMAIN s -> DOMAIN t] :
            (\A i \in DOMAIN s : s[i] = t[f[i]]) /\ \A i, j \in DOMAIN s : i < j => f[i] < f[j]
    BY DEF IsSubSeq
  <1>2. f \in [DOMAIN s -> DOMAIN Append(t, m)]
    OBVIOUS
  <1>3. \A i \in DOMAIN s : s[i] = Append(t, m)[f[i]]
    BY <1>1
  <1> QED
    BY <1>1, <1>2, <1>3 DEF IsSubSeq

LEMMA BothLonger ==
  ASSUME NEW T, NEW s \in Seq(T), NEW t \in Seq(T), NEW m \in T, IsSubSeq(s, t)
  PROVE  IsSubSeq(Append(s, m), Append(t, m))
  <1>1. PICK f \in [DOMAIN s -> DOMAIN t] :
            (\A i \in DOMAIN s : s[i] = t[f[i]]) /\ \A i, j \in DOMAIN s : i < j => f[i] < f[j]
    BY DEF IsSubSeq
  <1> DEFINE u == Append(s, m)
             v == Append(t, m)
             g == [i \in DOMAIN u |-> IF i = Len(u) THEN Len(v) ELSE f[i]]
  <1>2. /\ DOMAIN s = 1..Len(s) /\ DOMAIN t = 1..Len(t) /\ Len(s) \in Nat /\ Len(t) \in Nat
        /\ DOMAIN u = 1..(Len(s) + 1) /\ DOMAIN v = 1..(Len(t) + 1) /\ Len(u) = Len(s) + 1 /\ Len(v) = Len(t) + 1
    OBVIOUS
  <1>3. g \in [DOMAIN u -> DOMAIN v]
    BY <1>2
  <1>4. \A i \in DOMAIN u : u[i] = v[g[i]]
    BY <1>1, <1>2
  <1>5. \A i, j \in DOMAIN u : i < j => g[i] < g[j]
    BY <1>1, <1>2
  <1> HIDE DEF u, v, g
  <1>6. IsSubSeq(u, v)
    BY <1>3, <1>4, <1>5 DEF IsSubSeq
  <1> QED
    BY <1>6 DEF u, v

LEMMA PartWithin ==
  ASSUME NEW T, NEW s \in Seq(T), NEW r \in Seq(T), NEW t \in Seq(T), IsSubSeq(s \o r, t)
  PROVE  IsSubSeq(s, t)
  <1>1. PICK f \in [DOMAIN (s \o r) -> DOMAIN t] :
            /\ \A i \in DOMAIN (s \o r) : (s \o r)[i] = t[f[i]]
            /\ \A i, j \in DOMAIN (s \o r) : i < j => f[i] < f[j]
    BY DEF IsSubSeq
  <1> DEFINE g == [i \in DOMAIN s |-> f[i]]
  <1>2. DOMAIN s \subseteq DOMAIN (s \o r) /\ \A i \in DOMAIN s : (s \o r)[i] = s[i]
    OBVIOUS
  <1>3. g \in [DOMAIN s -> DOMAIN t]
    BY <1>2
  <1>4. (\A i \in DOMAIN s : s[i] = t[g[i]]) /\ \A i, j \in DOMAIN s : i < j => g[i] < g[j]
    BY <1>1, <1>2
  <1> HIDE DEF g
  <1> QED
    BY <1>3, <1>4 DEF IsSubSeq

(* Turns *)

LEMMA Ranges ==
  ASSUME NEW T, NEW s \in Seq(T)
  PROVE  /\ ToSet(s) \subseteq T
         /\ \A r \in Seq(T) : ToSet(s \o r) = ToSet(s) \union ToSet(r)
         /\ \A m \in T : ToSet(Append(s, m)) = ToSet(s) \union {m}
  <1>1. DOMAIN s = 1..Len(s) /\ Len(s) \in Nat /\ \A i \in 1..Len(s) : s[i] \in T
    OBVIOUS
  <1>2. ToSet(s) \subseteq T
    BY <1>1 DEF ToSet
  <1>3. ASSUME NEW r \in Seq(T) PROVE ToSet(s \o r) = ToSet(s) \union ToSet(r)
    <2>1. /\ DOMAIN r = 1..Len(r) /\ Len(r) \in Nat /\ DOMAIN (s \o r) = 1..(Len(s) + Len(r))
          /\ \A i \in 1..Len(s) : (s \o r)[i] = s[i]
          /\ \A i \in (Len(s) + 1)..(Len(s) + Len(r)) : (s \o r)[i] = r[i - Len(s)]
      OBVIOUS
    <2>2. \A i \in 1..Len(r) : i + Len(s) \in (Len(s) + 1)..(Len(s) + Len(r)) /\ (s \o r)[i + Len(s)] = r[i]
      BY <1>1, <2>1
    <2>3. \A i \in 1..(Len(s) + Len(r)) : (s \o r)[i] \in ToSet(s) \union ToSet(r)
      BY <1>1, <2>1 DEF ToSet
    <2>4. ToSet(s \o r) \subseteq ToSet(s) \union ToSet(r)
      BY <2>1, <2>3 DEF ToSet
    <2>5. \A i \in 1..Len(s) : s[i] \in ToSet(s \o r)
      BY <1>1, <2>1 DEF ToSet
    <2>6. \A i \in 1..Len(r) : r[i] \in ToSet(s \o r)
      <3> SUFFICES ASSUME NEW i \in 1..Len(r) PROVE r[i] \in ToSet(s \o r)
        OBVIOUS
      <3>1. i + Len(s) \in DOMAIN (s \o r) /\ (s \o r)[i + Len(s)] = r[i]
        BY <1>1, <2>1, <2>2
      <3> QED
        BY <3>1, Zenon DEF ToSet
    <2>7. ToSet(s) \subseteq ToSet(s \o r) /\ ToSet(r) \subseteq ToSet(s \o r)
      BY <1>1, <2>1, <2>5, <2>6 DEF ToSet
    <2> QED
      BY <2>4, <2>7
  <1>4. ASSUME NEW m \in T PROVE ToSet(Append(s, m)) = ToSet(s) \union {m}
    <2>1. /\ DOMAIN Append(s, m) = 1..(Len(s) + 1) /\ Append(s, m)[Len(s) + 1] = m
          /\ \A i \in 1..Len(s) : Append(s, m)[i] = s[i]
      BY <1>1
    <2> QED
      BY <1>1, <2>1 DEF ToSet
  <1> QED
    BY <1>2, <1>3, <1>4

LEMMA UnseenIs ==
  ASSUME NEW s, NEW seen, seen = {} \/ s = <<>>
  PROVE  Unseen(s, seen) = s
  <1>1. ToSet(s) \intersect seen = {}
    BY DEF ToSet
  <1> QED
    BY <1>1, Zenon DEF Unseen

(* What a process is given, in order. *)
Turns(q) == q.got \o q.queue
Takes(q) == q.at = "up" /\ ~q.stop

LEMMA HeadThenTail ==
  ASSUME NEW T, NEW s \in Seq(T), NEW t \in Seq(T), t # <<>>
  PROVE  Append(s, Head(t)) \o Tail(t) = s \o t
  <1>1. Head(t) \in T /\ Tail(t) \in Seq(T) /\ <<Head(t)>> \in Seq(T)
    BY HeadTailProperties
  <1>2. <<Head(t)>> \o Tail(t) = t
    BY <1>1
  <1>3. Append(s, Head(t)) = s \o <<Head(t)>>
    BY <1>1, AppendIsConcat
  <1>4. (s \o <<Head(t)>>) \o Tail(t) = s \o (<<Head(t)>> \o Tail(t))
    BY <1>1, ConcatAssociative
  <1> QED
    BY <1>2, <1>3, <1>4

LEMMA Writes ==
  ASSUME NEW q \in ProcType, NEW ms \in Seq(Messages), ~q.busy => q.queue = <<>>
  PROVE  /\ Write(q, ms) \in ProcType
         /\ Write(q, ms).at = q.at /\ Write(q, ms).stop = q.stop
         /\ ~Write(q, ms).busy => Write(q, ms).queue = <<>>
         /\ Turns(Write(q, ms)) = IF Takes(q) THEN Turns(q) \o ms ELSE Turns(q)
  <1> DEFINE r == Write(q, ms)
  <1>0. q.got \in Seq(Messages) /\ q.queue \in Seq(Messages) /\ q.stop \in BOOLEAN /\ q.busy \in BOOLEAN
    BY DEF ProcType
  <1>1. CASE ~Takes(q) \/ ms = <<>>
    <2>1. r = q
      BY <1>1 DEF Write, Takes
    <2>2. Turns(q) = Turns(q) \o <<>>
      BY <1>0 DEF Turns
    <2> QED
      BY <1>0, <1>1, <2>1, <2>2
  <1>2. CASE Takes(q) /\ ms # <<>> /\ q.busy
    <2>1. r = [q EXCEPT !.queue = q.queue \o ms]
      BY <1>2 DEF Write, Takes
    <2>a. q.queue \o ms \in Seq(Messages)
      BY <1>0, ConcatProperties
    <2>2. r \in ProcType /\ r.at = q.at /\ r.stop = q.stop /\ r.busy = q.busy /\ r.got = q.got /\ r.queue = q.queue \o ms
      BY <1>0, <2>1, <2>a DEF ProcType
    <2> HIDE DEF r
    <2>3. (q.got \o q.queue) \o ms = q.got \o (q.queue \o ms)
      <3> DEFINE a == q.got
                 b == q.queue
      <3>1. a \in Seq(Messages) /\ b \in Seq(Messages)
        BY <1>0
      <3> HIDE DEF a, b
      <3>2. (a \o b) \o ms = a \o (b \o ms)
        BY <3>1, ConcatAssociative
      <3> QED
        BY <3>2 DEF a, b
    <2>4. Turns(r) = Turns(q) \o ms
      BY <2>2, <2>3 DEF Turns
    <2> QED
      BY <1>2, <2>2, <2>4 DEF r
  <1>3. CASE Takes(q) /\ ms # <<>> /\ ~q.busy
    <2>1. r = [q EXCEPT !.busy = TRUE, !.got = Append(q.got, Head(ms)), !.queue = q.queue \o Tail(ms)]
      BY <1>3 DEF Write, Takes
    <2>2. Head(ms) \in Messages /\ Tail(ms) \in Seq(Messages) /\ q.queue = <<>>
      BY <1>3
    <2>a. Append(q.got, Head(ms)) \in Seq(Messages) /\ q.queue \o Tail(ms) \in Seq(Messages)
      BY <1>0, <2>2, AppendProperties, ConcatProperties
    <2>3. /\ r \in ProcType /\ r.at = q.at /\ r.stop = q.stop /\ r.busy /\ r.got = Append(q.got, Head(ms))
          /\ r.queue = q.queue \o Tail(ms)
      BY <1>0, <2>1, <2>a DEF ProcType
    <2> HIDE DEF r
    <2>b. q.queue \o Tail(ms) = Tail(ms) /\ q.got \o q.queue = q.got
      BY <1>0, <2>2, ConcatEmptySeq
    <2>4. Append(q.got, Head(ms)) \o (q.queue \o Tail(ms)) = (q.got \o q.queue) \o ms
      BY <1>0, <1>3, <2>b, HeadThenTail
    <2> QED
      BY <1>3, <2>3, <2>4 DEF r, Turns
  <1> QED
    BY <1>0, <1>1, <1>2, <1>3

LEMMA Flushes ==
  ASSUME NEW q \in ProcType
  PROVE  /\ FlushNext(q) \in ProcType
         /\ FlushNext(q).at = q.at /\ FlushNext(q).stop = q.stop
         /\ (q.busy /\ ~FlushNext(q).busy) => FlushNext(q).queue = <<>>
         /\ Turns(FlushNext(q)) = Turns(q)
  <1> DEFINE r == FlushNext(q)
  <1>0. q.got \in Seq(Messages) /\ q.queue \in Seq(Messages) /\ q.stop \in BOOLEAN /\ q.busy \in BOOLEAN
    BY DEF ProcType
  <1>1. CASE q.queue = <<>>
    <2>1. r = [q EXCEPT !.busy = FALSE]
      BY <1>1 DEF FlushNext
    <2>2. r \in ProcType /\ r.at = q.at /\ r.stop = q.stop /\ r.got = q.got /\ r.queue = q.queue
      BY <1>0, <2>1 DEF ProcType
    <2> QED
      BY <1>1, <2>2 DEF Turns
  <1>2. CASE q.queue # <<>>
    <2>1. r = [q EXCEPT !.got = Append(q.got, Head(q.queue)), !.queue = Tail(q.queue)]
      BY <1>2 DEF FlushNext
    <2>2. Head(q.queue) \in Messages /\ Tail(q.queue) \in Seq(Messages)
      BY <1>0, <1>2
    <2>a. Append(q.got, Head(q.queue)) \in Seq(Messages)
      BY <1>0, <2>2, AppendProperties
    <2>3. /\ r \in ProcType /\ r.at = q.at /\ r.stop = q.stop /\ r.busy = q.busy
          /\ r.got = Append(q.got, Head(q.queue)) /\ r.queue = Tail(q.queue)
      BY <1>0, <2>1, <2>2, <2>a DEF ProcType
    <2>4. Append(q.got, Head(q.queue)) \o Tail(q.queue) = q.got \o q.queue
      BY <1>0, <1>2, HeadThenTail
    <2> QED
      BY <2>3, <2>4 DEF Turns
  <1> QED
    BY <1>1, <1>2

-----------------------------------------------------------------------------
(* The steps of a job *)

LEMMA Facts ==
  /\ NoCtl \notin Procs /\ None \notin Workers /\ Wake \notin Calls
  /\ Calls \subseteq Workers /\ Passes \subseteq Workers /\ Calls \intersect Passes = {}
  /\ Seats # {} /\ \A i \in DOMAIN Boots : i \in Nat /\ Boots[i] \in Passes
  /\ NoSeat \in SeatType /\ NoSeat.run = None /\ NoSeat.ctl = NoCtl /\ NoSeat.notified = {}
  /\ NoProc \in ProcType /\ NoProc.at = None /\ NoProc.queue = <<>> /\ NoProc.got = <<>> /\ NoProc.busy
  /\ \A k \in Procs : k[1] \in Workers /\ k[2] \in Seats /\ k = <<k[1], k[2]>>
  /\ \A w \in Workers, p \in Seats : <<w, p>> \in Procs
  <1>1. None \notin Workers /\ Wake \notin Calls /\ Calls \intersect Passes = {}
    BY MeetingAssumption
  <1>2. Calls \subseteq Workers /\ Passes \subseteq Workers /\ \A i \in DOMAIN Boots : i \in Nat /\ Boots[i] \in Passes
    BY MeetingAssumption DEF Workers, Passes, ToSet
  <1>3. NoCtl \notin Procs
    BY <1>1 DEF NoCtl, Procs
  <1>4. 1 \in DOMAIN Roster
    BY MeetingAssumption
  <1>5. Seats # {}
    BY <1>4 DEF Seats, ToSet
  <1>6. NoSeat \in SeatType /\ NoSeat.run = None /\ NoSeat.ctl = NoCtl /\ NoSeat.notified = {}
    BY DEF NoSeat, SeatType
  <1>7. NoProc \in ProcType /\ NoProc.at = None /\ NoProc.queue = <<>> /\ NoProc.got = <<>> /\ NoProc.busy
    BY EmptySeq DEF NoProc, ProcType
  <1>8. \A k \in Procs : k[1] \in Workers /\ k[2] \in Seats /\ k = <<k[1], k[2]>>
    BY DEF Procs
  <1>9. \A w \in Workers, p \in Seats : <<w, p>> \in Procs
    BY DEF Procs
  <1> QED
    BY <1>1, <1>2, <1>3, <1>5, <1>6, <1>7, <1>8, <1>9

Moves(w, a, t) ==
    /\ job' \in [Workers -> JobType] /\ job'[w].at = a /\ job'[w].todo = t
    /\ \A v \in Workers \ {w} : job'[v] = job[v]

LEMMA SetMoves ==
  ASSUME Types, NEW w \in Workers, NEW a \in Labels, NEW t, t \subseteq Seats \union Calls \union Procs,
         job' = [job EXCEPT ![w] = [at |-> a, todo |-> t]]
  PROVE  Moves(w, a, t)
  <1>1. job \in [Workers -> JobType] /\ [at |-> a, todo |-> t] \in JobType
    BY DEF Types, JobType
  <1> QED
    BY <1>1 DEF Moves

LEMMA GotoMoves ==
  ASSUME Types, NEW w \in Workers, NEW a \in Labels, Goto(w, a)
  PROVE  Moves(w, a, job[w].todo)
  <1>1. job \in [Workers -> JobType] /\ job[w] \in JobType
    BY DEF Types
  <1>2. [job[w] EXCEPT !.at = a] = [at |-> a, todo |-> job[w].todo] /\ job[w].todo \subseteq Seats \union Calls \union Procs
    BY <1>1 DEF JobType
  <1>3. job' = [job EXCEPT ![w] = [at |-> a, todo |-> job[w].todo]]
    BY <1>1, <1>2 DEF Goto
  <1> QED
    BY <1>2, <1>3, SetMoves

LEMMA DoneMoves ==
  ASSUME Types, NEW w \in Workers, Done(w)
  PROVE  Moves(w, "done", {})
  <1>1. [Idle EXCEPT !.at = "done"] = [at |-> "done", todo |-> {}]
    BY DEF Idle
  <1>2. job' = [job EXCEPT ![w] = [at |-> "done", todo |-> {}]] /\ "done" \in Labels
    BY <1>1 DEF Done, Labels
  <1> QED
    BY <1>2, SetMoves

LEMMA DispatchMoves ==
  ASSUME Types, NEW w \in Workers, NEW t, t \subseteq Seats, Dispatch(w, t)
  PROVE  Moves(w, "dispatch", t)
  <1>1. job' = [job EXCEPT ![w] = [at |-> "dispatch", todo |-> t]] /\ "dispatch" \in Labels
    BY DEF Dispatch, Labels, Loop
  <1> QED
    BY <1>1, SetMoves

LEMMA NextMoves ==
  ASSUME Types, NEW w \in Workers, job[w].todo \subseteq Seats, NextTarget(w)
  PROVE  LET rest == job[w].todo \ {Target(w)}
         IN  IF rest = {} THEN Moves(w, "done", {}) ELSE Moves(w, "dispatch", rest)
  BY DoneMoves, DispatchMoves DEF NextTarget

LEMMA TargetIsIn ==
  ASSUME Jobs, NEW w \in Workers, job[w].at \in Loop
  PROVE  /\ Target(w) \in job[w].todo /\ Target(w) \in Seats /\ job[w].todo \subseteq Seats
         /\ IsSay(w) => Target(w) \in Request[w].to
  BY FirstIsIn, OrderIs DEF Jobs, Job, Target

LEMMA JobsKept ==
  ASSUME Types, Jobs, NEW w \in Workers, NEW a, NEW t, Moves(w, a, t), Job(w)'
  PROVE  Jobs'
  BY DEF Jobs, Job, Moves, IsSay

(* A call or a boot pass that is not in the loop goes on. *)
Advance(w, a, t) ==
    /\ Moves(w, a, t)
    /\ job[w].at \notin Loop \union {"done"}
    /\ a \notin {"idle", "notify", "admit", "start", "invoke"}
    /\ a = "dispatch" => t \subseteq Seats /\ t # {} /\ (IsSay(w) => t = Request[w].to)
    /\ IsSay(w) => a \in {"number", "append", "index", "dispatch", "done"}
    /\ a \in {"number", "append", "index"} => IsSay(w)
    /\ a \in {"append", "index"} => t \subseteq Calls
    /\ a = "exits" => t \subseteq Procs
    /\ UNCHANGED <<receipts, seat, pending, proc, history, crashes, exits, plan>>
Written ==
    /\ status' \in {None, "open", "closed"} /\ bound' \in {"working", "resolved", "failed"}
    /\ row' \in [Calls -> {None, "appended", "numbered"}] /\ passed' \subseteq Calls

LEMMA AdvanceKeepsBase ==
  ASSUME Base, NEW w \in Workers, NEW a, NEW t, Advance(w, a, t), Written
  PROVE  Base'
  <1> USE Facts
  <1> Types /\ Jobs /\ Seatings /\ Shapes /\ Launched /\ ToCome
    BY DEF Base
  <1>1. Types'
    BY DEF Types, Advance, Moves, Written
  <1>2. Job(w)'
    BY DEF Advance, Moves, Job, Loop, Numbering, IsSay
  <1>3. Jobs'
    BY <1>2, JobsKept DEF Advance
  <1>4. Seatings'
    BY DEF Seatings, Seated, Advance
  <1>5. Shapes'
    BY DEF Shapes, Shaped, Advance
  <1>6. Launched'
    BY DEF Launched, Past, Advance, Moves
  <1>7. ToCome'
    BY DEF ToCome, Advance, Moves
  <1> QED
    BY <1>1, <1>3, <1>4, <1>5, <1>6, <1>7 DEF Base

LEMMA AdvanceKeepsTells ==
  ASSUME Base, Tells, NEW w \in Workers, NEW a, NEW t, Advance(w, a, t)
  PROVE  Tells'
  <1> USE Facts
  <1> Types /\ Jobs /\ Receipts /\ Noted /\ DeliveredIsHeld
    BY DEF Base, Tells
  <1>1. IsSay(w) => job[w].at \in Numbering
    BY DEF Jobs, Job, Advance
  <1>2. \A r \in receipts : r.msg # w /\ r.msg \in Calls
    BY <1>1 DEF Receipts, Types, ReceiptType
  <1>3. ASSUME NEW c \in Calls, IsSay(c), job'[c].at \in Loop
        PROVE  \A p \in Request[c].to : Has(c, p) <=> p \notin job'[c].todo
    <2>1. CASE c = w
      BY <1>2, <1>3, <2>1 DEF Has, Advance, Moves, Loop
    <2>2. CASE c # w
      BY <1>3, <2>2 DEF Receipts, Advance, Moves
    <2> QED
      BY <2>1, <2>2
  <1>4. Receipts'
    BY <1>2, <1>3 DEF Receipts, Has, IsSay, Advance, Moves
  <1>5. Noted'
    BY DEF Noted, Has, Advance
  <1>6. DeliveredIsHeld'
    BY DEF DeliveredIsHeld, Advance
  <1> QED
    BY <1>4, <1>5, <1>6 DEF Tells

LEMMA AdvanceKeepsReach ==
  ASSUME Base, Reaches, NEW w \in Workers, NEW a, NEW t, Advance(w, a, t)
  PROVE  Reaches'
  <1> USE Facts
  <1>1. \A v \in Workers : job'[v].at \in {"start", "invoke"} =>
            job[v].at = job'[v].at /\ Target(v)' = Target(v)
    BY DEF Advance, Moves, Target
  <1>2. Alone'
    BY <1>1 DEF Alone, Reaches, Starting, Advance
  <1>3. ReachableProcess'
    BY DEF ReachableProcess, Reaches, Advance
  <1> QED
    BY <1>2, <1>3 DEF Reaches

LEMMA AdvanceKeeps ==
  ASSUME Inv, NEW w \in Workers, NEW a, NEW t, Advance(w, a, t), Written
  PROVE  Base' /\ Tells' /\ OrderKept' /\ Reaches'
  <1>1. OrderKept'
    BY DEF Inv, OrderKept, Queued, TurnsInOrder, Advance
  <1> QED
    BY <1>1, AdvanceKeepsBase, AdvanceKeepsTells, AdvanceKeepsReach DEF Inv

LEMMA NumbersKept ==
  ASSUME Types, Numbers, NEW w \in Workers, NEW a, NEW t, Moves(w, a, t),
         job[w].at \in {"append", "index"} => a \in {"append", "index"},
         passed' \in {passed, passed \union Unnumbered}
  PROVE  Numbers' /\ passed' \subseteq Calls
  BY Facts DEF Numbers, Unnumbered, Moves

(* Steps that are not of a message. *)
LEMMA RoomStep ==
  ASSUME Inv, NEW w \in Workers, ~IsSay(w), NEW a, NEW t, Moves(w, a, t),
         job[w].at \notin Loop \union {"done", "append", "index"},
         a \in {"done", "convened", "snapshot", "resumed", "reopen", "closed", "close", "revoke",
                "rehydrate", "dispatch"},
         a = "dispatch" => t = Seats,
         passed' \in {passed, passed \union Unnumbered},
         status' \in {status, "open", "closed"}, bound' \in {bound, "resolved", "failed"},
         UNCHANGED <<row, receipts, live, bounds, history>>
  PROVE  Inv'
  <1>1. Advance(w, a, t)
    BY Facts DEF Advance, live, bounds, Loop
  <1>2. Written /\ Numbers'
    BY NumbersKept DEF Written, Inv, Base, Types
  <1> QED
    BY <1>1, <1>2, AdvanceKeeps DEF Inv

LEMMA NotSay ==
  ASSUME Jobs, NEW w \in Workers, job[w].at \notin Numbering \union Loop \union {"done"}
  PROVE  ~IsSay(w)
  BY DEF Jobs, Job

LEMMA CallSteps ==
  ASSUME Inv, NEW c \in Calls, CallStep(c), ~RevokeAll(c)
  PROVE  Inv'
  <1> Types /\ Jobs /\ c \in Workers
    BY Facts DEF Inv, Base
  <1>ConveneCheck. ASSUME ConveneCheck(c) PROVE Inv'
    <2> USE <1>ConveneCheck
    <2>1. job[c].at = "idle" /\ ~IsSay(c)
      BY DEF ConveneCheck, Begins, IsSay
    <2>2. Done(c) \/ Goto(c, "done") \/ Goto(c, "convened") \/ Goto(c, "resumed")
      BY DEF ConveneCheck
    <2>3. \E a \in {"done", "convened", "resumed"}, t \in {{}, job[c].todo} : Moves(c, a, t)
      BY <2>2, DoneMoves, GotoMoves DEF Labels
    <2> QED
      BY <2>1, <2>3, RoomStep DEF ConveneCheck, room, journal, Loop
  <1>ResumeCheck. ASSUME ResumeCheck(c) PROVE Inv'
    <2> USE <1>ResumeCheck
    <2>1. job[c].at = "idle" /\ ~IsSay(c)
      BY DEF ResumeCheck, Begins, IsSay
    <2>2. Done(c) \/ Goto(c, "done") \/ Goto(c, "resumed")
      BY DEF ResumeCheck
    <2>3. \E a \in {"done", "resumed"}, t \in {{}, job[c].todo} : Moves(c, a, t)
      BY <2>2, DoneMoves, GotoMoves DEF Labels
    <2> QED
      BY <2>1, <2>3, RoomStep DEF ResumeCheck, room, journal, Loop
  <1>CloseCheck. ASSUME CloseCheck(c) PROVE Inv'
    <2> USE <1>CloseCheck
    <2>1. job[c].at = "idle" /\ ~IsSay(c)
      BY DEF CloseCheck, Begins, IsSay
    <2>2. Done(c) \/ Goto(c, "done") \/ Goto(c, "closed")
      BY DEF CloseCheck
    <2>3. \E a \in {"done", "closed"}, t \in {{}, job[c].todo} : Moves(c, a, t)
      BY <2>2, DoneMoves, GotoMoves DEF Labels
    <2> QED
      BY <2>1, <2>3, RoomStep DEF CloseCheck, room, journal, Loop
  <1>ConveneJournal. ASSUME ConveneJournal(c) PROVE Inv'
    <2> USE <1>ConveneJournal
    <2>1. job[c].at = "convened" /\ ~IsSay(c)
      BY NotSay DEF ConveneJournal, Loop, Numbering
    <2>2. Moves(c, "snapshot", job[c].todo)
      BY GotoMoves DEF ConveneJournal, Labels
    <2> QED
      BY <2>1, <2>2, RoomStep DEF ConveneJournal, room, journal, Loop, appendMeetingEvent
  <1>ResumeJournal. ASSUME ResumeJournal(c) PROVE Inv'
    <2> USE <1>ResumeJournal
    <2>1. job[c].at = "resumed" /\ ~IsSay(c)
      BY NotSay DEF ResumeJournal, Loop, Numbering
    <2>2. Moves(c, "reopen", job[c].todo)
      BY GotoMoves DEF ResumeJournal, Labels
    <2> QED
      BY <2>1, <2>2, RoomStep DEF ResumeJournal, room, journal, Loop, appendMeetingEvent
  <1>CloseJournal. ASSUME CloseJournal(c) PROVE Inv'
    <2> USE <1>CloseJournal
    <2>1. job[c].at = "closed" /\ ~IsSay(c)
      BY NotSay DEF CloseJournal, Loop, Numbering
    <2>2. Moves(c, "close", job[c].todo)
      BY GotoMoves DEF CloseJournal, Labels
    <2> QED
      BY <2>1, <2>2, RoomStep DEF CloseJournal, room, journal, Loop, appendMeetingEvent
  <1>persistClosedSnapshot. ASSUME persistClosedSnapshot(c) PROVE Inv'
    <2> USE <1>persistClosedSnapshot
    <2>1. job[c].at = "close" /\ ~IsSay(c)
      BY NotSay DEF persistClosedSnapshot, Loop, Numbering
    <2>2. Moves(c, "revoke", job[c].todo)
      BY GotoMoves DEF persistClosedSnapshot, Labels
    <2> QED
      BY <2>1, <2>2, RoomStep DEF persistClosedSnapshot, room, journal, Loop, appendMeetingEvent
  <1>ConveneWrite. ASSUME ConveneWrite(c) PROVE Inv'
    <2> USE <1>ConveneWrite
    <2>1. job[c].at = "snapshot" /\ ~IsSay(c)
      BY NotSay DEF ConveneWrite, Loop, Numbering
    <2>2. Moves(c, "dispatch", Seats) \/ Moves(c, "done", {})
      BY DispatchMoves, DoneMoves DEF ConveneWrite
    <2> QED
      BY <2>1, <2>2, RoomStep DEF ConveneWrite, room, journal, Loop
  <1>ResumeWrite. ASSUME ResumeWrite(c) PROVE Inv'
    <2> USE <1>ResumeWrite
    <2>1. job[c].at = "reopen" /\ ~IsSay(c)
      BY NotSay DEF ResumeWrite, Loop, Numbering
    <2>2. Moves(c, "dispatch", Seats) \/ Moves(c, "done", {})
      BY DispatchMoves, DoneMoves DEF ResumeWrite
    <2> QED
      BY <2>1, <2>2, RoomStep DEF ResumeWrite, room, journal, Loop
  <1>maybeResolveBoundMeetingStep. ASSUME maybeResolveBoundMeetingStep(c) PROVE Inv'
    <2> USE <1>maybeResolveBoundMeetingStep
    <2>1. job[c].at = "exits" /\ ~IsSay(c)
      BY NotSay DEF maybeResolveBoundMeetingStep, Loop, Numbering
    <2>2. Moves(c, "done", {})
      BY DoneMoves DEF maybeResolveBoundMeetingStep
    <2> QED
      BY <2>1, <2>2, RoomStep DEF maybeResolveBoundMeetingStep, journal, Loop
  <1>SayCheck. ASSUME SayCheck(c) PROVE Inv'
    <2> USE <1>SayCheck
    <2>1. job[c].at = "idle" /\ IsSay(c)
      BY DEF SayCheck, Begins, IsSay
    <2>2. PICK a \in {"done", "number"}, t \in {{}, job[c].todo} : Moves(c, a, t)
      BY DoneMoves, GotoMoves DEF SayCheck, Labels, Numbering
    <2>3. Advance(c, a, t)
      BY <2>1, <2>2 DEF Advance, SayCheck, journal, live, bounds, Loop
    <2>4. Written /\ Numbers'
      BY <2>1, <2>2, NumbersKept DEF SayCheck, Written, Inv, Base, Types, room, journal
    <2> QED
      BY <2>3, <2>4, AdvanceKeeps DEF Inv
  <1>allocateMeetingSeq. ASSUME allocateMeetingSeq(c) PROVE Inv'
    <2> USE <1>allocateMeetingSeq
    <2>1. job[c].at = "number" /\ IsSay(c) /\ Unnumbered \subseteq Calls
      BY DEF allocateMeetingSeq, Jobs, Job, Unnumbered
    <2>2. Moves(c, "append", Unnumbered)
      BY <2>1, SetMoves DEF allocateMeetingSeq, Labels, Numbering
    <2>3. Advance(c, "append", Unnumbered)
      BY <2>1, <2>2 DEF Advance, allocateMeetingSeq, journal, live, bounds, Loop
    <2>4. Written /\ Numbers'
      BY <2>1, <2>2, NumbersKept DEF allocateMeetingSeq, Written, Inv, Base, Types, room, journal
    <2> QED
      BY <2>3, <2>4, AdvanceKeeps DEF Inv
  <1>appendSpaceJournal. ASSUME appendSpaceJournal(c) PROVE Inv'
    <2> USE <1>appendSpaceJournal
    <2>1. job[c].at = "append" /\ IsSay(c) /\ job[c].todo \subseteq Calls
      BY DEF appendSpaceJournal, Jobs, Job
    <2>2. Moves(c, "index", job[c].todo)
      BY GotoMoves DEF appendSpaceJournal, Labels, Numbering
    <2>3. Advance(c, "index", job[c].todo)
      BY <2>1, <2>2 DEF Advance, appendSpaceJournal, live, bounds, Loop
    <2>4. Written /\ Numbers'
      BY <2>1, <2>2, NumbersKept DEF appendSpaceJournal, Written, Inv, Base, Types, room
    <2> QED
      BY <2>3, <2>4, AdvanceKeeps DEF Inv
  <1>setJournalIndexMeetingSeq. ASSUME setJournalIndexMeetingSeq(c) PROVE Inv'
    <2> USE <1>setJournalIndexMeetingSeq
    <2>1. job[c].at = "index" /\ IsSay(c) /\ job[c].todo \subseteq Calls /\ Request[c].to \subseteq Seats
      BY MeetingAssumption DEF setJournalIndexMeetingSeq, Jobs, Job, RequestType
    <2>2. \/ Moves(c, "done", {})
          \/ Moves(c, "dispatch", Request[c].to) /\ Request[c].to # {}
      BY <2>1, DoneMoves, DispatchMoves DEF setJournalIndexMeetingSeq
    <2>3. PICK a \in {"done", "dispatch"}, t \in {{}, Request[c].to} :
              Moves(c, a, t) /\ (a = "dispatch" => t = Request[c].to /\ t # {})
      BY <2>2
    <2>4. Advance(c, a, t)
      BY <2>1, <2>3 DEF Advance, setJournalIndexMeetingSeq, live, bounds, Loop
    <2>5. /\ passed' = (passed \union (job[c].todo \intersect Unnumbered)) \ {c}
          /\ row' = [row EXCEPT ![c] = "numbered"] /\ UNCHANGED room
      BY DEF setJournalIndexMeetingSeq
    <2>6. Unnumbered \ {c} \subseteq Unnumbered'
      BY <2>3, Facts DEF Unnumbered, Moves
    <2>7. Numbers' /\ passed' \subseteq Calls
      BY <2>1, <2>5, <2>6 DEF Numbers, Inv, Base, Types
    <2>8. Written
      BY <2>5, <2>7 DEF Written, Inv, Base, Types, room
    <2> QED
      BY <2>4, <2>7, <2>8, AdvanceKeeps DEF Inv
  <1> QED
    BY <1>ConveneCheck, <1>ConveneJournal, <1>ConveneWrite, <1>ResumeCheck, <1>ResumeJournal, <1>ResumeWrite,
       <1>CloseCheck, <1>CloseJournal, <1>persistClosedSnapshot, <1>maybeResolveBoundMeetingStep, <1>SayCheck,
       <1>allocateMeetingSeq, <1>appendSpaceJournal, <1>setJournalIndexMeetingSeq DEF CallStep

LEMMA BootSteps ==
  ASSUME Inv, NEW b \in Passes, BootStep(b)
  PROVE  Inv'
  <1> Types /\ Jobs /\ b \in Workers /\ ~IsSay(b)
    BY Facts DEF Inv, Base, IsSay
  <1>1. ASSUME failOrphanedWorkingRuns(b) PROVE Inv'
    <2>1. Moves(b, "rehydrate", job[b].todo)
      BY <1>1, GotoMoves DEF failOrphanedWorkingRuns, Labels
    <2> QED
      BY <1>1, <2>1, RoomStep DEF failOrphanedWorkingRuns, journal, Loop
  <1>2. ASSUME rehydrateOpenMeetings(b) PROVE Inv'
    <2>1. Moves(b, "dispatch", Seats) \/ Moves(b, "done", {})
      BY <1>2, DispatchMoves, DoneMoves DEF rehydrateOpenMeetings
    <2> QED
      BY <1>2, <2>1, RoomStep DEF rehydrateOpenMeetings, room, journal, Loop
  <1> QED
    BY <1>1, <1>2 DEF BootStep

-----------------------------------------------------------------------------
(* The steps of the loop *)

(* The loop goes on with the same target or the next ones, or ends. *)
InLoop(w, a, t) ==
    /\ Moves(w, a, t) /\ job[w].at \in Loop /\ a \in Loop \union {"done"}
    /\ a \in Loop => t \subseteq job[w].todo /\ t # {}

LEMMA LoopKeepsJobs ==
  ASSUME Base, NEW w \in Workers, NEW a, NEW t, InLoop(w, a, t), UNCHANGED crashes
  PROVE  Jobs' /\ ToCome'
  <1> USE Facts
  <1> Types /\ Jobs /\ ToCome
    BY DEF Base
  <1>1. Job(w) /\ job'[w].at = a /\ job'[w].todo = t
    BY DEF Jobs, InLoop, Moves
  <1>2. Job(w)'
    BY <1>1 DEF InLoop, Job, Loop, Numbering, IsSay
  <1>3. Jobs'
    BY <1>2, JobsKept DEF InLoop
  <1>4. \A i \in DOMAIN Boots : i > crashes => Boots[i] # w
    BY DEF ToCome, InLoop, Loop
  <1>5. ToCome'
    BY <1>4 DEF ToCome, InLoop, Moves
  <1> QED
    BY <1>3, <1>5

LEMMA LoopKeepsLaunched ==
  ASSUME Base, NEW w \in Workers, NEW a, NEW t, InLoop(w, a, t), UNCHANGED crashes,
         \A k \in Procs : proc'[k].at # None =>
             proc[k].at # None \/ (k[1] = w /\ (a \in Loop => k[2] \notin t))
  PROVE  Launched'
  <1> USE Facts
  <1> SUFFICES ASSUME NEW v \in Workers, NEW p \in Seats, proc'[<<v, p>>].at # None
               PROVE  Past(v, p)'
    BY DEF Launched
  <1>1. proc[<<v, p>>].at # None => Past(v, p)
    BY DEF Base, Launched
  <1>2. <<v, p>>[1] = v /\ <<v, p>>[2] = p
    OBVIOUS
  <1>3. CASE v # w
    BY <1>1, <1>2, <1>3 DEF Past, InLoop, Moves
  <1>4. CASE v = w
    <2>1. \A i \in DOMAIN Boots : w = Boots[i] => i <= crashes
      BY DEF Base, ToCome, Types, InLoop, Loop
    <2>2. a \in Loop => p \notin t
      BY <1>1, <1>2, <1>4 DEF Past, InLoop
    <2> QED
      BY <1>4, <2>1, <2>2 DEF Past, InLoop, Moves
  <1> QED
    BY <1>3, <1>4

LEMMA GoesOn ==
  ASSUME Types, Jobs, NEW w \in Workers, job[w].at \in Loop, NEW a \in Loop \union {"done"}, Goto(w, a)
  PROVE  InLoop(w, a, job[w].todo)
  <1>1. Moves(w, a, job[w].todo)
    BY GotoMoves DEF Labels
  <1> QED
    BY <1>1 DEF InLoop, Jobs, Job

(* The receipt of the target, and the next one. *)
LEMMA ReceiptStep ==
  ASSUME Types, Jobs, Receipts, NEW w \in Workers, job[w].at \in Loop,
         NEW p, p = Target(w), NEW how \in {"delivered", "failed"}, Receipt(w, p, how), NextTarget(w)
  PROVE  /\ Receipts' /\ receipts \subseteq receipts' /\ receipts' \subseteq ReceiptType
         /\ IsSay(w) => Has(w, p)'
         /\ \A r \in receipts' : r \in receipts \/ r = [msg |-> w, seat |-> p, how |-> how]
         /\ row' = row /\ passed' \in {passed, passed \union Unnumbered}
         /\ \E a \in {"dispatch", "done"}, t \in {{}, job[w].todo \ {p}} :
                InLoop(w, a, t) /\ (a \in Loop => p \notin t)
  <1> USE Facts
  <1> DEFINE new == [msg |-> w, seat |-> p, how |-> how]
  <1>1. p \in job[w].todo /\ p \in Seats /\ job[w].todo \subseteq Seats /\ (IsSay(w) => p \in Request[w].to)
    BY TargetIsIn
  <1>2. \/ Moves(w, "done", {})
        \/ Moves(w, "dispatch", job[w].todo \ {p}) /\ job[w].todo \ {p} # {}
    BY <1>1, NextMoves
  <1>3. PICK a \in {"dispatch", "done"}, t \in {{}, job[w].todo \ {p}} :
            Moves(w, a, t) /\ (a = "dispatch" => t = job[w].todo \ {p} /\ t # {})
    BY <1>2
  <1>4. InLoop(w, a, t) /\ (a \in Loop => p \notin t)
    BY <1>3 DEF InLoop, Loop
  <1>5. row' = row /\ passed' \in {passed, passed \union Unnumbered}
    BY DEF Receipt, journal
  <1>6. CASE ~IsSay(w)
    <2>1. receipts' = receipts
      BY <1>6 DEF Receipt, journal
    <2>2. \A r \in receipts : r.msg # w /\ r.msg \in Calls
      BY <1>6 DEF Receipts, Types, ReceiptType
    <2>3. \A c \in Calls : IsSay(c) => c # w
      BY <1>6
    <2>4. Receipts'
      BY <1>3, <2>1, <2>2, <2>3 DEF Receipts, Has, IsSay, Moves
    <2> QED
      BY <1>4, <1>5, <1>6, <2>1, <2>4 DEF Types
  <1>7. CASE IsSay(w)
    <2>1. receipts' = receipts \union {new} /\ w \in Calls
      BY <1>7 DEF Receipt, IsSay
    <2>2. new \in ReceiptType /\ new.msg = w /\ new.seat = p
      BY <1>1, <2>1 DEF ReceiptType
    <2> HIDE DEF new
    <2>3. ~Has(w, p) /\ \A q \in Request[w].to : Has(w, q) <=> q \notin job[w].todo
      BY <1>1, <1>7, <2>1 DEF Receipts
    <2>4. \A r, s \in receipts' : r.msg = s.msg /\ r.seat = s.seat => r = s
      BY <2>1, <2>2, <2>3 DEF Receipts, Has
    <2>5. \A r \in receipts' : IsSay(r.msg) /\ r.seat \in Request[r.msg].to
      BY <1>1, <1>7, <2>1, <2>2 DEF Receipts
    <2>6. \A r \in receipts' : job'[r.msg].at \notin Numbering
      <3>1. job'[w].at \notin Numbering
        BY <1>3 DEF Moves, Numbering
      <3>2. \A r \in receipts : r.msg \in Workers /\ job[r.msg].at \notin Numbering
        BY DEF Receipts, Types, ReceiptType
      <3> QED
        BY <1>3, <2>1, <2>2, <3>1, <3>2 DEF Moves
    <2>7. ASSUME NEW c \in Calls, IsSay(c), job'[c].at \in Loop, NEW q \in Request[c].to
          PROVE  Has(c, q)' <=> q \notin job'[c].todo
      <3>1. CASE c # w
        <4>1. Has(c, q)' <=> Has(c, q)
          BY <2>1, <2>2, <3>1 DEF Has
        <4>2. job'[c] = job[c]
          BY <1>3, <3>1 DEF Moves
        <4> QED
          BY <2>7, <4>1, <4>2 DEF Receipts
      <3>2. CASE c = w
        <4>1. Has(c, q)' <=> Has(c, q) \/ q = p
          BY <2>1, <2>2, <3>2 DEF Has
        <4>2. job'[c].todo = job[c].todo \ {p}
          BY <1>3, <2>7, <3>2 DEF Moves, Loop
        <4> QED
          BY <2>3, <2>7, <3>2, <4>1, <4>2
      <3> QED
        BY <3>1, <3>2
    <2>8. Receipts'
      BY <2>4, <2>5, <2>6, <2>7 DEF Receipts, IsSay
    <2>9. Has(w, p)'
      BY <2>1, <2>2 DEF Has
    <2> QED
      BY <1>4, <1>5, <2>1, <2>2, <2>8, <2>9 DEF Types, new
  <1> QED
    BY <1>6, <1>7

LEMMA ReceiptsWait ==
  ASSUME Types, Jobs, Receipts, NEW w \in Workers, NEW a, InLoop(w, a, job[w].todo), UNCHANGED receipts
  PROVE  Receipts'
  <1> USE Facts
  <1>1. \A r \in receipts : r.msg \in Workers /\ r.msg \in Calls
    BY DEF Types, ReceiptType
  <1>2. \A v \in Workers : job'[v].at \in Numbering => job[v].at \in Numbering
    BY DEF InLoop, Moves, Loop, Numbering
  <1>3. \A v \in Workers : job'[v].at \in Loop => job[v].at \in Loop /\ job'[v].todo = job[v].todo
    BY DEF InLoop, Moves
  <1> QED
    BY <1>1, <1>2, <1>3 DEF Receipts, Has, IsSay

(* What was delivered is held, if what a step takes from a queue is given or *)
(* known to be dropped.                                                      *)
Holds(m, p) ==
    \/ <<m, p>> \in history.dropped \/ m \in ToSet(pending[p]) \/ proc[<<m, p>>].at # None
    \/ \E v \in Workers : m \in ToSet(Turns(proc[<<v, p>>]))

LEMMA HeldKept ==
  ASSUME Types, DeliveredIsHeld,
         history.dropped \subseteq history'.dropped,
         \A k \in Procs : proc[k].at # None => proc'[k].at # None,
         \A p \in Seats : \A m \in ToSet(pending[p]) : Holds(m, p)',
         \A v \in Workers, p \in Seats : \A m \in ToSet(Turns(proc[<<v, p>>])) : Holds(m, p)',
         \A r \in receipts' \ receipts : r.how = "delivered" => Holds(r.msg, r.seat)'
  PROVE  DeliveredIsHeld'
  <1> USE Facts
  <1> SUFFICES ASSUME NEW r \in receipts', r.how = "delivered" PROVE Holds(r.msg, r.seat)'
    BY DEF DeliveredIsHeld, Holds, Turns
  <1>1. CASE r \in receipts
    <2>1. r.msg \in Calls /\ r.seat \in Seats /\ <<r.msg, r.seat>> \in Procs
      BY <1>1 DEF Types, ReceiptType
    <2>2. Holds(r.msg, r.seat)
      BY <1>1 DEF DeliveredIsHeld, Holds, Turns
    <2> QED
      BY <2>1, <2>2 DEF Holds
  <1>2. CASE r \notin receipts
    BY <1>2
  <1> QED
    BY <1>1, <1>2

LEMMA NotedKept ==
  ASSUME Noted, receipts \subseteq receipts',
         \A p \in Seats : ToSet(pending'[p]) \union seat'[p].notified \subseteq ToSet(pending[p]) \union seat[p].notified
  PROVE  Noted'
  <1>1. \A m, p : Has(m, p) => Has(m, p)'
    BY DEF Has
  <1> QED
    BY <1>1 DEF Noted

LEMMA AloneKept ==
  ASSUME Alone, history'.doubled = history.doubled, \A p \in Seats : seat'[p].ctl \in {seat[p].ctl, NoCtl},
         \A v \in Workers : job'[v].at \in {"start", "invoke"} => job'[v] = job[v]
  PROVE  Alone'
  <1>1. \A v \in Workers : job'[v].at \in {"start", "invoke"} => Target(v)' = Target(v)
    BY DEF Target
  <1> QED
    BY <1>1 DEF Alone, Starting

(* Steps of the loop that leave the seats and the processes alone. *)
LEMMA QuietKeeps ==
  ASSUME Base, Noted, OrderKept, UNCHANGED <<status, bound, row, plan, crashes, exits, pending, proc>>,
         seat' \in [Seats -> SeatType],
         \A p \in Seats : seat'[p].ctl = seat[p].ctl /\ seat'[p].notified = seat[p].notified,
         \A p \in Seats : seat'[p].run = None => seat'[p] = seat[p],
         history' \in [dropped : {history.dropped}, told : {history.told}, doubled : BOOLEAN],
         receipts \subseteq receipts', receipts' \subseteq ReceiptType, passed' \subseteq Calls,
         job' \in [Workers -> JobType]
  PROVE  Types' /\ Seatings' /\ Shapes' /\ Noted' /\ OrderKept'
  <1> Types /\ Jobs /\ Seatings /\ Shapes
    BY DEF Base
  <1>0. history'.dropped = history.dropped /\ history'.told = history.told
    OBVIOUS
  <1>1. Types'
    BY DEF Types
  <1>2. Seatings'
    BY DEF Seatings, Seated
  <1>3. Shapes'
    BY DEF Shapes
  <1>4. Noted'
    BY NotedKept
  <1>5. OrderKept'
    BY <1>0 DEF OrderKept, Queued, TurnsInOrder
  <1> QED
    BY <1>1, <1>2, <1>3, <1>4, <1>5

LEMMA FindLiveStep ==
  ASSUME Inv, NEW w \in Workers, FindLive(w)
  PROVE  Inv'
  <1> USE Facts
  <1> Base /\ Types /\ Jobs /\ Numbers /\ Receipts /\ Noted /\ DeliveredIsHeld /\ OrderKept /\ Alone /\ ReachableProcess
    BY DEF Inv, Base, Tells, Reaches
  <1> DEFINE p == Target(w)
  <1>0. job[w].at = "dispatch" /\ job[w].at \in Loop /\ p \in Seats
    BY TargetIsIn DEF FindLive, Loop
  <1>1. /\ UNCHANGED <<status, bound, seat, pending, proc, plan, crashes, exits, history>>
        /\ history \in [dropped : {history.dropped}, told : {history.told}, doubled : BOOLEAN]
    BY DEF FindLive, room, live, bounds, Types
  <1> HIDE DEF p
  <1>2. /\ Receipts' /\ receipts \subseteq receipts' /\ receipts' \subseteq ReceiptType
        /\ \A r \in receipts' \ receipts : r.how = "failed"
        /\ row' = row /\ passed' \in {passed, passed \union Unnumbered}
        /\ \E a \in {"dispatch", "notify", "admit", "done"}, t \in {{}, job[w].todo, job[w].todo \ {p}} : InLoop(w, a, t)
    <2>1. CASE p \in Unhandled
      <3>1. Receipt(w, p, "failed") /\ NextTarget(w)
        BY <2>1 DEF FindLive, p
      <3>2. PICK a \in {"dispatch", "done"}, t \in {{}, job[w].todo \ {p}} : InLoop(w, a, t)
        BY <1>0, <3>1, ReceiptStep DEF p
      <3>3. /\ Receipts' /\ receipts \subseteq receipts' /\ receipts' \subseteq ReceiptType
            /\ \A r \in receipts' : r \in receipts \/ r = [msg |-> w, seat |-> p, how |-> "failed"]
            /\ row' = row /\ passed' \in {passed, passed \union Unnumbered}
        BY <1>0, <3>1, ReceiptStep DEF p
      <3>4. \A r \in receipts' \ receipts : r.how = "failed"
        BY <3>3
      <3>5. \E b \in {"dispatch", "notify", "admit", "done"}, u \in {{}, job[w].todo, job[w].todo \ {p}} : InLoop(w, b, u)
        BY <3>2
      <3> QED
        BY <3>3, <3>4, <3>5
    <2>2. CASE p \notin Unhandled
      <3>1. UNCHANGED journal /\ (Goto(w, "notify") \/ Goto(w, "admit"))
        BY <2>2 DEF FindLive, p
      <3>2. PICK a \in {"notify", "admit"} : InLoop(w, a, job[w].todo)
        BY <1>0, <3>1, GoesOn DEF Loop
      <3>3. Receipts' /\ UNCHANGED <<receipts, row, passed>> /\ receipts \subseteq ReceiptType
        BY <3>1, <3>2, ReceiptsWait DEF journal, Types
      <3> QED
        BY <3>2, <3>3
    <2> QED
      BY <2>1, <2>2
  <1>3. PICK a \in {"dispatch", "notify", "admit", "done"}, t \in {{}, job[w].todo, job[w].todo \ {p}} : InLoop(w, a, t)
    BY <1>2
  <1>4. Moves(w, a, t)
    BY <1>3 DEF InLoop
  <1>5. Numbers' /\ passed' \subseteq Calls
    BY <1>0, <1>2, <1>4, NumbersKept
  <1>6. Types' /\ Seatings' /\ Shapes' /\ Noted' /\ OrderKept'
    BY <1>1, <1>2, <1>4, <1>5, QuietKeeps DEF Moves, Types, Base, Seatings
  <1>7. Jobs' /\ ToCome' /\ Launched'
    BY <1>1, <1>3, LoopKeepsJobs, LoopKeepsLaunched
  <1>8. DeliveredIsHeld'
    BY <1>1, <1>2 DEF DeliveredIsHeld
  <1>9. \A v \in Workers : job'[v].at \in {"start", "invoke"} => job'[v] = job[v]
    BY <1>4 DEF Moves
  <1>10. Alone'
    BY <1>1, <1>9, AloneKept
  <1>11. ReachableProcess'
    BY <1>1 DEF ReachableProcess
  <1> QED
    BY <1>2, <1>5, <1>6, <1>7, <1>8, <1>10, <1>11 DEF Inv, Base, Tells, Reaches

LEMMA AdmitStep ==
  ASSUME Inv, NEW w \in Workers, Admit(w)
  PROVE  Inv'
  <1> USE Facts
  <1> Base /\ Types /\ Jobs /\ Numbers /\ Receipts /\ Noted /\ DeliveredIsHeld /\ OrderKept /\ Alone /\ ReachableProcess
    BY DEF Inv, Base, Tells, Reaches
  <1> DEFINE p == Target(w)
             twice == history.doubled \/ \E v \in Workers \ {w} :
                          job[v].at \in {"admit", "start", "invoke"} /\ Target(v) = p
  <1>0. job[w].at = "admit" /\ job[w].at \in Loop /\ p \in Seats
    BY TargetIsIn DEF Admit, Loop
  <1>1. UNCHANGED <<status, bound, seat, pending, proc, plan, crashes, exits>>
    BY DEF Admit, room, live, bounds
  <1>2. history' = [history EXCEPT !.doubled = twice]
    BY DEF Admit
  <1>3. /\ history' \in [dropped : {history.dropped}, told : {history.told}, doubled : BOOLEAN]
        /\ history'.dropped = history.dropped /\ history'.told = history.told /\ (history'.doubled <=> twice)
    BY <1>2 DEF Types
  <1> HIDE DEF p
  <1>4. /\ Receipts' /\ receipts \subseteq receipts' /\ receipts' \subseteq ReceiptType
        /\ \A r \in receipts' \ receipts : r.how = "failed"
        /\ row' = row /\ passed' \in {passed, passed \union Unnumbered}
        /\ \E a \in {"dispatch", "start", "done"}, t \in {{}, job[w].todo, job[w].todo \ {p}} : InLoop(w, a, t) /\ (a = "start" => t = job[w].todo)
    <2>1. CASE Receipt(w, p, "failed") /\ NextTarget(w)
      <3>2. PICK a \in {"dispatch", "done"}, t \in {{}, job[w].todo \ {p}} : InLoop(w, a, t)
        BY <1>0, <2>1, ReceiptStep DEF p
      <3>3. /\ Receipts' /\ receipts \subseteq receipts' /\ receipts' \subseteq ReceiptType
            /\ \A r \in receipts' : r \in receipts \/ r = [msg |-> w, seat |-> p, how |-> "failed"]
            /\ row' = row /\ passed' \in {passed, passed \union Unnumbered}
        BY <1>0, <2>1, ReceiptStep DEF p
      <3>4. \A r \in receipts' \ receipts : r.how = "failed"
        BY <3>3
      <3>5. \E b \in {"dispatch", "start", "done"}, u \in {{}, job[w].todo, job[w].todo \ {p}} : InLoop(w, b, u) /\ (b = "start" => u = job[w].todo)
        BY <3>2
      <3> QED
        BY <3>3, <3>4, <3>5
    <2>2. CASE Goto(w, "start") /\ UNCHANGED journal
      <3>2. InLoop(w, "start", job[w].todo)
        BY <1>0, <2>2, GoesOn DEF Loop
      <3> QED
        BY <2>2, <3>2, ReceiptsWait DEF journal, Types
    <2> QED
      BY <2>1, <2>2 DEF Admit, p
  <1>5. PICK a \in {"dispatch", "start", "done"}, t \in {{}, job[w].todo, job[w].todo \ {p}} : InLoop(w, a, t) /\ (a = "start" => t = job[w].todo)
    BY <1>4
  <1>6. Moves(w, a, t)
    BY <1>5 DEF InLoop
  <1>7. Numbers' /\ passed' \subseteq Calls
    BY <1>0, <1>4, <1>6, NumbersKept
  <1>8. Types' /\ Seatings' /\ Shapes' /\ Noted' /\ OrderKept'
    BY <1>1, <1>3, <1>4, <1>6, <1>7, QuietKeeps DEF Moves, Types, Base, Seatings
  <1>9. Jobs' /\ ToCome' /\ Launched'
    BY <1>1, <1>5, LoopKeepsJobs, LoopKeepsLaunched
  <1>10. DeliveredIsHeld'
    BY <1>1, <1>3, <1>4 DEF DeliveredIsHeld
  <1>11. ReachableProcess'
    BY <1>1, <1>3 DEF ReachableProcess
  <1>12. Alone'
    <2> SUFFICES ASSUME ~history'.doubled
                 PROVE  /\ \A u, v \in Workers, q \in Seats : Starting(u, q)' /\ Starting(v, q)' => u = v
                        /\ \A v \in Workers, q \in Seats : job'[v].at = "invoke" /\ Target(v)' = q => seat[q].ctl = NoCtl
      BY <1>1 DEF Alone
    <2>1. ~history.doubled /\ \A v \in Workers \ {w}, q \in Seats : Starting(v, q) => q # p
      BY <1>3 DEF Starting
    <2>2. \A v \in Workers \ {w} : job'[v] = job[v] /\ Target(v)' = Target(v)
      BY <1>6 DEF Moves, Target
    <2>3. job'[w].at # "invoke" /\ (job'[w].at = "start" => Target(w)' = p)
      BY <1>5, <1>6 DEF Moves, Target, p
    <2>4. \A v \in Workers \ {w}, q \in Seats : Starting(v, q)' => Starting(v, q)
      BY <2>2 DEF Starting
    <2>5. \A q \in Seats : Starting(w, q)' => q = p
      BY <2>3 DEF Starting
    <2>6. \A u, v \in Workers, q \in Seats : Starting(u, q)' /\ Starting(v, q)' => u = v
      BY <2>1, <2>4, <2>5 DEF Alone
    <2>7. \A v \in Workers, q \in Seats : job'[v].at = "invoke" /\ Target(v)' = q => seat[q].ctl = NoCtl
      BY <2>1, <2>2, <2>3 DEF Alone
    <2> QED
      BY <2>6, <2>7
  <1> QED
    BY <1>4, <1>7, <1>8, <1>9, <1>10, <1>11, <1>12 DEF Inv, Base, Tells, Reaches

LEMMA StartSeatStep ==
  ASSUME Inv, NEW w \in Workers, StartSeat(w)
  PROVE  Inv'
  <1> USE Facts
  <1> Base /\ Types /\ Jobs /\ Seatings /\ Numbers /\ Receipts /\ Noted /\ DeliveredIsHeld /\ OrderKept /\ Alone /\ ReachableProcess
    BY DEF Inv, Base, Tells, Reaches
  <1> DEFINE p == Target(w)
  <1>0. job[w].at = "start" /\ job[w].at \in Loop /\ p \in Seats
    BY TargetIsIn DEF StartSeat, Loop
  <1>1. UNCHANGED <<status, bound, row, passed, receipts, pending, proc, plan, crashes, exits>>
    BY DEF StartSeat, room, journal, bounds
  <1>2. /\ history' = [history EXCEPT !.doubled = history.doubled \/ seat[p].run # None]
        /\ seat' = [seat EXCEPT ![p].run = w]
    BY DEF StartSeat
  <1> HIDE DEF p
  <1>3. /\ history' \in [dropped : {history.dropped}, told : {history.told}, doubled : BOOLEAN]
        /\ history'.dropped = history.dropped /\ history'.told = history.told
        /\ history'.doubled <=> (history.doubled \/ seat[p].run # None)
    BY <1>2 DEF Types
  <1>4. /\ seat' \in [Seats -> SeatType] /\ seat'[p].run = w /\ \A q \in Seats : q # p => seat'[q] = seat[q]
        /\ \A q \in Seats : seat'[q].ctl = seat[q].ctl /\ seat'[q].notified = seat[q].notified
    BY <1>0, <1>2 DEF Types, SeatType
  <1>5. InLoop(w, "invoke", job[w].todo)
    BY <1>0, GoesOn DEF StartSeat, Loop
  <1>6. Moves(w, "invoke", job[w].todo)
    BY <1>5 DEF InLoop
  <1>7. Numbers' /\ passed' \subseteq Calls
    BY <1>0, <1>1, <1>6, NumbersKept
  <1>8. \A q \in Seats : seat'[q].run = None => seat'[q] = seat[q]
    BY <1>4
  <1>9. Types' /\ Seatings' /\ Shapes' /\ Noted' /\ OrderKept'
    BY <1>1, <1>3, <1>4, <1>6, <1>7, <1>8, QuietKeeps DEF Moves, Types
  <1>10. Jobs' /\ ToCome' /\ Launched' /\ Receipts'
    BY <1>1, <1>5, LoopKeepsJobs, LoopKeepsLaunched, ReceiptsWait
  <1>11. DeliveredIsHeld'
    BY <1>1, <1>3 DEF DeliveredIsHeld
  <1>12. ReachableProcess'
    BY <1>1, <1>3, <1>4 DEF ReachableProcess
  <1>13. Alone'
    <2> SUFFICES ASSUME ~history'.doubled
                 PROVE  /\ \A u, v \in Workers, q \in Seats : Starting(u, q)' /\ Starting(v, q)' => u = v
                        /\ \A v \in Workers, q \in Seats : job'[v].at = "invoke" /\ Target(v)' = q => seat'[q].ctl = NoCtl
      BY DEF Alone
    <2>1. ~history.doubled /\ seat[p].run = None
      BY <1>3
    <2>2. \A v \in Workers : Target(v)' = Target(v) /\ (v # w => job'[v] = job[v])
      BY <1>6 DEF Moves, Target
    <2>3. \A v \in Workers, q \in Seats : Starting(v, q)' => Starting(v, q)
      BY <1>0, <2>2 DEF Starting
    <2>4. seat[p].ctl = NoCtl
      BY <1>0, <2>1 DEF Seatings, Seated
    <2>5. \A v \in Workers, q \in Seats : job'[v].at = "invoke" /\ Target(v)' = q => seat[q].ctl = NoCtl
      BY <2>1, <2>2, <2>4 DEF Alone, p
    <2> QED
      BY <1>4, <2>1, <2>3, <2>5 DEF Alone
  <1> QED
    BY <1>7, <1>9, <1>10, <1>11, <1>12, <1>13 DEF Inv, Base, Tells, Reaches

(* A notify: told to the seat, and queued, typed, or lost on a process that ends. *)
Notified(w, p, m) ==
    /\ history' \in [dropped : SUBSET (Messages \X Seats), told : [Seats -> Seq(Messages)], doubled : {history.doubled}]
    /\ history.dropped \subseteq history'.dropped
    /\ \A q \in Seats : history'.told[q] = IF q = p THEN Append(history.told[q], m) ELSE history.told[q]
    /\ seat' \in [Seats -> SeatType] /\ pending' \in [Seats -> Seq(Messages)] /\ proc' \in [Procs -> ProcType]
    /\ \A q \in Seats : /\ seat'[q].run = seat[q].run /\ seat'[q].ctl = seat[q].ctl
                        /\ q # p => seat'[q] = seat[q] /\ pending'[q] = pending[q]
    /\ \A j \in Procs : /\ proc'[j].at = proc[j].at /\ proc'[j].stop = proc[j].stop /\ Shaped(proc'[j])
                        /\ j # seat[p].ctl => proc'[j] = proc[j]
    /\ \/ /\ seat[p].ctl = NoCtl /\ pending'[p] = Append(pending[p], m) /\ UNCHANGED <<seat, proc>>
       \/ /\ seat[p].ctl \in Procs /\ seat[p].ctl[2] = p /\ pending[p] = <<>> /\ UNCHANGED pending
          /\ seat'[p].notified = seat[p].notified \union {m}
          /\ \/ Turns(proc'[seat[p].ctl]) = Append(Turns(proc[seat[p].ctl]), m)
             \/ Turns(proc'[seat[p].ctl]) = Turns(proc[seat[p].ctl]) /\ <<m, p>> \in history'.dropped

LEMMA NotifyTells ==
  ASSUME Base, NEW w \in Workers, notify(w), NEW p, p = Target(w), NEW m \in Messages, m = Message(w),
         ~(m \in seat[p].notified \/ (seat[p].ctl = NoCtl /\ m \in ToSet(pending[p])))
  PROVE  Notified(w, p, m)
  <1> USE Facts
  <1> Types /\ Jobs /\ Seatings /\ Shapes
    BY DEF Base
  <1>0. job[w].at = "notify" /\ job[w].at \in Loop /\ p \in Seats /\ Seated(p)
    BY TargetIsIn DEF notify, Loop, Seatings
  <1> DEFINE k == seat[p].ctl
             lost == k # NoCtl /\ (proc[k].at # "up" \/ proc[k].stop)
  <1>1. /\ history' = [history EXCEPT !.told[p] = Append(history.told[p], m),
                          !.dropped = IF lost THEN history.dropped \union {<<m, p>>} ELSE history.dropped]
        /\ k = NoCtl => pending' = [pending EXCEPT ![p] = Append(pending[p], m)] /\ UNCHANGED <<seat, proc>>
        /\ k # NoCtl => /\ proc' = [proc EXCEPT ![k] = Write(proc[k], <<m>>)]
                        /\ seat' = [seat EXCEPT ![p].notified = seat[p].notified \union {m}]
                        /\ UNCHANGED pending
    BY DEF notify
  <1>2. /\ seat[p] \in SeatType /\ pending[p] \in Seq(Messages) /\ history.told[p] \in Seq(Messages)
        /\ Append(pending[p], m) \in Seq(Messages) /\ Append(history.told[p], m) \in Seq(Messages)
        /\ <<m>> \in Seq(Messages)
    BY <1>0, AppendProperties DEF Types
  <1>3. /\ history' \in [dropped : SUBSET (Messages \X Seats), told : [Seats -> Seq(Messages)], doubled : {history.doubled}]
        /\ history'.dropped = IF lost THEN history.dropped \union {<<m, p>>} ELSE history.dropped
        /\ \A q \in Seats : history'.told[q] = IF q = p THEN Append(history.told[q], m) ELSE history.told[q]
    <2> DEFINE gone == IF lost THEN history.dropped \union {<<m, p>>} ELSE history.dropped
               said == Append(history.told[p], m)
               told2 == [history.told EXCEPT ![p] = said]
    <2>1. gone \in SUBSET (Messages \X Seats) /\ said \in Seq(Messages)
      BY <1>0, <1>2 DEF Types
    <2>2. history' = [history EXCEPT !.told[p] = said, !.dropped = gone]
      BY <1>1
    <2> HIDE DEF gone, said, lost, k
    <2>3. /\ told2 \in [Seats -> Seq(Messages)] /\ told2[p] = said
          /\ \A q \in Seats : q # p => told2[q] = history.told[q]
      BY <1>0, <2>1 DEF Types
    <2>4. history' = [dropped |-> gone, told |-> told2, doubled |-> history.doubled]
      BY <2>2 DEF Types
    <2> HIDE DEF told2
    <2>5. /\ history' \in [dropped : SUBSET (Messages \X Seats), told : [Seats -> Seq(Messages)], doubled : {history.doubled}]
          /\ history'.dropped = gone
          /\ \A q \in Seats : history'.told[q] = IF q = p THEN said ELSE history.told[q]
      BY <2>1, <2>3, <2>4
    <2> QED
      BY <2>5 DEF gone, said
  <1>4. CASE k = NoCtl
    <2>1. UNCHANGED <<seat, proc>> /\ pending' \in [Seats -> Seq(Messages)] /\ pending'[p] = Append(pending[p], m)
          /\ \A q \in Seats : q # p => pending'[q] = pending[q]
      <3> DEFINE v == Append(pending[p], m)
      <3>1. pending' = [pending EXCEPT ![p] = v] /\ v \in Seq(Messages) /\ UNCHANGED <<seat, proc>>
        BY <1>1, <1>2, <1>4
      <3> HIDE DEF v
      <3>2. pending' \in [Seats -> Seq(Messages)] /\ pending'[p] = v /\ \A q \in Seats : q # p => pending'[q] = pending[q]
        BY <1>0, <3>1 DEF Types
      <3> QED
        BY <3>1, <3>2 DEF v
    <2> QED
      BY <1>3, <1>4, <2>1 DEF Notified, Types, Shapes
  <1>5. CASE k # NoCtl
    <2>1. k \in Procs /\ k[2] = p /\ pending[p] = <<>>
      BY <1>0, <1>5 DEF Seated, Procs
    <2>2. proc[k] \in ProcType /\ Shaped(proc[k]) /\ proc[k].at # None
      BY <1>0, <1>5, <2>1 DEF Types, Shapes, Seated
    <2> DEFINE q2 == Write(proc[k], <<m>>)
    <2>3. /\ q2 \in ProcType /\ q2.at = proc[k].at /\ q2.stop = proc[k].stop /\ Shaped(q2)
          /\ Turns(q2) = IF Takes(proc[k]) THEN Turns(proc[k]) \o <<m>> ELSE Turns(proc[k])
      BY <1>2, <2>2, Writes DEF Shaped
    <2>4. Turns(proc[k]) \in Seq(Messages)
      BY <2>2, ConcatProperties DEF Turns, ProcType
    <2>5. Turns(proc[k]) \o <<m>> = Append(Turns(proc[k]), m)
      BY <2>4, AppendIsConcat
    <2>6. proc' = [proc EXCEPT ![k] = q2]
      BY <1>1, <1>5
    <2> HIDE DEF q2
    <2>7. proc' \in [Procs -> ProcType] /\ proc'[k] = q2 /\ \A j \in Procs : j # k => proc'[j] = proc[j]
      BY <2>1, <2>3, <2>6 DEF Types
    <2>8. /\ seat' \in [Seats -> SeatType] /\ seat'[p].notified = seat[p].notified \union {m}
          /\ seat'[p].run = seat[p].run /\ seat'[p].ctl = seat[p].ctl /\ \A q \in Seats : q # p => seat'[q] = seat[q]
      <3> DEFINE v == seat[p].notified \union {m}
                 s2 == [seat[p] EXCEPT !.notified = v]
      <3>1. seat' = [seat EXCEPT ![p].notified = v]
        BY <1>1, <1>5
      <3>2. v \subseteq Messages
        BY <1>2 DEF SeatType
      <3> HIDE DEF v
      <3>3. s2 \in SeatType /\ s2.notified = v /\ s2.run = seat[p].run /\ s2.ctl = seat[p].ctl
        BY <1>2, <3>2 DEF SeatType
      <3>4. seat' = [seat EXCEPT ![p] = s2]
        BY <1>0, <3>1 DEF Types
      <3> HIDE DEF s2
      <3>5. seat' \in [Seats -> SeatType] /\ seat'[p] = s2 /\ \A q \in Seats : q # p => seat'[q] = seat[q]
        BY <1>0, <3>3, <3>4 DEF Types
      <3> QED
        BY <3>3, <3>5 DEF v
    <2>9. \/ Turns(proc'[k]) = Append(Turns(proc[k]), m)
          \/ Turns(proc'[k]) = Turns(proc[k]) /\ <<m, p>> \in history'.dropped
      BY <1>3, <1>5, <2>3, <2>5, <2>7 DEF Takes
    <2>10. \A j \in Procs : proc'[j].at = proc[j].at /\ proc'[j].stop = proc[j].stop /\ Shaped(proc'[j])
      BY <2>3, <2>7 DEF Shapes
    <2>11. UNCHANGED pending
      BY <1>1, <1>5
    <2> QED
      BY <1>3, <2>1, <2>7, <2>8, <2>9, <2>10, <2>11 DEF Notified, Types
  <1> QED
    BY <1>4, <1>5

LEMMA TurnsAre ==
  ASSUME Types, NEW k \in Procs
  PROVE  Turns(proc[k]) \in Seq(Messages)
  BY ConcatProperties DEF Types, ProcType, Turns

LEMMA Longer ==
  ASSUME NEW r, NEW s, NEW r2, NEW s2, NEW m \in Messages, r \in Seq(Messages), s \in Seq(Messages),
         IsSubSeq(r, s), s2 = Append(s, m), r2 = r \/ r2 = Append(r, m)
  PROVE  IsSubSeq(r2, s2)
  BY WithinLonger, BothLonger

LEMMA NotifiedOrders ==
  ASSUME Base, OrderKept, NEW w \in Workers, NEW p \in Seats, NEW m \in Messages, Notified(w, p, m)
  PROVE  OrderKept'
  <1> Types /\ Seatings
    BY DEF Base
  <1>1. \A q \in Seats : pending[q] \in Seq(Messages) /\ history.told[q] \in Seq(Messages) /\ IsSubSeq(pending[q], history.told[q])
    BY DEF Types, OrderKept, Queued
  <1>2. \A j \in Procs : j[2] \in Seats /\ Turns(proc[j]) \in Seq(Messages) /\ IsSubSeq(Turns(proc[j]), history.told[j[2]])
    BY Facts, TurnsAre DEF OrderKept, TurnsInOrder, Turns
  <1>t. history'.told[p] = Append(history.told[p], m) /\ \A q \in Seats : q # p => history'.told[q] = history.told[q]
    BY DEF Notified
  <1>3. ASSUME NEW q \in Seats PROVE IsSubSeq(pending'[q], history'.told[q])
    <2>1. CASE q # p
      BY <1>1, <2>1 DEF Notified
    <2>2. CASE q = p
      <3> DEFINE r == pending[q]
                 s == history.told[q]
                 r2 == pending'[q]
                 s2 == history'.told[q]
      <3>1. r \in Seq(Messages) /\ s \in Seq(Messages) /\ IsSubSeq(r, s) /\ s2 = Append(s, m)
        BY <1>1, <1>t, <2>2
      <3>2. r2 = r \/ r2 = Append(r, m)
        BY <2>2 DEF Notified
      <3> HIDE DEF r, s, r2, s2
      <3>3. IsSubSeq(r2, s2)
        BY <3>1, <3>2, Longer
      <3> QED
        BY <3>3 DEF r2, s2
    <2> QED
      BY <2>1, <2>2
  <1>4. ASSUME NEW j \in Procs PROVE IsSubSeq(Turns(proc'[j]), history'.told[j[2]])
    <2>1. CASE j[2] # p
      <3>1. Turns(proc'[j]) = Turns(proc[j])
        BY <2>1 DEF Notified
      <3>2. history'.told[j[2]] = history.told[j[2]]
        BY <1>2, <1>t, <2>1
      <3> QED
        BY <1>2, <3>1, <3>2
    <2>2. CASE j[2] = p
      <3> DEFINE r == Turns(proc[j])
                 s == history.told[p]
                 r2 == Turns(proc'[j])
                 s2 == history'.told[p]
      <3>1. r \in Seq(Messages) /\ s \in Seq(Messages) /\ IsSubSeq(r, s) /\ s2 = Append(s, m)
        BY <1>1, <1>2, <1>t, <2>2
      <3>2. r2 = r \/ r2 = Append(r, m)
        BY DEF Notified
      <3> HIDE DEF r, s, r2, s2
      <3>3. IsSubSeq(r2, s2)
        BY <3>1, <3>2, Longer
      <3>4. s2 = history'.told[j[2]]
        BY <2>2 DEF s2
      <3> QED
        BY <3>3, <3>4 DEF r2
    <2> QED
      BY <2>1, <2>2
  <1>5. Queued'
    BY <1>3 DEF Queued
  <1>6. TurnsInOrder'
    BY <1>4 DEF TurnsInOrder, Turns
  <1> QED
    BY <1>5, <1>6 DEF OrderKept

LEMMA NotifyStep ==
  ASSUME Inv, NEW w \in Workers, notify(w)
  PROVE  Inv'
  <1> USE Facts
  <1> Base /\ Types /\ Jobs /\ Seatings /\ Shapes /\ Numbers /\ Receipts /\ Noted /\ DeliveredIsHeld /\ OrderKept /\ Alone /\ ReachableProcess
    BY DEF Inv, Base, Tells, Reaches
  <1>p. PICK p \in Seats : p = Target(w) /\ p \in job[w].todo /\ (IsSay(w) => p \in Request[w].to)
    BY TargetIsIn DEF notify, Loop
  <1>m. PICK m \in Messages : m = Message(w)
    BY DEF Message, IsSay, Messages
  <1> DEFINE known == m \in seat[p].notified \/ (seat[p].ctl = NoCtl /\ m \in ToSet(pending[p]))
             new == [msg |-> w, seat |-> p, how |-> "delivered"]
  <1>0. job[w].at = "notify" /\ job[w].at \in Loop
    BY DEF notify, Loop
  <1>1. UNCHANGED <<status, bound, plan, crashes, exits>> /\ Receipt(w, p, "delivered") /\ NextTarget(w)
    BY <1>p DEF notify, room, bounds
  <1>2. known => UNCHANGED <<seat, pending, proc, history>>
    BY <1>p, <1>m DEF notify
  <1> HIDE DEF known, new
  <1>3. /\ Receipts' /\ receipts \subseteq receipts' /\ receipts' \subseteq ReceiptType /\ (IsSay(w) => Has(w, p)')
        /\ \A r \in receipts' : r \in receipts \/ r = new
        /\ row' = row /\ passed' \in {passed, passed \union Unnumbered}
    BY <1>0, <1>1, <1>p, ReceiptStep DEF new
  <1>4. PICK a \in {"dispatch", "done"}, t \in {{}, job[w].todo \ {p}} : InLoop(w, a, t)
    BY <1>0, <1>1, <1>p, ReceiptStep
  <1>5. Moves(w, a, t)
    BY <1>4 DEF InLoop
  <1>6. Numbers' /\ passed' \subseteq Calls
    BY <1>0, <1>3, <1>5, NumbersKept
  <1>7. \A v \in Workers : job'[v].at \in {"start", "invoke"} => job'[v] = job[v]
    BY <1>5 DEF Moves
  <1>8. \A r \in receipts' \ receipts : r = new /\ IsSay(w) /\ m = w /\ r.msg = w /\ r.seat = p
    BY <1>1, <1>3, <1>m DEF Receipt, journal, Message, new
  <1>9. CASE known
    <2>1. ~IsSay(w)
      <3> SUFFICES ASSUME IsSay(w) PROVE FALSE
        OBVIOUS
      <3>1. m = w /\ w \in Calls /\ w # Wake
        BY <1>m DEF Message, IsSay
      <3>2. Has(w, p)
        BY <1>9, <3>1 DEF known, Noted
      <3> QED
        BY <1>0, <1>p, <3>1, <3>2 DEF Receipts
    <2>2. receipts' = receipts
      BY <1>1, <2>1 DEF Receipt, journal
    <2>3. UNCHANGED <<seat, pending, proc, history>>
      BY <1>2, <1>9
    <2>4. history' \in [dropped : {history.dropped}, told : {history.told}, doubled : BOOLEAN]
      BY <2>3 DEF Types
    <2>5. Types' /\ Seatings' /\ Shapes' /\ Noted' /\ OrderKept'
      BY <1>1, <1>3, <1>5, <1>6, <2>3, <2>4, QuietKeeps DEF Moves, Types
    <2>6. Jobs' /\ ToCome' /\ Launched'
      BY <1>1, <1>4, <2>3, LoopKeepsJobs, LoopKeepsLaunched
    <2>7. DeliveredIsHeld'
      BY <2>2, <2>3 DEF DeliveredIsHeld
    <2>8. Alone' /\ ReachableProcess'
      BY <1>7, <2>3, AloneKept DEF ReachableProcess
    <2> QED
      BY <1>3, <1>6, <2>5, <2>6, <2>7, <2>8 DEF Inv, Base, Tells, Reaches
  <1>10. CASE ~known
    <2>1. Notified(w, p, m)
      BY <1>10, <1>p, <1>m, NotifyTells DEF known
    <2>2. OrderKept'
      BY <2>1, NotifiedOrders
    <2>3. Types'
      BY <1>1, <1>3, <1>5, <1>6, <2>1 DEF Types, Notified, Moves
    <2>4. Seatings'
      <3> SUFFICES ASSUME NEW q \in Seats PROVE Seated(q)'
        BY DEF Seatings
      <3>1. Seated(q) /\ Seated(p)
        BY DEF Seatings
      <3>2. \A j \in Procs : proc'[j].at = proc[j].at
        BY <2>1 DEF Notified
      <3>3. seat[q].ctl # NoCtl => seat[q].ctl \in Procs
        BY <3>1 DEF Seated, Procs
      <3>4. CASE q # p
        BY <2>1, <3>1, <3>2, <3>3, <3>4 DEF Notified, Seated
      <3>5. CASE q = p /\ seat[p].ctl = NoCtl
        BY <2>1, <3>1, <3>5 DEF Notified, Seated
      <3>6. CASE q = p /\ seat[p].ctl # NoCtl
        <4>1. seat[p].run # None /\ seat'[p].run = seat[p].run /\ seat'[p].ctl = seat[p].ctl /\ pending'[p] = <<>>
          BY <2>1, <3>1, <3>6 DEF Notified, Seated
        <4> QED
          BY <3>1, <3>2, <3>3, <3>6, <4>1 DEF Seated
      <3> QED
        BY <3>4, <3>5, <3>6
    <2>5. Shapes'
      BY <2>1 DEF Shapes, Notified
    <2>6. Jobs' /\ ToCome' /\ Launched'
      <3>1. \A j \in Procs : proc'[j].at # None => proc[j].at # None
        BY <2>1 DEF Notified
      <3> QED
        BY <1>1, <1>4, <3>1, LoopKeepsJobs, LoopKeepsLaunched
    <2>7. m # Wake => Has(m, p)'
      BY <1>3, <1>m DEF Message
    <2>8. Noted'
      <3>1. \A q, n : Has(n, q) => Has(n, q)'
        BY <1>3 DEF Has
      <3>2. \A q \in Seats : pending[q] \in Seq(Messages)
        BY DEF Types
      <3>3. \A q \in Seats : ToSet(pending'[q]) \union seat'[q].notified \subseteq
                ToSet(pending[q]) \union seat[q].notified \union (IF q = p THEN {m} ELSE {})
        <4> SUFFICES ASSUME NEW q \in Seats
                     PROVE  ToSet(pending'[q]) \union seat'[q].notified \subseteq
                                ToSet(pending[q]) \union seat[q].notified \union (IF q = p THEN {m} ELSE {})
          OBVIOUS
        <4>1. ToSet(Append(pending[q], m)) = ToSet(pending[q]) \union {m}
          BY <3>2, Ranges
        <4>2. pending'[q] \in {pending[q], Append(pending[q], m)} /\ (q # p => pending'[q] = pending[q])
          BY <2>1 DEF Notified
        <4>3. seat'[q].notified \in {seat[q].notified, seat[q].notified \union {m}} /\ (q # p => seat'[q] = seat[q])
          BY <2>1 DEF Notified
        <4>4. CASE q = p
          BY <4>1, <4>2, <4>3, <4>4
        <4>5. CASE q # p
          BY <4>2, <4>3, <4>5
        <4> QED
          BY <4>4, <4>5
      <3> QED
        BY <2>7, <3>1, <3>3 DEF Noted
    <2>9. DeliveredIsHeld'
      <3>1. \A j \in Procs : Turns(proc[j]) \in Seq(Messages) /\ ToSet(Turns(proc[j])) \subseteq ToSet(Turns(proc'[j]))
        <4> SUFFICES ASSUME NEW j \in Procs
                     PROVE  Turns(proc[j]) \in Seq(Messages) /\ ToSet(Turns(proc[j])) \subseteq ToSet(Turns(proc'[j]))
          OBVIOUS
        <4>1. Turns(proc[j]) \in Seq(Messages)
          BY TurnsAre
        <4>2. ToSet(Append(Turns(proc[j]), m)) = ToSet(Turns(proc[j])) \union {m}
          BY <4>1, Ranges
        <4>3. Turns(proc'[j]) \in {Turns(proc[j]), Append(Turns(proc[j]), m)}
          BY <2>1 DEF Notified
        <4> QED
          BY <4>1, <4>2, <4>3
      <3>2. \A q \in Seats : ToSet(pending[q]) \subseteq ToSet(pending'[q])
        <4> SUFFICES ASSUME NEW q \in Seats PROVE ToSet(pending[q]) \subseteq ToSet(pending'[q])
          OBVIOUS
        <4>1. pending[q] \in Seq(Messages)
          BY DEF Types
        <4>2. ToSet(Append(pending[q], m)) = ToSet(pending[q]) \union {m}
          BY <4>1, Ranges
        <4>3. pending'[q] \in {pending[q], Append(pending[q], m)}
          BY <2>1 DEF Notified
        <4> QED
          BY <4>2, <4>3
      <3>3. \A j \in Procs : proc[j].at # None => proc'[j].at # None
        BY <2>1 DEF Notified
      <3>4. Holds(m, p)'
        <4>1. CASE seat[p].ctl = NoCtl
          <5>1. pending[p] \in Seq(Messages) /\ pending'[p] = Append(pending[p], m)
            BY <2>1, <4>1 DEF Notified, Types
          <5>2. m \in ToSet(pending'[p])
            BY <5>1, Ranges
          <5> QED
            BY <5>2 DEF Holds
        <4>2. CASE seat[p].ctl # NoCtl
          <5>1. PICK k \in Procs : k = seat[p].ctl /\ k[2] = p
            BY <2>1, <4>2 DEF Notified
          <5>2. CASE Turns(proc'[k]) = Append(Turns(proc[k]), m)
            <6>1. m \in ToSet(Turns(proc'[k])) /\ k = <<k[1], p>> /\ k[1] \in Workers
              BY <3>1, <5>1, <5>2, Ranges
            <6> QED
              BY <6>1 DEF Holds
          <5>3. CASE <<m, p>> \in history'.dropped
            BY <5>3 DEF Holds
          <5> QED
            BY <2>1, <4>2, <5>1, <5>2, <5>3 DEF Notified
        <4> QED
          BY <4>1, <4>2
      <3>5. \A q \in Seats : \A n \in ToSet(pending[q]) : Holds(n, q)'
        BY <3>2 DEF Holds
      <3>6. \A v \in Workers, q \in Seats : \A n \in ToSet(Turns(proc[<<v, q>>])) : Holds(n, q)'
        BY <3>1 DEF Holds
      <3>7. \A r \in receipts' \ receipts : Holds(r.msg, r.seat)'
        BY <1>8, <3>4
      <3>8. history.dropped \subseteq history'.dropped
        BY <2>1 DEF Notified
      <3> QED
        BY <3>3, <3>5, <3>6, <3>7, <3>8, HeldKept
    <2>10. history'.doubled = history.doubled /\ \A q \in Seats : seat'[q].ctl = seat[q].ctl
      BY <2>1 DEF Notified
    <2>11. Alone'
      BY <1>7, <2>10, AloneKept
    <2>12. ReachableProcess'
      BY <2>1, <2>10 DEF ReachableProcess, Notified
    <2> QED
      BY <1>3, <1>6, <2>2, <2>3, <2>4, <2>5, <2>6, <2>8, <2>9, <2>11, <2>12 DEF Inv, Base, Tells, Reaches
  <1> QED
    BY <1>9, <1>10

-----------------------------------------------------------------------------
(* Seats that are cleared *)

(* The records and the queues of ps go, and their processes end or are told to. *)
Cleared(ps) ==
    /\ seat' \in [Seats -> SeatType] /\ pending' \in [Seats -> Seq(Messages)] /\ proc' \in [Procs -> ProcType]
    /\ \A q \in Seats : IF q \in ps THEN seat'[q] = NoSeat /\ pending'[q] = <<>>
                        ELSE seat'[q] = seat[q] /\ pending'[q] = pending[q]
    /\ \A j \in Procs :
          /\ proc'[j].got = proc[j].got /\ proc'[j].queue = proc[j].queue /\ Shaped(proc'[j])
          /\ proc'[j].at = None <=> proc[j].at = None
          /\ Takes(proc'[j]) => Takes(proc[j]) /\ (j[2] \in ps => seat[j[2]].ctl # j)
    /\ history' = [history EXCEPT !.dropped = history.dropped \union Lost(ps)]

LEMMA LostIs ==
  ASSUME Types, NEW ps, ps \subseteq Seats
  PROVE  Lost(ps) \subseteq Messages \X Seats /\ \A q \in ps : \A m \in ToSet(pending[q]) : <<m, q>> \in Lost(ps)
  <1>1. \A q \in Seats : ToSet(pending[q]) \subseteq Messages
    BY Ranges DEF Types
  <1> QED
    BY <1>1 DEF Lost

LEMMA RevokeClears ==
  ASSUME Base, NEW ps, ps \subseteq Seats, revoke(ps)
  PROVE  Cleared(ps)
  <1> USE Facts
  <1> Types /\ Seatings /\ Shapes
    BY DEF Base
  <1>1. /\ seat' \in [Seats -> SeatType]
        /\ \A q \in Seats : seat'[q] = IF q \in ps THEN NoSeat ELSE seat[q]
    BY DEF revoke, Types
  <1>2. /\ pending' \in [Seats -> Seq(Messages)]
        /\ \A q \in Seats : pending'[q] = IF q \in ps THEN <<>> ELSE pending[q]
    <2>1. <<>> \in Seq(Messages)
      BY EmptySeq
    <2> QED
      BY <2>1 DEF revoke, Types
  <1>3. history' = [history EXCEPT !.dropped = history.dropped \union Lost(ps)]
    BY DEF revoke
  <1>4. ASSUME NEW j \in Procs
        PROVE  /\ proc'[j] \in ProcType /\ proc'[j].got = proc[j].got /\ proc'[j].queue = proc[j].queue /\ Shaped(proc'[j])
               /\ proc'[j].at = None <=> proc[j].at = None
               /\ Takes(proc'[j]) => Takes(proc[j]) /\ (j[2] \in ps => seat[j[2]].ctl # j)
    <2>1. proc[j] \in ProcType /\ Shaped(proc[j])
      BY DEF Types, Shapes
    <2>2. CASE j \in Controllers(ps)
      <3>1. PICK q \in ps : seat[q].ctl = j
        BY <2>2 DEF Controllers
      <3>2. proc[j].at # None
        BY <3>1 DEF Seatings, Seated
      <3>3. proc'[j] = [proc[j] EXCEPT !.stop = TRUE]
        BY <2>2 DEF revoke
      <3>4. /\ proc'[j] \in ProcType /\ proc'[j].got = proc[j].got /\ proc'[j].queue = proc[j].queue
            /\ proc'[j].at = proc[j].at /\ proc'[j].busy = proc[j].busy /\ proc'[j].stop
        BY <2>1, <3>3 DEF ProcType
      <3> QED
        BY <2>1, <3>2, <3>4 DEF Shaped, Takes
    <2>3. CASE j \notin Controllers(ps)
      <3>1. proc'[j] = proc[j]
        BY <2>3 DEF revoke
      <3>2. j[2] \in ps => seat[j[2]].ctl # j
        BY <2>3 DEF Controllers
      <3> QED
        BY <2>1, <3>1, <3>2
    <2> QED
      BY <2>2, <2>3
  <1>5. proc' \in [Procs -> ProcType]
    <2>1. DOMAIN proc' = Procs /\ proc' = [j \in Procs |-> proc'[j]]
      BY DEF revoke
    <2> QED
      BY <1>4, <2>1
  <1> QED
    BY <1>1, <1>2, <1>3, <1>4, <1>5 DEF Cleared

LEMMA ShellClears ==
  ASSUME Base, NEW k \in Procs, handleShellComplete(k)
  PROVE  Cleared({k[2]})
  <1> USE Facts
  <1> Types /\ Seatings /\ Shapes
    BY DEF Base
  <1>p. PICK p \in Seats : p = k[2]
    OBVIOUS
  <1>0. <<>> \in Seq(Messages) /\ proc[k].at = "exited"
    BY EmptySeq DEF handleShellComplete
  <1>1. seat' = [seat EXCEPT ![p] = NoSeat] /\ pending' = [pending EXCEPT ![p] = <<>>]
    BY <1>p DEF handleShellComplete
  <1>2. /\ seat' \in [Seats -> SeatType] /\ pending' \in [Seats -> Seq(Messages)]
        /\ \A q \in Seats : IF q \in {p} THEN seat'[q] = NoSeat /\ pending'[q] = <<>>
                            ELSE seat'[q] = seat[q] /\ pending'[q] = pending[q]
    BY <1>0, <1>1 DEF Types
  <1>3. history' = [history EXCEPT !.dropped = history.dropped \union Lost({p})]
    BY <1>p DEF handleShellComplete
  <1>q. proc' = [j \in Procs |->
             IF j = k THEN [proc[j] EXCEPT !.at = "gone"]
             ELSE IF j = seat[p].ctl THEN [proc[j] EXCEPT !.stop = TRUE] ELSE proc[j]]
    BY <1>p DEF handleShellComplete
  <1>4. ASSUME NEW j \in Procs
        PROVE  /\ proc'[j] \in ProcType /\ proc'[j].got = proc[j].got /\ proc'[j].queue = proc[j].queue /\ Shaped(proc'[j])
               /\ proc'[j].at = None <=> proc[j].at = None
               /\ Takes(proc'[j]) => Takes(proc[j]) /\ (j[2] \in {p} => seat[j[2]].ctl # j)
    <2>1. proc[j] \in ProcType /\ Shaped(proc[j])
      BY DEF Types, Shapes
    <2>2. CASE j = k
      <3>1. proc'[j] = [proc[j] EXCEPT !.at = "gone"] /\ proc[j].at # None
        BY <1>0, <1>q, <2>2 DEF None
      <3>2. /\ proc'[j] \in ProcType /\ proc'[j].got = proc[j].got /\ proc'[j].queue = proc[j].queue
            /\ proc'[j].at = "gone" /\ proc'[j].busy = proc[j].busy
        BY <2>1, <3>1 DEF ProcType
      <3> QED
        BY <2>1, <3>1, <3>2 DEF Shaped, Takes, None
    <2>3. CASE j # k /\ j = seat[p].ctl
      <3>2. proc[j].at # None
        BY <2>3 DEF Seatings, Seated
      <3>3. proc'[j] = [proc[j] EXCEPT !.stop = TRUE]
        BY <1>q, <2>3
      <3>4. /\ proc'[j] \in ProcType /\ proc'[j].got = proc[j].got /\ proc'[j].queue = proc[j].queue
            /\ proc'[j].at = proc[j].at /\ proc'[j].busy = proc[j].busy /\ proc'[j].stop
        BY <2>1, <3>3 DEF ProcType
      <3> QED
        BY <2>1, <3>2, <3>4 DEF Shaped, Takes
    <2>4. CASE j # k /\ j # seat[p].ctl
      <3>1. proc'[j] = proc[j]
        BY <1>q, <2>4
      <3> QED
        BY <2>1, <2>4, <3>1
    <2> QED
      BY <2>2, <2>3, <2>4
  <1>5. proc' \in [Procs -> ProcType]
    <2>1. DOMAIN proc' = Procs /\ proc' = [j \in Procs |-> proc'[j]]
      BY <1>q
    <2> QED
      BY <1>4, <2>1
  <1> QED
    BY <1>p, <1>2, <1>3, <1>4, <1>5 DEF Cleared

LEMMA ClearedKeeps ==
  ASSUME Base, Noted, DeliveredIsHeld, OrderKept, Reaches, NEW ps, ps \subseteq Seats, Cleared(ps),
         UNCHANGED <<status, bound, row, plan, crashes, exits>>,
         receipts \subseteq receipts', receipts' \subseteq ReceiptType, passed' \subseteq Calls,
         \A r \in receipts' \ receipts : r.how # "delivered",
         job' \in [Workers -> JobType],
         \A v \in Workers : job'[v].at \in {"start", "invoke"} => job'[v] = job[v]
  PROVE  /\ Types' /\ Seatings' /\ Shapes' /\ Noted' /\ DeliveredIsHeld' /\ OrderKept' /\ Reaches'
         /\ \A j \in Procs : proc'[j].at # None => proc[j].at # None
  <1> USE Facts
  <1> Types /\ Seatings /\ Shapes /\ Queued /\ TurnsInOrder /\ Alone /\ ReachableProcess
    BY DEF Base, OrderKept, Reaches
  <1>0. /\ history' \in [dropped : SUBSET (Messages \X Seats), told : {history.told}, doubled : {history.doubled}]
        /\ history'.dropped = history.dropped \union Lost(ps) /\ history'.told = history.told
        /\ history'.doubled = history.doubled
    BY LostIs DEF Cleared, Types
  <1>1. Types'
    BY <1>0 DEF Types, Cleared
  <1>2. \A j \in Procs : proc'[j].at = None <=> proc[j].at = None
    BY DEF Cleared
  <1>3. Seatings'
    <2> SUFFICES ASSUME NEW q \in Seats PROVE Seated(q)'
      BY DEF Seatings
    <2>1. Seated(q)
      BY DEF Seatings
    <2>2. CASE q \in ps
      <3>1. seat'[q] = NoSeat
        BY <2>2 DEF Cleared
      <3> QED
        BY <3>1 DEF Seated
    <2>3. CASE q \notin ps
      <3>1. seat'[q] = seat[q] /\ pending'[q] = pending[q]
        BY <2>3 DEF Cleared
      <3>2. seat[q].ctl # NoCtl => seat[q].ctl \in Procs
        BY <2>1 DEF Seated, Procs
      <3> QED
        BY <1>2, <2>1, <3>1, <3>2 DEF Seated
    <2> QED
      BY <2>2, <2>3
  <1>4. Shapes'
    BY DEF Shapes, Cleared
  <1>5. Noted'
    <2>1. \A q \in Seats : ToSet(pending'[q]) \union seat'[q].notified \subseteq ToSet(pending[q]) \union seat[q].notified
      <3>1. ToSet(<<>>) = {}
        BY DEF ToSet
      <3> QED
        BY <3>1 DEF Cleared
    <2> QED
      BY <2>1, NotedKept
  <1>t. \A j \in Procs : Turns(proc'[j]) = Turns(proc[j])
    BY DEF Cleared, Turns
  <1>6. DeliveredIsHeld'
    <2>1. \A q \in Seats : \A m \in ToSet(pending[q]) : Holds(m, q)'
      <3> SUFFICES ASSUME NEW q \in Seats, NEW m \in ToSet(pending[q]) PROVE Holds(m, q)'
        OBVIOUS
      <3>1. CASE q \in ps
        BY <1>0, <3>1, LostIs DEF Holds
      <3>2. CASE q \notin ps
        BY <3>2 DEF Holds, Cleared
      <3> QED
        BY <3>1, <3>2
    <2>2. \A v \in Workers, q \in Seats : \A m \in ToSet(Turns(proc[<<v, q>>])) : Holds(m, q)'
      BY <1>t DEF Holds
    <2> QED
      BY <1>0, <1>2, <2>1, <2>2, HeldKept
  <1>7. OrderKept'
    <2>1. Queued'
      <3> SUFFICES ASSUME NEW q \in Seats PROVE IsSubSeq(pending'[q], history'.told[q])
        BY DEF Queued
      <3>1. history.told[q] \in Seq(Messages) /\ IsSubSeq(pending[q], history.told[q])
        BY DEF Types, Queued
      <3>2. IsSubSeq(<<>>, history.told[q])
        BY <3>1, EmptyWithin
      <3>3. pending'[q] = <<>> \/ pending'[q] = pending[q]
        BY DEF Cleared
      <3> QED
        BY <1>0, <3>1, <3>2, <3>3
    <2>2. TurnsInOrder'
      BY <1>0, <1>t DEF TurnsInOrder, Turns
    <2> QED
      BY <2>1, <2>2 DEF OrderKept
  <1>8. Alone'
    <2>1. \A q \in Seats : seat'[q].ctl \in {seat[q].ctl, NoCtl}
      BY DEF Cleared
    <2> QED
      BY <1>0, <2>1, AloneKept
  <1>9. ReachableProcess'
    <2> SUFFICES ASSUME ~history'.doubled, NEW j \in Procs, Takes(proc'[j]) PROVE seat'[j[2]].ctl = j
      BY DEF ReachableProcess, Takes
    <2>1. Takes(proc[j]) /\ (j[2] \in ps => seat[j[2]].ctl # j) /\ j[2] \in Seats
      BY DEF Cleared
    <2>2. seat[j[2]].ctl = j
      BY <1>0, <2>1 DEF ReachableProcess, Takes
    <2> QED
      BY <2>1, <2>2 DEF Cleared
  <1> QED
    BY <1>1, <1>2, <1>3, <1>4, <1>5, <1>6, <1>7, <1>8, <1>9 DEF Reaches

LEMMA RevokeAllStep ==
  ASSUME Inv, NEW c \in Calls, RevokeAll(c)
  PROVE  Inv'
  <1> USE Facts
  <1> Base /\ Types /\ Jobs /\ Seatings /\ Launched /\ ToCome /\ Numbers /\ Receipts /\ Noted /\ DeliveredIsHeld /\ OrderKept /\ Reaches
    BY DEF Inv, Base, Tells
  <1>0. job[c].at = "revoke" /\ c \in Workers /\ UNCHANGED <<status, bound, row, passed, receipts, plan, crashes, exits>>
    BY DEF RevokeAll, room, journal, bounds
  <1> DEFINE told == Controllers(Registered)
  <1>1. told \subseteq Procs /\ Registered \subseteq Seats
    BY DEF Controllers, Registered, Types, SeatType
  <1>2. job' = [job EXCEPT ![c] = [at |-> "exits", todo |-> told]] /\ "exits" \in Labels
    BY DEF RevokeAll, Labels
  <1> HIDE DEF told
  <1>3. Moves(c, "exits", told)
    BY <1>0, <1>1, <1>2, SetMoves
  <1>4. Cleared(Registered)
    BY <1>1, RevokeClears DEF RevokeAll
  <1>5. \A v \in Workers : job'[v].at \in {"start", "invoke"} => job'[v] = job[v]
    BY <1>3 DEF Moves
  <1>6. Numbers' /\ passed' \subseteq Calls
    BY <1>0, <1>3, NumbersKept
  <1>7. /\ Types' /\ Seatings' /\ Shapes' /\ Noted' /\ DeliveredIsHeld' /\ OrderKept' /\ Reaches'
        /\ \A j \in Procs : proc'[j].at # None => proc[j].at # None
    BY <1>0, <1>1, <1>3, <1>4, <1>5, <1>6, ClearedKeeps DEF Moves, Types
  <1>8. ~IsSay(c)
    BY <1>0, NotSay DEF Numbering, Loop
  <1>9. Jobs'
    <2>1. Job(c)'
      BY <1>1, <1>3, <1>8 DEF Job, Moves, Loop, IsSay
    <2> QED
      BY <1>0, <1>3, <2>1, JobsKept
  <1>10. Launched'
    <2> SUFFICES ASSUME NEW v \in Workers, NEW p \in Seats, proc'[<<v, p>>].at # None PROVE Past(v, p)'
      BY DEF Launched
    <2>1. Past(v, p) /\ v # c
      BY <1>0, <1>7 DEF Launched, Past, Loop
    <2> QED
      BY <1>0, <1>3, <2>1 DEF Past, Moves
  <1>11. ToCome'
    BY <1>0, <1>3 DEF ToCome, Moves
  <1>12. Receipts'
    <2>1. \A r \in receipts : r.msg # c /\ r.msg \in Workers
      BY <1>8 DEF Receipts, Types, ReceiptType
    <2>2. \A d \in Calls : IsSay(d) => job'[d] = job[d]
      BY <1>3, <1>8 DEF Moves
    <2> QED
      BY <1>0, <1>3, <2>1, <2>2 DEF Receipts, Has, IsSay, Moves
  <1> QED
    BY <1>6, <1>7, <1>9, <1>10, <1>11, <1>12 DEF Inv, Base, Tells

LEMMA ShellStep ==
  ASSUME Inv, NEW k \in Procs, handleShellComplete(k)
  PROVE  Inv'
  <1> USE Facts
  <1> Base /\ Types /\ Jobs /\ Launched /\ ToCome /\ Numbers /\ Receipts /\ Noted /\ DeliveredIsHeld /\ OrderKept /\ Reaches
    BY DEF Inv, Base, Tells
  <1>0. UNCHANGED <<status, bound, row, passed, receipts, job, plan, crashes, exits>>
    BY DEF handleShellComplete, room, journal, bounds
  <1>1. Cleared({k[2]})
    BY ShellClears
  <1>2. /\ Types' /\ Seatings' /\ Shapes' /\ Noted' /\ DeliveredIsHeld' /\ OrderKept' /\ Reaches'
        /\ \A j \in Procs : proc'[j].at # None => proc[j].at # None
    <2> DEFINE ps == {k[2]}
    <2>1. ps \subseteq Seats /\ Cleared(ps)
      BY <1>1
    <2> HIDE DEF ps
    <2>2. /\ receipts \subseteq receipts' /\ receipts' \subseteq ReceiptType /\ passed' \subseteq Calls
          /\ \A r \in receipts' \ receipts : r.how # "delivered"
          /\ job' \in [Workers -> JobType]
          /\ \A v \in Workers : job'[v].at \in {"start", "invoke"} => job'[v] = job[v]
      BY <1>0 DEF Types
    <2> QED
      BY <1>0, <2>1, <2>2, ClearedKeeps
  <1>3. Jobs' /\ ToCome' /\ Numbers' /\ Receipts'
    BY <1>0 DEF Jobs, Job, IsSay, ToCome, Numbers, Unnumbered, Receipts, Has
  <1>4. Launched'
    BY <1>0, <1>2 DEF Launched, Past
  <1> QED
    BY <1>2, <1>3, <1>4 DEF Inv, Base, Tells

LEMMA InvokeFails ==
  ASSUME Inv, NEW w \in Workers, job[w].at = "invoke", NEW p, p = Target(w), revoke({p}),
         \/ Receipt(w, p, "failed") /\ NextTarget(w)
         \/ UNCHANGED journal /\ Goto(w, "done"),
         UNCHANGED <<room, bounds>>
  PROVE  Inv'
  <1> USE Facts
  <1> Base /\ Types /\ Jobs /\ Numbers /\ Receipts /\ Noted /\ DeliveredIsHeld /\ OrderKept /\ Reaches
    BY DEF Inv, Base, Tells
  <1>0. job[w].at \in Loop /\ p \in Seats /\ UNCHANGED <<status, bound, plan, crashes, exits>>
    BY TargetIsIn DEF Loop, room, bounds
  <1>1. /\ Receipts' /\ receipts \subseteq receipts' /\ receipts' \subseteq ReceiptType
        /\ \A r \in receipts' \ receipts : r.how # "delivered"
        /\ row' = row /\ passed' \in {passed, passed \union Unnumbered}
        /\ \E a \in {"dispatch", "done"}, t \in {{}, job[w].todo, job[w].todo \ {p}} : InLoop(w, a, t)
    <2>1. CASE Receipt(w, p, "failed") /\ NextTarget(w)
      <3>2. PICK a \in {"dispatch", "done"}, t \in {{}, job[w].todo \ {p}} : InLoop(w, a, t)
        BY <1>0, <2>1, ReceiptStep
      <3>3. /\ Receipts' /\ receipts \subseteq receipts' /\ receipts' \subseteq ReceiptType
            /\ \A r \in receipts' : r \in receipts \/ r = [msg |-> w, seat |-> p, how |-> "failed"]
            /\ row' = row /\ passed' \in {passed, passed \union Unnumbered}
        BY <1>0, <2>1, ReceiptStep
      <3>4. \A r \in receipts' \ receipts : r.how # "delivered"
        BY <3>3
      <3>5. \E b \in {"dispatch", "done"}, u \in {{}, job[w].todo, job[w].todo \ {p}} : InLoop(w, b, u)
        BY <3>2
      <3> QED
        BY <3>3, <3>4, <3>5
    <2>2. CASE UNCHANGED journal /\ Goto(w, "done")
      <3>2. InLoop(w, "done", job[w].todo)
        BY <1>0, <2>2, GoesOn
      <3>3. Receipts' /\ UNCHANGED <<receipts, row, passed>> /\ receipts \subseteq ReceiptType
        BY <2>2, <3>2, ReceiptsWait DEF journal, Types
      <3> QED
        BY <3>2, <3>3
    <2> QED
      BY <2>1, <2>2
  <1>2. PICK a \in {"dispatch", "done"}, t \in {{}, job[w].todo, job[w].todo \ {p}} : InLoop(w, a, t)
    BY <1>1
  <1>3. Moves(w, a, t)
    BY <1>2 DEF InLoop
  <1>4. Numbers' /\ passed' \subseteq Calls
    BY <1>1, <1>3, NumbersKept
  <1>5. \A v \in Workers : job'[v].at \in {"start", "invoke"} => job'[v] = job[v]
    BY <1>3 DEF Moves
  <1>6. Cleared({p})
    BY <1>0, RevokeClears
  <1>7. /\ Types' /\ Seatings' /\ Shapes' /\ Noted' /\ DeliveredIsHeld' /\ OrderKept' /\ Reaches'
        /\ \A j \in Procs : proc'[j].at # None => proc[j].at # None
    BY <1>0, <1>1, <1>3, <1>4, <1>5, <1>6, ClearedKeeps DEF Moves
  <1>8. Jobs' /\ ToCome' /\ Launched'
    BY <1>0, <1>2, <1>7, LoopKeepsJobs, LoopKeepsLaunched
  <1> QED
    BY <1>1, <1>4, <1>7, <1>8 DEF Inv, Base, Tells

-----------------------------------------------------------------------------
(* The processes *)

(* A step of a process or of the hub that leaves the calls alone. *)
LEMMA CallsRest ==
  ASSUME Inv, UNCHANGED <<status, bound, row, passed, receipts, job, plan, crashes>>,
         \A j \in Procs : proc'[j].at # None => proc[j].at # None
  PROVE  Jobs' /\ ToCome' /\ Numbers' /\ Receipts' /\ Launched'
  <1> Jobs /\ Launched /\ ToCome /\ Numbers /\ Receipts
    BY DEF Inv, Base, Tells
  <1>1. Jobs' /\ ToCome' /\ Numbers' /\ Receipts'
    BY DEF Jobs, Job, IsSay, ToCome, Numbers, Unnumbered, Receipts, Has
  <1>2. Launched'
    BY Facts DEF Launched, Past
  <1> QED
    BY <1>1, <1>2

LEMMA IdleStep ==
  ASSUME Inv, NEW k \in Procs, PtyIdle(k)
  PROVE  Inv'
  <1> USE Facts
  <1> Base /\ Types /\ Seatings /\ Shapes /\ Noted /\ DeliveredIsHeld /\ Queued /\ TurnsInOrder /\ Alone /\ ReachableProcess
    BY DEF Inv, Base, Tells, OrderKept, Reaches
  <1>0. /\ proc[k].busy /\ proc[k].at = "up" /\ proc[k] \in ProcType
        /\ UNCHANGED <<status, bound, row, passed, receipts, seat, pending, job, plan, crashes, exits, history>>
    BY DEF PtyIdle, room, journal, bounds, Types
  <1> DEFINE q == FlushNext(proc[k])
  <1>1. proc' = [proc EXCEPT ![k] = q]
    BY DEF PtyIdle
  <1>2. /\ q \in ProcType /\ q.at = proc[k].at /\ q.stop = proc[k].stop /\ (~q.busy => q.queue = <<>>)
        /\ Turns(q) = Turns(proc[k])
    BY <1>0, Flushes
  <1> HIDE DEF q
  <1>3. proc' \in [Procs -> ProcType] /\ proc'[k] = q /\ \A j \in Procs : j # k => proc'[j] = proc[j]
    BY <1>1, <1>2 DEF Types
  <1>4. \A j \in Procs : proc'[j].at = proc[j].at /\ proc'[j].stop = proc[j].stop /\ Turns(proc'[j]) = Turns(proc[j])
    BY <1>2, <1>3
  <1>5. Types'
    BY <1>0, <1>3 DEF Types
  <1>6. Seatings'
    <2>1. \A p \in Seats : seat[p].ctl # NoCtl => seat[p].ctl \in Procs
      BY DEF Seatings, Seated, Procs
    <2> QED
      BY <1>0, <1>4, <2>1 DEF Seatings, Seated
  <1>7. Shapes'
    BY <1>0, <1>2, <1>3 DEF Shapes, Shaped, None
  <1>8. Noted' /\ Queued' /\ Alone'
    BY <1>0 DEF Noted, Has, Queued, Alone, Starting, Target
  <1>9. DeliveredIsHeld'
    <2>1. \A p \in Seats : \A m \in ToSet(pending[p]) : Holds(m, p)'
      BY <1>0 DEF Holds
    <2>2. \A v \in Workers, p \in Seats : \A m \in ToSet(Turns(proc[<<v, p>>])) : Holds(m, p)'
      BY <1>4 DEF Holds
    <2> QED
      BY <1>0, <1>4, <2>1, <2>2, HeldKept
  <1>10. TurnsInOrder'
    BY <1>0, <1>4 DEF TurnsInOrder, Turns
  <1>11. ReachableProcess'
    BY <1>0, <1>4 DEF ReachableProcess
  <1>12. Jobs' /\ ToCome' /\ Numbers' /\ Receipts' /\ Launched'
    BY <1>0, <1>4, CallsRest
  <1> QED
    BY <1>5, <1>6, <1>7, <1>8, <1>9, <1>10, <1>11, <1>12 DEF Inv, Base, Tells, OrderKept, Reaches

(* What a process has not been given goes with it. *)
LEMMA DropQueue ==
  ASSUME NEW q \in ProcType, NEW q2, q2.got = q.got, q2.queue = <<>>, NEW t \in Seq(Messages), IsSubSeq(Turns(q), t)
  PROVE  /\ IsSubSeq(Turns(q2), t)
         /\ ToSet(Turns(q)) = ToSet(Turns(q2)) \union ToSet(q.queue) /\ ToSet(q.queue) \subseteq Messages
  <1>1. q.got \in Seq(Messages) /\ q.queue \in Seq(Messages)
    BY DEF ProcType
  <1>2. Turns(q2) = q.got
    BY <1>1, ConcatEmptySeq DEF Turns
  <1>3. IsSubSeq(q.got, t)
    <2> DEFINE a == q.got
               b == q.queue
    <2>1. a \in Seq(Messages) /\ b \in Seq(Messages) /\ IsSubSeq(a \o b, t)
      BY <1>1 DEF Turns
    <2> HIDE DEF a, b
    <2>2. IsSubSeq(a, t)
      BY <2>1, PartWithin
    <2> QED
      BY <2>2 DEF a
  <1>4. ToSet(q.got \o q.queue) = ToSet(q.got) \union ToSet(q.queue) /\ ToSet(q.queue) \subseteq Messages
    BY <1>1, Ranges
  <1> QED
    BY <1>2, <1>3, <1>4 DEF Turns

LEMMA ExitStep ==
  ASSUME Inv, NEW k \in Procs, PtyExits(k)
  PROVE  Inv'
  <1> USE Facts
  <1> Base /\ Types /\ Seatings /\ Shapes /\ Noted /\ DeliveredIsHeld /\ Queued /\ TurnsInOrder /\ Alone /\ ReachableProcess
    BY DEF Inv, Base, Tells, OrderKept, Reaches
  <1>p. PICK p \in Seats : p = k[2]
    OBVIOUS
  <1>0. /\ proc[k].at = "up" /\ proc[k] \in ProcType /\ exits' \in {exits, exits + 1}
        /\ UNCHANGED <<status, bound, row, passed, receipts, seat, pending, job, plan, crashes>>
    BY DEF PtyExits, room, journal, Types
  <1> DEFINE q == [proc[k] EXCEPT !.at = "exited", !.queue = <<>>]
             gone == {<<m, p>> : m \in ToSet(proc[k].queue)}
  <1>1. proc' = [proc EXCEPT ![k] = q] /\ history' = [history EXCEPT !.dropped = history.dropped \union gone]
    BY <1>p DEF PtyExits
  <1>2. q \in ProcType /\ q.at = "exited" /\ q.queue = <<>> /\ q.got = proc[k].got
    BY <1>0, EmptySeq DEF ProcType
  <1> HIDE DEF q
  <1>3. proc' \in [Procs -> ProcType] /\ proc'[k] = q /\ \A j \in Procs : j # k => proc'[j] = proc[j]
    BY <1>1, <1>2 DEF Types
  <1>4. /\ IsSubSeq(Turns(q), history.told[p]) /\ ToSet(proc[k].queue) \subseteq Messages
        /\ ToSet(Turns(proc[k])) = ToSet(Turns(q)) \union ToSet(proc[k].queue)
    <2>1. history.told[p] \in Seq(Messages) /\ IsSubSeq(Turns(proc[k]), history.told[p])
      BY <1>p DEF Types, TurnsInOrder, Turns
    <2> QED
      BY <1>0, <1>2, <2>1, DropQueue
  <1>5. gone \subseteq Messages \X Seats /\ \A m \in ToSet(proc[k].queue) : <<m, p>> \in gone
    BY <1>4
  <1> HIDE DEF gone
  <1>6. /\ history' \in [dropped : SUBSET (Messages \X Seats), told : {history.told}, doubled : {history.doubled}]
        /\ history'.dropped = history.dropped \union gone /\ history'.told = history.told /\ history'.doubled = history.doubled
    BY <1>1, <1>5 DEF Types
  <1>7. Types'
    BY <1>0, <1>3, <1>6 DEF Types
  <1>8. \A j \in Procs : proc'[j].at = None <=> proc[j].at = None
    BY <1>0, <1>2, <1>3 DEF None
  <1>9. Seatings'
    <2>1. \A s \in Seats : seat[s].ctl # NoCtl => seat[s].ctl \in Procs
      BY DEF Seatings, Seated, Procs
    <2> QED
      BY <1>0, <1>8, <2>1 DEF Seatings, Seated
  <1>10. Shapes'
    BY <1>2, <1>3 DEF Shapes, Shaped, None
  <1>11. Noted' /\ Queued' /\ Alone'
    <2>1. Noted'
      BY <1>0 DEF Noted, Has
    <2>2. Queued'
      BY <1>0, <1>6 DEF Queued
    <2>3. Alone'
      BY <1>0, <1>6, AloneKept
    <2> QED
      BY <2>1, <2>2, <2>3
  <1>12. DeliveredIsHeld'
    <2>1. \A s \in Seats : \A m \in ToSet(pending[s]) : Holds(m, s)'
      BY <1>0 DEF Holds
    <2>2. ASSUME NEW v \in Workers, NEW s \in Seats, NEW m \in ToSet(Turns(proc[<<v, s>>])) PROVE Holds(m, s)'
      <3>1. CASE <<v, s>> # k
        BY <1>3, <3>1 DEF Holds
      <3>2. CASE <<v, s>> = k
        <4>1. s = p
          BY <1>p, <3>2
        <4>2. m \in ToSet(Turns(proc'[<<v, s>>])) \/ <<m, s>> \in history'.dropped
          BY <1>3, <1>4, <1>5, <1>6, <3>2, <4>1
        <4> QED
          BY <4>2 DEF Holds
      <3> QED
        BY <3>1, <3>2
    <2>3. \A r \in receipts' \ receipts : r.how = "delivered" => Holds(r.msg, r.seat)'
      BY <1>0
    <2> QED
      BY <1>6, <1>8, <2>1, <2>2, <2>3, HeldKept
  <1>13. TurnsInOrder'
    <2> SUFFICES ASSUME NEW j \in Procs PROVE IsSubSeq(Turns(proc'[j]), history'.told[j[2]])
      BY DEF TurnsInOrder, Turns
    <2>1. CASE j = k
      BY <1>p, <1>3, <1>4, <1>6, <2>1
    <2>2. CASE j # k
      BY <1>3, <1>6, <2>2 DEF TurnsInOrder, Turns
    <2> QED
      BY <2>1, <2>2
  <1>14. ReachableProcess'
    BY <1>0, <1>2, <1>3, <1>6 DEF ReachableProcess
  <1>15. Jobs' /\ ToCome' /\ Numbers' /\ Receipts' /\ Launched'
    BY <1>0, <1>8, CallsRest
  <1> QED
    BY <1>7, <1>9, <1>10, <1>11, <1>12, <1>13, <1>14, <1>15 DEF Inv, Base, Tells, OrderKept, Reaches

-----------------------------------------------------------------------------
(* A process that is launched *)

Attached(k, p) ==
    /\ proc' \in [Procs -> ProcType] /\ proc'[k].at = "up" /\ Shaped(proc'[k])
    /\ \A j \in Procs : j # k => proc'[j] = proc[j]
    /\ seat' \in [Seats -> SeatType] /\ pending' \in [Seats -> Seq(Messages)]
    /\ \A q \in Seats : q # p => seat'[q] = seat[q] /\ pending'[q] = pending[q]
    /\ \/ seat[p].run = None /\ UNCHANGED <<seat, pending>> /\ proc'[k].stop /\ Turns(proc'[k]) = <<>>
       \/ /\ seat'[p].run = seat[p].run /\ seat[p].run # None /\ seat'[p].ctl = k /\ pending'[p] = <<>>
          /\ seat'[p].notified = seat[p].notified \union ToSet(pending[p]) /\ Turns(proc'[k]) = pending[p]

LEMMA AttachGives ==
  ASSUME Base, NEW w \in Workers, NEW p \in Seats, NEW k, k = <<w, p>>, attachController(k)
  PROVE  Attached(k, p)
  <1> USE Facts
  <1> Types /\ Seatings
    BY DEF Base
  <1>0. k \in Procs /\ k[2] = p /\ seat[p] \in SeatType /\ pending[p] \in Seq(Messages) /\ Seated(p) /\ <<>> \in Seq(Messages)
    BY EmptySeq DEF Types, Seatings
  <1> DEFINE up == [NoProc EXCEPT !.at = "up"]
             fresh == Unseen(pending[p], seat[p].notified)
  <1>1. up \in ProcType /\ up.at = "up" /\ ~up.stop /\ up.busy /\ up.queue = <<>> /\ up.got = <<>>
    BY <1>0 DEF NoProc, ProcType
  <1>2. Turns(up) = <<>> /\ Takes(up) /\ Shaped(up)
    BY <1>0, <1>1, ConcatEmptySeq DEF Turns, Takes, Shaped, None
  <1>3. fresh = pending[p]
    BY <1>0, UnseenIs DEF Seated
  <1>4. /\ seat[p].run = None => proc' = [proc EXCEPT ![k] = [up EXCEPT !.stop = TRUE]] /\ UNCHANGED <<seat, pending>>
        /\ seat[p].run # None =>
              /\ proc' = [proc EXCEPT ![k] = Write(up, fresh)]
              /\ seat' = [seat EXCEPT ![p].ctl = k, ![p].notified = seat[p].notified \union ToSet(fresh)]
              /\ pending' = [pending EXCEPT ![p] = <<>>]
    BY <1>0 DEF attachController
  <1> HIDE DEF up, fresh
  <1>5. CASE seat[p].run = None
    <2> DEFINE q == [up EXCEPT !.stop = TRUE]
    <2>1. q \in ProcType /\ q.at = "up" /\ q.stop /\ q.busy /\ q.queue = <<>> /\ q.got = <<>>
      BY <1>1 DEF ProcType
    <2>2. proc' = [proc EXCEPT ![k] = q] /\ UNCHANGED <<seat, pending>>
      BY <1>4, <1>5
    <2>3. Turns(q) = <<>> /\ Shaped(q)
      BY <1>0, <2>1, ConcatEmptySeq DEF Turns, Shaped, None
    <2> HIDE DEF q
    <2>4. proc' \in [Procs -> ProcType] /\ proc'[k] = q /\ \A j \in Procs : j # k => proc'[j] = proc[j]
      BY <1>0, <2>1, <2>2 DEF Types
    <2> QED
      BY <1>5, <2>1, <2>2, <2>3, <2>4 DEF Attached, Types
  <1>6. CASE seat[p].run # None
    <2> DEFINE q == Write(up, pending[p])
               n == seat[p].notified \union ToSet(pending[p])
               s == [seat[p] EXCEPT !.ctl = k, !.notified = n]
    <2>1. q \in ProcType /\ q.at = "up" /\ (~q.busy => q.queue = <<>>) /\ Turns(q) = Turns(up) \o pending[p]
      <3> DEFINE ms == pending[p]
      <3>1. ms \in Seq(Messages) /\ (~up.busy => up.queue = <<>>)
        BY <1>0, <1>1
      <3> HIDE DEF ms
      <3>2. /\ Write(up, ms) \in ProcType /\ Write(up, ms).at = up.at
            /\ ~Write(up, ms).busy => Write(up, ms).queue = <<>>
            /\ Turns(Write(up, ms)) = IF Takes(up) THEN Turns(up) \o ms ELSE Turns(up)
        BY <1>1, <3>1, Writes
      <3> QED
        BY <1>1, <1>2, <3>2 DEF ms
    <2>2. Turns(q) = pending[p]
      BY <1>0, <1>2, <2>1, ConcatEmptySeq
    <2>3. n \subseteq Messages
      BY <1>0, Ranges DEF SeatType
    <2>4. /\ proc' = [proc EXCEPT ![k] = q] /\ pending' = [pending EXCEPT ![p] = <<>>]
          /\ seat' = [seat EXCEPT ![p].ctl = k, ![p].notified = n]
      BY <1>3, <1>4, <1>6
    <2> HIDE DEF q, n
    <2>5. proc' \in [Procs -> ProcType] /\ proc'[k] = q /\ \A j \in Procs : j # k => proc'[j] = proc[j]
      BY <1>0, <2>1, <2>4 DEF Types
    <2>6. pending' \in [Seats -> Seq(Messages)] /\ pending'[p] = <<>> /\ \A j \in Seats : j # p => pending'[j] = pending[j]
      BY <1>0, <2>4 DEF Types
    <2>7. s \in SeatType /\ s.ctl = k /\ s.run = seat[p].run /\ s.notified = n
      BY <1>0, <2>3 DEF SeatType
    <2>8. seat' = [seat EXCEPT ![p] = s]
      BY <1>0, <2>4 DEF Types
    <2> HIDE DEF s
    <2>9. seat' \in [Seats -> SeatType] /\ seat'[p] = s /\ \A j \in Seats : j # p => seat'[j] = seat[j]
      BY <2>7, <2>8 DEF Types
    <2>10. Shaped(q)
      BY <2>1 DEF Shaped, None
    <2> QED
      BY <1>6, <2>1, <2>2, <2>5, <2>6, <2>7, <2>9, <2>10 DEF Attached, n
  <1> QED
    BY <1>5, <1>6

LEMMA AttachStep ==
  ASSUME Inv, NEW w \in Workers, job[w].at = "invoke", NEW p, p = Target(w), attachController(<<w, p>>),
         Receipt(w, p, "delivered"), NextTarget(w), UNCHANGED <<history, room, bounds>>
  PROVE  Inv'
  <1> USE Facts
  <1> Base /\ Types /\ Jobs /\ Seatings /\ Shapes /\ Launched /\ Numbers /\ Receipts /\ Noted /\ DeliveredIsHeld
    BY DEF Inv, Base, Tells
  <1> Queued /\ TurnsInOrder /\ Alone /\ ReachableProcess
    BY DEF Inv, OrderKept, Reaches
  <1> DEFINE new == [msg |-> w, seat |-> p, how |-> "delivered"]
  <1>0. /\ job[w].at \in Loop /\ p \in Seats /\ p \in job[w].todo
        /\ UNCHANGED <<status, bound, plan, crashes, exits, history>>
    BY TargetIsIn DEF Loop, room, bounds
  <1>k. PICK k \in Procs : k = <<w, p>> /\ k[1] = w /\ k[2] = p
    BY <1>0
  <1>1. Attached(k, p)
    BY <1>0, <1>k, AttachGives
  <1>2. proc[k] = NoProc
    <2>1. proc[k].at = None
      BY <1>0, <1>k DEF Launched, Past
    <2> QED
      BY <2>1 DEF Shapes, Shaped
  <1> HIDE DEF new
  <1>3. /\ Receipts' /\ receipts \subseteq receipts' /\ receipts' \subseteq ReceiptType
        /\ \A r \in receipts' : r \in receipts \/ r = new
        /\ row' = row /\ passed' \in {passed, passed \union Unnumbered}
    BY <1>0, ReceiptStep DEF new
  <1>4. PICK a \in {"dispatch", "done"}, t \in {{}, job[w].todo \ {p}} : InLoop(w, a, t) /\ (a \in Loop => p \notin t)
    BY <1>0, ReceiptStep
  <1>5. Moves(w, a, t)
    BY <1>4 DEF InLoop
  <1>6. Numbers' /\ passed' \subseteq Calls
    BY <1>3, <1>5, NumbersKept
  <1>7. Types'
    BY <1>0, <1>1, <1>3, <1>5, <1>6 DEF Types, Attached, Moves
  <1>8. /\ \A j \in Procs : proc[j].at # None => proc'[j].at # None
        /\ \A j \in Procs : proc'[j].at # None => proc[j].at # None \/ j = k
    BY <1>1, <1>2 DEF Attached
  <1>9. Jobs' /\ ToCome' /\ Launched'
    BY <1>0, <1>k, <1>4, <1>8, LoopKeepsJobs, LoopKeepsLaunched
  <1>10. Seatings'
    <2> SUFFICES ASSUME NEW q \in Seats PROVE Seated(q)'
      BY DEF Seatings
    <2>1. Seated(q) /\ (seat[q].ctl # NoCtl => seat[q].ctl \in Procs)
      BY DEF Seatings, Seated, Procs
    <2>2. CASE seat'[q] = seat[q] /\ pending'[q] = pending[q]
      BY <1>8, <2>1, <2>2 DEF Seated
    <2>3. CASE q = p /\ seat[p].run # None
      <3>1. seat'[p].run # None /\ seat'[p].ctl = k /\ pending'[p] = <<>> /\ proc'[k].at = "up"
        BY <1>1, <2>3 DEF Attached
      <3>2. k \in Workers \X {p} /\ k # NoCtl
        BY <1>k
      <3> QED
        BY <2>3, <3>1, <3>2 DEF Seated, None
    <2> QED
      BY <1>1, <2>2, <2>3 DEF Attached
  <1>11. Shapes'
    BY <1>1 DEF Shapes, Attached
  <1>e. ToSet(<<>>) = {}
    BY DEF ToSet
  <1>12. Noted'
    <2>1. \A q \in Seats : ToSet(pending'[q]) \union seat'[q].notified \subseteq ToSet(pending[q]) \union seat[q].notified
      <3> SUFFICES ASSUME NEW q \in Seats
                   PROVE  ToSet(pending'[q]) \union seat'[q].notified \subseteq ToSet(pending[q]) \union seat[q].notified
        OBVIOUS
      <3>1. CASE seat'[q] = seat[q] /\ pending'[q] = pending[q]
        BY <3>1
      <3>2. CASE q = p /\ pending'[p] = <<>> /\ seat'[p].notified = seat[p].notified \union ToSet(pending[p])
        BY <1>e, <3>2
      <3> QED
        BY <1>1, <3>1, <3>2 DEF Attached
    <2> QED
      BY <1>3, <2>1, NotedKept
  <1>13. DeliveredIsHeld'
    <2>1. \A q \in Seats : \A m \in ToSet(pending[q]) : Holds(m, q)'
      <3> SUFFICES ASSUME NEW q \in Seats, NEW m \in ToSet(pending[q]) PROVE Holds(m, q)'
        OBVIOUS
      <3>1. CASE pending'[q] = pending[q]
        BY <3>1 DEF Holds
      <3>2. CASE q = p /\ Turns(proc'[k]) = pending[p]
        BY <1>k, <3>2 DEF Holds
      <3> QED
        BY <1>1, <3>1, <3>2 DEF Attached
    <2>2. \A v \in Workers, q \in Seats : \A m \in ToSet(Turns(proc[<<v, q>>])) : Holds(m, q)'
      <3> SUFFICES ASSUME NEW v \in Workers, NEW q \in Seats, NEW m \in ToSet(Turns(proc[<<v, q>>])) PROVE Holds(m, q)'
        OBVIOUS
      <3>1. CASE <<v, q>> = k
        <4>1. Turns(NoProc) = <<>>
          BY EmptySeq, ConcatEmptySeq DEF Turns
        <4> QED
          BY <1>2, <1>e, <3>1, <4>1
      <3>2. CASE <<v, q>> # k
        BY <1>1, <3>2 DEF Attached, Holds
      <3> QED
        BY <3>1, <3>2
    <2>3. ASSUME NEW r \in receipts' \ receipts PROVE Holds(r.msg, r.seat)'
      <3>1. r.msg = w /\ r.seat = p
        BY <1>3, <2>3 DEF new
      <3>2. proc'[<<w, p>>].at # None
        BY <1>1, <1>k DEF Attached, None
      <3> QED
        BY <3>1, <3>2 DEF Holds
    <2> QED
      BY <1>0, <1>8, <2>1, <2>2, <2>3, HeldKept
  <1>14. Queued'
    <2> SUFFICES ASSUME NEW q \in Seats PROVE IsSubSeq(pending'[q], history'.told[q])
      BY DEF Queued
    <2>1. IsSubSeq(pending[q], history.told[q]) /\ history.told[q] \in Seq(Messages)
      BY DEF Queued, Types
    <2>2. IsSubSeq(<<>>, history.told[q])
      BY <2>1, EmptyWithin
    <2>3. pending'[q] = pending[q] \/ pending'[q] = <<>>
      BY <1>1 DEF Attached
    <2> QED
      BY <1>0, <2>1, <2>2, <2>3
  <1>15. TurnsInOrder'
    <2> SUFFICES ASSUME NEW j \in Procs PROVE IsSubSeq(Turns(proc'[j]), history'.told[j[2]])
      BY DEF TurnsInOrder, Turns
    <2>1. CASE j # k
      BY <1>0, <1>1, <2>1 DEF Attached, TurnsInOrder, Turns
    <2>2. CASE j = k
      <3>1. IsSubSeq(pending[p], history.told[p]) /\ history.told[p] \in Seq(Messages)
        BY <1>0 DEF Queued, Types
      <3>2. IsSubSeq(<<>>, history.told[p])
        BY <3>1, EmptyWithin
      <3>3. Turns(proc'[j]) = pending[p] \/ Turns(proc'[j]) = <<>>
        BY <1>1, <2>2 DEF Attached
      <3>4. history'.told[j[2]] = history.told[p]
        BY <1>0, <1>k, <2>2
      <3> QED
        BY <3>1, <3>2, <3>3, <3>4
    <2> QED
      BY <2>1, <2>2
  <1>16. Alone'
    <2> SUFFICES ASSUME ~history'.doubled
                 PROVE  /\ \A u, v \in Workers, q \in Seats : Starting(u, q)' /\ Starting(v, q)' => u = v
                        /\ \A v \in Workers, q \in Seats : job'[v].at = "invoke" /\ Target(v)' = q => seat'[q].ctl = NoCtl
      BY DEF Alone
    <2>1. \A v \in Workers : job'[v].at \in {"start", "invoke"} => v # w /\ job'[v] = job[v] /\ Target(v)' = Target(v)
      BY <1>5 DEF Moves, Target
    <2>2. \A v \in Workers, q \in Seats : Starting(v, q)' => Starting(v, q) /\ v # w
      BY <2>1 DEF Starting
    <2>3. Starting(w, p) /\ ~history.doubled
      BY <1>0 DEF Starting
    <2>4. ASSUME NEW v \in Workers, NEW q \in Seats, job'[v].at = "invoke", Target(v)' = q PROVE seat'[q].ctl = NoCtl
      <3>1. Starting(v, q) /\ v # w /\ job[v].at = "invoke" /\ Target(v) = q
        BY <2>1, <2>4 DEF Starting
      <3>2. q # p
        BY <1>0, <2>3, <3>1 DEF Alone
      <3>3. seat[q].ctl = NoCtl
        BY <2>3, <3>1 DEF Alone
      <3> QED
        BY <1>1, <3>2, <3>3 DEF Attached
    <2> QED
      BY <2>2, <2>3, <2>4 DEF Alone
  <1>17. ReachableProcess'
    <2> SUFFICES ASSUME ~history'.doubled, NEW j \in Procs, Takes(proc'[j]) PROVE seat'[j[2]].ctl = j
      BY DEF ReachableProcess, Takes
    <2>1. seat[p].ctl = NoCtl /\ ~history.doubled
      BY <1>0 DEF Alone
    <2>2. CASE j = k
      BY <1>1, <1>k, <2>2 DEF Attached, Takes
    <2>3. CASE j # k
      <3>1. seat[j[2]].ctl = j /\ j[2] \in Seats
        BY <1>1, <2>1, <2>3 DEF ReachableProcess, Attached, Takes
      <3>2. j[2] # p
        BY <2>1, <3>1
      <3> QED
        BY <1>1, <3>1, <3>2 DEF Attached
    <2> QED
      BY <2>2, <2>3
  <1> QED
    BY <1>3, <1>6, <1>7, <1>9, <1>10, <1>11, <1>12, <1>13, <1>14, <1>15, <1>16, <1>17
    DEF Inv, Base, Tells, OrderKept, Reaches

LEMMA InvokeStep ==
  ASSUME Inv, NEW w \in Workers, Invoke(w)
  PROVE  Inv'
  <1>p. PICK p : p = Target(w)
    OBVIOUS
  <1>0. job[w].at = "invoke" /\ UNCHANGED <<room, bounds>>
    BY DEF Invoke
  <1>1. CASE attachController(<<w, p>>) /\ Receipt(w, p, "delivered") /\ NextTarget(w) /\ UNCHANGED history
    BY <1>p, <1>0, <1>1, AttachStep
  <1>2. CASE revoke({p}) /\ (\/ Receipt(w, p, "failed") /\ NextTarget(w)
                             \/ UNCHANGED journal /\ Goto(w, "done"))
    BY <1>p, <1>0, <1>2, InvokeFails
  <1> QED
    BY <1>p, <1>1, <1>2 DEF Invoke

-----------------------------------------------------------------------------
(* A crash *)

LEMMA CrashStep ==
  ASSUME Inv, Crash
  PROVE  Inv'
  <1> USE Facts
  <1> Types /\ Jobs /\ Seatings /\ Shapes /\ Launched /\ ToCome /\ Receipts /\ DeliveredIsHeld /\ TurnsInOrder
    BY DEF Inv, Base, Tells, OrderKept
  <1> DEFINE b == Boots[crashes + 1]
             waiting == UNION {ToSet(proc[k].queue) \X {k[2]} : k \in Procs}
             gone == Lost(Seats) \union waiting
  <1>0. /\ crashes \in Nat /\ crashes + 1 <= plan.crashes /\ plan.crashes \in 0..Len(Boots)
        /\ crashes' = crashes + 1 /\ passed' = {}
        /\ UNCHANGED <<status, bound, row, receipts, plan, exits>>
    <2>1. /\ crashes < plan.crashes /\ crashes' = crashes + 1 /\ passed' = {}
          /\ UNCHANGED <<status, bound, row, receipts, plan, exits>>
      BY DEF Crash, room
    <2>2. crashes \in Nat /\ plan \in Plans
      BY DEF Types
    <2>3. plan \in [calls : SUBSET Calls, crashes : 0..Len(Boots), exits : Nat]
      BY <2>2, MeetingAssumption
    <2>4. plan.crashes \in 0..Len(Boots) /\ Len(Boots) \in Nat
      BY <2>3, MeetingAssumption
    <2> QED
      BY <2>1, <2>2, <2>4
  <1>b. crashes + 1 \in DOMAIN Boots /\ b \in Passes /\ b \notin Calls /\ ~IsSay(b)
        /\ \A i \in DOMAIN Boots : Boots[i] = b => i = crashes + 1
    BY <1>0, MeetingAssumption DEF IsSay
  <1>1. /\ seat' = [p \in Seats |-> NoSeat] /\ pending' = [p \in Seats |-> <<>>]
        /\ history' = [history EXCEPT !.dropped = history.dropped \union gone]
    BY DEF Crash
  <1>j. /\ job' \in [Workers -> JobType]
        /\ \A w \in Workers : job'[w].at = IF w = b THEN "orphans" ELSE IF job[w].at = "idle" THEN "idle" ELSE "done"
    <2>1. Idle \in JobType /\ Idle.at = "idle"
      BY DEF Idle, JobType, Labels, Numbering
    <2> DEFINE o == [Idle EXCEPT !.at = "orphans"]
               d == [Idle EXCEPT !.at = "done"]
    <2>2. o \in JobType /\ o.at = "orphans" /\ d \in JobType /\ d.at = "done"
      BY DEF Idle, JobType, Labels
    <2>3. job' = [w \in Workers |-> IF w = b THEN o ELSE IF job[w].at = "idle" THEN Idle ELSE d]
      BY DEF Crash
    <2> HIDE DEF o, d, b
    <2> QED
      BY <2>1, <2>2, <2>3
  <1> HIDE DEF b
  <1>2. ASSUME NEW k \in Procs
        PROVE  /\ proc'[k] \in ProcType /\ Shaped(proc'[k]) /\ proc'[k].got = proc[k].got /\ proc'[k].queue = <<>>
               /\ proc'[k].at = None <=> proc[k].at = None
               /\ proc'[k].at # "up"
    <2>0. proc[k] \in ProcType /\ Shaped(proc[k])
      BY DEF Types, Shapes
    <2>1. CASE proc[k].at = None
      <3>1. proc'[k] = NoProc /\ proc[k] = NoProc
        BY <2>0, <2>1 DEF Crash, Shaped
      <3> QED
        BY <2>0, <3>1 DEF None
    <2>2. CASE proc[k].at # None
      <3>1. proc'[k] = [proc[k] EXCEPT !.at = "gone", !.queue = <<>>]
        BY <2>2 DEF Crash
      <3>2. proc'[k] \in ProcType /\ proc'[k].at = "gone" /\ proc'[k].queue = <<>> /\ proc'[k].got = proc[k].got
        BY <2>0, <3>1, EmptySeq DEF ProcType
      <3> QED
        BY <2>2, <3>2 DEF Shaped, None
    <2> QED
      BY <2>1, <2>2
  <1>3. proc' \in [Procs -> ProcType]
    <2>1. proc' = [k \in Procs |-> proc'[k]]
      BY DEF Crash
    <2> QED
      BY <1>2, <2>1
  <1>4. ASSUME NEW k \in Procs
        PROVE  /\ IsSubSeq(Turns(proc'[k]), history.told[k[2]]) /\ ToSet(proc[k].queue) \subseteq Messages
               /\ ToSet(Turns(proc[k])) = ToSet(Turns(proc'[k])) \union ToSet(proc[k].queue)
    <2> DEFINE q == proc[k]
               q2 == proc'[k]
               told == history.told[k[2]]
    <2>1. /\ q \in ProcType /\ told \in Seq(Messages) /\ IsSubSeq(Turns(q), told)
          /\ q2.got = q.got /\ q2.queue = <<>>
      BY <1>2 DEF Types, TurnsInOrder, Turns
    <2> HIDE DEF q, q2, told
    <2>2. /\ IsSubSeq(Turns(q2), told) /\ ToSet(q.queue) \subseteq Messages
          /\ ToSet(Turns(q)) = ToSet(Turns(q2)) \union ToSet(q.queue)
      BY <2>1, DropQueue
    <2> QED
      BY <2>2 DEF q, q2, told
  <1>5. /\ gone \subseteq Messages \X Seats
        /\ \A p \in Seats : \A m \in ToSet(pending[p]) : <<m, p>> \in gone
        /\ \A k \in Procs : \A m \in ToSet(proc[k].queue) : <<m, k[2]>> \in gone
    <2>1. Lost(Seats) \subseteq Messages \X Seats /\ \A p \in Seats : \A m \in ToSet(pending[p]) : <<m, p>> \in Lost(Seats)
      BY LostIs
    <2>2. \A k \in Procs : k[2] \in Seats /\ ToSet(proc[k].queue) \subseteq Messages
      BY <1>4
    <2>3. waiting \subseteq Messages \X Seats
      BY <2>2
    <2>4. \A k \in Procs : \A m \in ToSet(proc[k].queue) : <<m, k[2]>> \in waiting
      OBVIOUS
    <2> HIDE DEF waiting
    <2> QED
      BY <2>1, <2>3, <2>4
  <1> HIDE DEF gone, waiting
  <1>6. /\ history' \in [dropped : SUBSET (Messages \X Seats), told : {history.told}, doubled : {history.doubled}]
        /\ history'.dropped = history.dropped \union gone /\ history'.told = history.told /\ history'.doubled = history.doubled
    BY <1>1, <1>5 DEF Types
  <1>7. /\ seat' \in [Seats -> SeatType] /\ pending' \in [Seats -> Seq(Messages)]
        /\ \A p \in Seats : seat'[p] = NoSeat /\ pending'[p] = <<>>
    BY <1>1, EmptySeq
  <1>8. Types'
    BY <1>0, <1>3, <1>6, <1>7, <1>j DEF Types
  <1>9. Jobs'
    BY <1>b, <1>j DEF Jobs, Job, Loop, Numbering, IsSay
  <1>10. Seatings'
    BY <1>7 DEF Seatings, Seated
  <1>11. Shapes'
    BY <1>2 DEF Shapes
  <1>12. Launched'
    <2> SUFFICES ASSUME NEW w \in Workers, NEW p \in Seats, proc'[<<w, p>>].at # None PROVE Past(w, p)'
      BY DEF Launched
    <2>1. Past(w, p)
      BY <1>2 DEF Launched
    <2>2. w # b
      BY <1>0, <1>b, <2>1 DEF Past, b
    <2>3. job[w].at # "idle"
      BY <2>1 DEF Past, Loop
    <2>4. job'[w].at = "done"
      BY <1>j, <2>2, <2>3
    <2>5. \A i \in DOMAIN Boots : w = Boots[i] => i <= crashes + 1
      BY <1>0, <2>1 DEF Past
    <2> QED
      BY <1>0, <2>4, <2>5 DEF Past, Loop
  <1>13. ToCome'
    <2> SUFFICES ASSUME NEW i \in DOMAIN Boots, i > crashes + 1 PROVE job'[Boots[i]].at = "done"
      BY <1>0 DEF ToCome
    <2>1. i > crashes /\ Boots[i] \in Workers /\ Boots[i] # b
      BY <1>0, <1>b
    <2> QED
      BY <1>j, <2>1 DEF ToCome
  <1>14. Numbers'
    BY <1>0 DEF Numbers
  <1>15. Receipts'
    <2>1. \A r \in receipts : r.msg \in Workers /\ r.msg # b /\ job[r.msg].at # "idle"
      BY <1>b DEF Receipts, Types, ReceiptType, Numbering
    <2>2. \A r \in receipts : job'[r.msg].at = "done"
      BY <1>j, <2>1
    <2>3. \A c \in Calls : job'[c].at \notin Loop
      BY <1>j DEF Loop
    <2>4. \A r \in receipts : job'[r.msg].at \notin Numbering
      BY <2>2 DEF Numbering
    <2> QED
      BY <1>0, <2>3, <2>4 DEF Receipts, IsSay
  <1>16. Noted'
    <2>1. ToSet(<<>>) = {}
      BY DEF ToSet
    <2> QED
      BY <1>7, <2>1 DEF Noted
  <1>17. DeliveredIsHeld'
    <2>1. \A p \in Seats : \A m \in ToSet(pending[p]) : Holds(m, p)'
      BY <1>5, <1>6 DEF Holds
    <2>2. ASSUME NEW v \in Workers, NEW p \in Seats, NEW m \in ToSet(Turns(proc[<<v, p>>])) PROVE Holds(m, p)'
      <3>1. PICK k \in Procs : k = <<v, p>> /\ k[2] = p
        OBVIOUS
      <3>2. CASE m \in ToSet(Turns(proc'[k]))
        BY <3>1, <3>2 DEF Holds
      <3>3. CASE m \in ToSet(proc[k].queue)
        BY <1>5, <1>6, <3>1, <3>3 DEF Holds
      <3> QED
        BY <1>4, <2>2, <3>1, <3>2, <3>3
    <2>3. \A r \in receipts' \ receipts : r.how = "delivered" => Holds(r.msg, r.seat)'
      BY <1>0
    <2> QED
      BY <1>2, <1>6, <2>1, <2>2, <2>3, HeldKept
  <1>18. Queued'
    <2> SUFFICES ASSUME NEW p \in Seats PROVE IsSubSeq(pending'[p], history'.told[p])
      BY DEF Queued
    <2>1. IsSubSeq(<<>>, history.told[p])
      BY EmptyWithin DEF Types
    <2> QED
      BY <1>6, <1>7, <2>1
  <1>19. TurnsInOrder'
    BY <1>4, <1>6 DEF TurnsInOrder, Turns
  <1>20. Alone'
    BY <1>j DEF Alone, Starting
  <1>21. ReachableProcess'
    BY <1>2 DEF ReachableProcess
  <1> QED
    BY <1>8, <1>9, <1>10, <1>11, <1>12, <1>13, <1>14, <1>15, <1>16, <1>17, <1>18, <1>19, <1>20, <1>21
    DEF Inv, Base, Tells, OrderKept, Reaches

-----------------------------------------------------------------------------
(* The invariant and what follows from it *)

LEMMA InitInv ==
  ASSUME Init
  PROVE  Inv
  <1> USE Facts
  <1>1. /\ plan \in Plans /\ crashes = 0 /\ exits = 0 /\ passed = {} /\ receipts = {} /\ plan.crashes \in Nat
        /\ plan.calls \subseteq Calls
    BY MeetingAssumption DEF Init
  <1>j. /\ job \in [Workers -> JobType]
        /\ \A w \in Workers : job[w].at = IF w \in plan.calls THEN "idle" ELSE "done"
    <2> DEFINE d == [Idle EXCEPT !.at = "done"]
    <2>1. Idle \in JobType /\ Idle.at = "idle" /\ d \in JobType /\ d.at = "done"
      BY DEF Idle, JobType, Labels, Numbering
    <2>2. job = [w \in Workers |-> IF w \in plan.calls THEN Idle ELSE d]
      BY DEF Init
    <2> HIDE DEF d
    <2> QED
      BY <2>1, <2>2
  <1>2. /\ seat \in [Seats -> SeatType] /\ pending \in [Seats -> Seq(Messages)] /\ proc \in [Procs -> ProcType]
        /\ \A p \in Seats : seat[p] = NoSeat /\ pending[p] = <<>>
        /\ \A k \in Procs : proc[k] = NoProc
    BY EmptySeq DEF Init
  <1>3. /\ history \in [dropped : SUBSET (Messages \X Seats), told : [Seats -> Seq(Messages)], doubled : BOOLEAN]
        /\ \A p \in Seats : history.told[p] = <<>>
    BY EmptySeq DEF Init
  <1>4. Types
    BY <1>1, <1>j, <1>2, <1>3 DEF Types, Init
  <1>5. Jobs
    BY <1>j DEF Jobs, Job, Loop, Numbering
  <1>6. Seatings /\ Shapes /\ Launched
    BY <1>2 DEF Seatings, Seated, Shapes, Shaped, Launched
  <1>7. ToCome
    BY <1>1, <1>j DEF ToCome
  <1>8. Numbers /\ Receipts /\ DeliveredIsHeld
    BY <1>1, <1>j DEF Numbers, Receipts, DeliveredIsHeld, Loop
  <1>9. Noted
    <2>1. ToSet(<<>>) = {}
      BY DEF ToSet
    <2> QED
      BY <1>2, <2>1 DEF Noted
  <1>10. Queued
    <2>1. IsSubSeq(<<>>, <<>>)
      BY EmptySeq, EmptyWithin
    <2> QED
      BY <1>2, <1>3, <2>1 DEF Queued
  <1>11. TurnsInOrder
    <2>1. IsSubSeq(<<>>, <<>>) /\ NoProc.got \o NoProc.queue = <<>>
      BY EmptySeq, EmptyWithin, ConcatEmptySeq
    <2> QED
      <3> SUFFICES ASSUME NEW k \in Procs PROVE IsSubSeq(proc[k].got \o proc[k].queue, history.told[k[2]])
        BY DEF TurnsInOrder
      <3>1. proc[k] = NoProc /\ history.told[k[2]] = <<>>
        BY <1>2, <1>3
      <3>2. proc[k].got \o proc[k].queue = <<>>
        BY <2>1, <3>1
      <3> QED
        BY <2>1, <3>1, <3>2
  <1>12. Alone
    BY <1>j DEF Alone, Starting
  <1>13. ReachableProcess
    BY <1>2 DEF ReachableProcess, None
  <1> QED
    BY <1>4, <1>5, <1>6, <1>7, <1>8, <1>9, <1>10, <1>11, <1>12, <1>13 DEF Inv, Base, Tells, OrderKept, Reaches

LEMMA StutterInv ==
  ASSUME Inv, UNCHANGED vars
  PROVE  Inv'
  <1>0. UNCHANGED <<plan, status, bound, row, passed, receipts, seat, pending, proc, job, crashes, exits, history>>
    BY DEF vars
  <1>1. Base'
    BY <1>0 DEF Inv, Base, Types, Jobs, Job, IsSay, Seatings, Seated, Shapes, Launched, Past, ToCome
  <1>2. Numbers' /\ Tells'
    BY <1>0 DEF Inv, Numbers, Unnumbered, Tells, Receipts, Has, IsSay, Noted, DeliveredIsHeld
  <1>3. OrderKept'
    BY <1>0 DEF Inv, OrderKept, Queued, TurnsInOrder
  <1>4. Reaches'
    BY <1>0 DEF Inv, Reaches, Alone, Starting, Target, ReachableProcess
  <1> QED
    BY <1>1, <1>2, <1>3, <1>4 DEF Inv

LEMMA NextInv ==
  ASSUME Inv, [Next]_vars
  PROVE  Inv'
  <1>1. ASSUME NEW c \in Calls, CallStep(c) PROVE Inv'
    BY <1>1, CallSteps, RevokeAllStep
  <1>2. ASSUME NEW w \in Workers, DispatchStep(w) PROVE Inv'
    BY <1>2, FindLiveStep, NotifyStep, AdmitStep, StartSeatStep, InvokeStep DEF DispatchStep
  <1>3. ASSUME NEW k \in Procs, PtyIdle(k) \/ PtyExits(k) \/ handleShellComplete(k) PROVE Inv'
    BY <1>3, IdleStep, ExitStep, ShellStep
  <1>4. ASSUME NEW b \in Passes, BootStep(b) PROVE Inv'
    BY <1>4, BootSteps
  <1>5. CASE Crash
    BY <1>5, CrashStep
  <1>6. CASE UNCHANGED vars
    BY <1>6, StutterInv
  <1> QED
    BY <1>1, <1>2, <1>3, <1>4, <1>5, <1>6 DEF Next

LEMMA InvHolds == Spec => []Inv
  <1>1. Init => Inv
    BY InitInv
  <1>2. Inv /\ [Next]_vars => Inv'
    BY NextInv
  <1> QED
    BY <1>1, <1>2, PTL DEF Spec

LEMMA TypesHold ==
  ASSUME Inv
  PROVE  TypeOK
  <1> Types /\ Seatings /\ Numbers
    BY DEF Inv, Base
  <1>1. \A p \in Seats :
          /\ seat[p].run \in Workers \union {None}
          /\ seat[p].run = None => seat[p] = NoSeat
          /\ seat[p].ctl # NoCtl => seat[p].ctl \in Workers \X {p} /\ pending[p] = <<>>
    BY DEF Types, SeatType, Seatings, Seated
  <1>2. \A k \in Procs : proc[k].at \in {None, "up", "exited", "gone"}
    BY DEF Types, ProcType
  <1> QED
    BY <1>1, <1>2 DEF TypeOK, Types, Numbers

LEMMA OneReceiptHolds ==
  ASSUME Inv
  PROVE  OneReceipt
  <1> Types /\ Receipts
    BY DEF Inv, Base, Tells
  <1> SUFFICES ASSUME NEW c \in Calls, IsSay(c)
               PROVE  LET of(p) == {r \in receipts : r.msg = c /\ r.seat = p} IN
                      /\ \A p \in Seats : Cardinality(of(p)) <= (IF p \in Request[c].to THEN 1 ELSE 0)
                      /\ job[c].at = "dispatch" =>
                            \A p \in Request[c].to : of(p) # {} <=> p \notin job[c].todo
    BY DEF OneReceipt
  <1> DEFINE of(p) == {r \in receipts : r.msg = c /\ r.seat = p}
  <1>1. ASSUME NEW p \in Seats PROVE Cardinality(of(p)) <= (IF p \in Request[c].to THEN 1 ELSE 0)
    <2>1. CASE of(p) = {}
      <3>1. Cardinality(of(p)) = 0
        BY <2>1, FS_EmptySet
      <3> QED
        BY <3>1
    <2>2. CASE of(p) # {}
      <3>1. PICK r \in of(p) : TRUE
        BY <2>2
      <3>2. of(p) = {r}
        BY <3>1 DEF Receipts
      <3>3. p \in Request[c].to
        BY <3>1 DEF Receipts
      <3>4. Cardinality({r}) = 1
        BY FS_Singleton
      <3> QED
        BY <3>2, <3>3, <3>4
    <2> QED
      BY <2>1, <2>2
  <1>2. job[c].at = "dispatch" => \A p \in Request[c].to : of(p) # {} <=> p \notin job[c].todo
    BY DEF Receipts, Has, Loop
  <1> QED
    BY <1>1, <1>2

-----------------------------------------------------------------------------
(* Theorems *)

(* The state of a room, its seats and its processes is well formed: a seat that *)
(* is not registered is empty, a controller belongs to its seat and leaves      *)
(* nothing queued there (InMemoryLiveAssignments), and only a message that has  *)
(* a number and no numbered row can be overtaken (appendMeetingEvent).          *)
THEOREM MeetingTypes == Spec => []TypeOK
  <1>1. Inv => TypeOK
    BY TypesHold
  <1> QED
    BY <1>1, InvHolds, PTL

(* Whatever number of calls, dispatches, processes and crashes overlap, a       *)
(* process is given turns of its seat only, in the order of the notifies, each  *)
(* notify at most once (notify, attachController with flushPending,             *)
(* controller.write, flushNextTurn).                                            *)
THEOREM TurnsAreInOrder == Spec => []TurnsInOrder
  <1>1. Inv => TurnsInOrder
    BY DEF Inv, OrderKept
  <1> QED
    BY <1>1, InvHolds, PTL

(* The receipts of a message tell the truth: at most one for each target and,   *)
(* at the head of the loop, one for exactly the targets it has come past; and   *)
(* what was reported as delivered is given, queued, or known to be dropped      *)
(* (dispatchMeetingSaidTargets, notify, revoke, handleShellComplete).           *)
THEOREM ReceiptsTellTruth == Spec => []ReceiptsAreTrue
  <1>1. Inv => ReceiptsAreTrue
    BY OneReceiptHolds DEF Inv, Tells, ReceiptsAreTrue
  <1> QED
    BY <1>1, InvHolds, PTL

(* As long as no two dispatches to a seat have overlapped, every process that   *)
(* runs and was not told to stop is the controller of its seat, so that a close *)
(* finds it (startEventSeat, attachController, revoke).                         *)
THEOREM ProcessesAreReachable == Spec => []ReachableProcess
  <1>1. Inv => ReachableProcess
    BY DEF Inv, Reaches
  <1> QED
    BY <1>1, InvHolds, PTL
=============================================================================
