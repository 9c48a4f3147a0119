-------------------------- MODULE ArtifactsProofs --------------------------
(***************************************************************************)
(* Proofs about Artifacts, for every plan of requests, any number of         *)
(* intents, files, transfers, keys and calls.                                *)
(*                                                                           *)
(* Only issues are serialised, so each promise rests on what a request knows *)
(* of the record it holds: the directory of an intent is deleted after the   *)
(* intent has left the map (Removals), a transfer writes before it marks     *)
(* (Transfers), an issue holds the lock from its sum to its record (Issues), *)
(* a promotion has persisted its intent as prepared (Room), and a            *)
(* registration writes bytes that nobody else writes before it inserts the   *)
(* row (Registering).                                                        *)
(***************************************************************************)
EXTENDS Artifacts, FiniteSetTheorems, WellFoundedInduction, TLAPS

(* The steps of each request. *)
Registers == {"find", "bytes", "row"}
Promotes == {"read", "copy", "unlink"} \union Registers
Removing == {"staged", "map", "dir"}
Labels(op) ==
    {"idle", "done", "lost"} \union
    CASE op = "issue" -> {"queued", "issue", "persist"}
      [] op = "put" -> {"write", "mark", "persist"}
      [] op = "resolve" -> {"stage", "prepared", "persist", "flow", "memo", "exec"}
                              \union Promotes \union Removing
      [] op = "cancel" -> Removing
      [] op = "dispatch" -> {"materialize"}
      [] op = "store" -> Registers
      [] op = "gc" -> {"gc", "gcrow"}
      [] op = "load" -> {"load"}
      [] OTHER -> {}
AnyLabel ==
    {"idle", "done", "lost", "queued", "issue", "persist", "write", "mark", "stage", "prepared",
     "flow", "memo", "exec", "materialize", "gc", "gcrow", "load"} \union Promotes \union Removing

Listings == SUBSET (Files \X (Contents \union {None}))
CallType ==
    [at : AnyLabel, i : Intents \union {0}, f : Files, reserved : Nat, sent : FileType,
     arts : Listings, t : Transfers \union {0},
     todo : SUBSET (Files \union Transfers \union (Files \X (Contents \union {None}))),
     res : {None, "ok", "fail"}]
RowType == [digest : Contents \union {None}, expired : BOOLEAN]

Types ==
    /\ plan \in Plans /\ call \in [Calls -> CallType]
    /\ live \subseteq Intents /\ idem \in [Keys -> Intents \union {0}]
    /\ obj \in [Intents -> RecType] /\ disk \in [Intents -> RecType]
    /\ held \in [Intents -> FileType]
    /\ work \in FileType /\ stable \in FileType /\ inputs \in FileType
    /\ reap \in [Intents -> {None, "staged", "map", "dir"}]
    /\ memo \in [status : {"working", "completed"}, key : Keys \union {NoKey}]
    /\ bag \in Listings
    /\ rows \in [Transfers -> RowType] /\ bytes \in [Transfers -> Contents \union {None}]
    /\ crashes \in Nat
    /\ history \in [gone : SUBSET Intents, undead : BOOLEAN, cut : BOOLEAN, overlap : BOOLEAN,
                    raced : BOOLEAN, reput : BOOLEAN, broken : BOOLEAN]

(* A request is at a step of its operation, and has what the step works on. *)
Place(c) ==
    /\ call[c].at \in Labels(Req(c).op)
    /\ call[c].at \in {"persist", "write", "mark", "stage", "prepared"} \union Removing => call[c].i # 0
    /\ Req(c).op = "resolve" => call[c].todo \in {{}, Files} /\ (call[c].todo # {} => call[c].i # 0)
    /\ Req(c).op = "resolve" /\ call[c].at \in Promotes \union {"persist"} => call[c].todo # {}
    /\ Req(c).op = "gc" => call[c].todo \subseteq Transfers
    /\ Req(c).op = "dispatch" => call[c].todo \subseteq call[c].arts
    /\ call[c].at = "gcrow" => call[c].t \in call[c].todo
    /\ call[c].at \in {"bytes", "row", "load"} => call[c].t \in Transfers
    /\ call[c].at \in {"bytes", "row"} /\ Req(c).tid # 0 => call[c].t = Req(c).tid
Places == \A c \in Calls : Place(c)

(* A record has a state once it is issued; the file of an intent is of its record. *)
Known(i) == obj[i].state # None
Records ==
    /\ \A i \in Intents : ~Known(i) => obj[i] = NoRec
    /\ \A i \in Intents : disk[i].state = None => disk[i] = NoRec
    /\ \A i \in Intents : Known(i) => obj[i].key \in Keys
    /\ \A i \in Intents : disk[i].state # None => Known(i) /\ disk[i].key = obj[i].key
    /\ \A i \in live \union history.gone : Known(i)
    /\ \A i \in Intents : reap[i] # None => Known(i)
    /\ \A c \in Calls : call[c].i # 0 => Known(call[c].i)
    /\ \A k \in Keys : idem[k] # 0 => idem[k] \in live /\ obj[idem[k]].key = k
    /\ \A i \in Intents : Known(i) => i \in live \union history.gone

(* An intent is out of the map before its directory is deleted, and stays out. *)
Removals ==
    /\ ~history.undead => live \intersect history.gone = {}
    /\ \A i \in Intents : reap[i] = "dir" => i \in history.gone
    /\ \A c \in Calls : call[c].at = "dir" => call[c].i \in history.gone

Base == Types /\ Places /\ Records /\ Removals

(* The bytes of the files that an intent accepted, or that its file says it did. *)
Accepted(i, rec) ==
    \A f \in rec.uploaded :
        /\ held[i][f] # None
        /\ ~history.raced => held[i][f] = rec.hash[f]
Transfer ==
    /\ \A i \in Intents \ history.gone :
          Accepted(i, obj[i]) /\ Accepted(i, disk[i]) /\ disk[i].uploaded \subseteq obj[i].uploaded
    /\ \A c \in Calls : call[c].at = "mark" /\ call[c].i \notin history.gone =>
          /\ held[call[c].i][Req(c).file] # None
          /\ ~history.raced => held[call[c].i][Req(c).file] = Req(c).bytes
    /\ ~history.raced =>
          /\ \A c \in Calls : Transferring(c) /\ call[c].i \notin history.gone =>
                Req(c).file \notin obj[call[c].i].uploaded
          /\ \A b, c \in Calls : Transferring(b) /\ Transferring(c) /\ call[b].i = call[c].i
                                   /\ Req(b).file = Req(c).file => b = c

(* A request that has not begun knows nothing. *)
Fresh == \A c \in Calls : call[c].at = "idle" => call[c] = Idle

(* One issue at a time sums the reservations and adds one. *)
Issues ==
    /\ \A c \in Calls : call[c].at = "issue" \/ (call[c].at = "persist" /\ Req(c).op = "issue") => lock = c
    /\ \A c \in Calls : call[c].at = "issue" => idem[Req(c).key] = 0 /\ Reserved(live) =< call[c].reserved
    /\ ~history.undead => \A i \in live : idem[obj[i].key] = i

(* What is promoted was reserved by an intent whose file says prepared. *)
Owing == {i \in live : disk[i].state # "prepared"}
Room ==
    ~history.cut /\ ~history.undead =>
        /\ \A i \in live : disk[i].state = "prepared" => obj[i].state = "prepared"
        /\ \A c \in Calls : Promoting(c) =>
              /\ call[c].i \in live
              /\ call[c].at = "persist" => obj[call[c].i].state = "prepared"
              /\ call[c].at \in Promotes \union {"flow"} => disk[call[c].i].state = "prepared"
        /\ Cardinality(Present(stable)) + Reserved(Owing) =< plan.ceiling
        /\ live # Owing => Size + Reserved(Owing) =< plan.ceiling

(* What a resolve lists. *)
Active == Promotes \union {"memo", "exec"}
Functional(list) == \A d, e \in list : d[1] = e[1] => d = e
Lists ==
    /\ bag # {} => memo.status = "completed"
    /\ Functional(bag)
    /\ \A c \in Calls : Req(c).op = "resolve" =>
          /\ call[c].at \in Promotes => call[c].arts = {}
          /\ call[c].at \in {"memo", "exec"} => Functional(call[c].arts)
          /\ call[c].at = "exec" => memo.status = "completed"

(* One resolve at a time promotes what it read. *)
Sent(c) == {<<f, call[c].sent[f]>> : f \in Files}
Copied(c, fs) == \A f \in fs : stable[f] = call[c].sent[f]
Promoted(c) ==
    /\ call[c].at \in Promotes \union {"memo"} => memo.status = "working"
    /\ call[c].at \in {"copy"} \union Registers => \A f \in Files : work[f] \in {None, call[c].sent[f]}
    /\ call[c].at = "copy" => Copied(c, {f \in Files : f < call[c].f})
    /\ call[c].at \in Registers => Copied(c, {f \in Files : f =< call[c].f})
    /\ call[c].at = "unlink" => Copied(c, Files)
    /\ call[c].at \in {"memo", "exec"} => call[c].arts = {} \/ (call[c].arts = Sent(c) /\ Copied(c, Files))
Promotion ==
    ~history.overlap =>
        /\ \A b, c \in Calls : Resolving(b) /\ Resolving(c) => b = c
        /\ \A c \in Calls : Req(c).op = "resolve" => Promoted(c)
Full == {e[1] : e \in bag} = Files
Answered ==
    plan.required /\ crashes = 0 /\ ~history.overlap =>
        /\ \A c \in Calls : Req(c).op = "resolve" /\ call[c].at \in {"memo", "exec"} => call[c].arts = Sent(c)
        /\ memo.status = "completed" => Full \/ \E c \in Calls : call[c].at = "exec"
        /\ \A c \in Calls : Req(c).op = "resolve" /\ call[c].res = "ok" => Full
Serve == Lists /\ Promotion /\ ListedIsStored /\ Answered

(* The consumer's directory has the files that are not to be copied any more. *)
OneDispatch ==
    \A q \in Plans : \A b, c \in Calls : q.req[b].op = "dispatch" /\ q.req[c].op = "dispatch" => b = c
Given ==
    \A c \in Calls : Req(c).op = "dispatch" =>
        /\ Functional(call[c].arts)
        /\ call[c].at = "materialize" => \A e \in call[c].arts \ call[c].todo : inputs[e[1]] = e[2]
        /\ call[c].res = "ok" => \A e \in call[c].arts : inputs[e[1]] = e[2]
        /\ call[c].at \in {"idle", "materialize"} => call[c].res = None

(* Sweeps come one after the other. *)
SweepsApart ==
    \A q \in Plans : \A b, c \in Calls : q.req[b].op = "gc" /\ q.req[c].op = "gc" =>
        b = c \/ b \in q.req[c].after \/ c \in q.req[b].after
Sweeps ==
    /\ \A c \in Calls : Req(c).op = "gc" /\ call[c].at # "idle" => \A b \in Req(c).after : Ended(b)
    /\ \A c \in Calls : call[c].at \in {"gc", "gcrow"} => \A t \in call[c].todo : rows[t].expired
Carries == {"copy", "load"} \union Registers
Registering ==
    /\ \A t \in Transfers : rows[t].digest = None => rows[t] = NoRow
    /\ \A c \in Calls : call[c].at \in Carries => \A f \in Files : call[c].sent[f] # None
    /\ \A c \in Calls : call[c].at \in {"bytes", "row"} /\ Req(c).tid = 0 =>
          /\ rows[call[c].t] = NoRow
          /\ \A b \in Calls : Req(b).tid # call[c].t /\ (b # c => call[b].t # call[c].t)
    /\ \A c \in Calls : call[c].at = "bytes" /\ Req(c).tid = 0 => bytes[call[c].t] = None
    /\ ~history.reput =>
          /\ \A c \in Calls : call[c].at = "row" =>
                /\ rows[call[c].t] = NoRow /\ bytes[call[c].t] = Digest(c)
                /\ \A b \in Calls : call[b].at = "row" /\ call[b].t = call[c].t => b = c
          /\ \A t \in Transfers : rows[t] # NoRow /\ ~rows[t].expired => bytes[t] = rows[t].digest
          /\ ~history.broken
-----------------------------------------------------------------------------
(* The plan, the files, and the least and the greatest of a set of numbers. *)

LEMMA PlanFacts ==
  ASSUME Types
  PROVE  /\ plan.ceiling \in Nat /\ plan.required \in BOOLEAN /\ plan.crashes \in Nat
         /\ \A c \in Calls : /\ Req(c) \in RequestType
                             /\ Req(c).op = "issue" => Req(c).key \in Keys
  BY ArtifactAssumption DEF Types, Req

LEMMA FileFacts ==
  /\ IsFiniteSet(Files) /\ Size \in Nat /\ Size > 0 /\ Files = 1..Size /\ 1 \in Files /\ Size \in Files
  /\ IsFiniteSet(Intents) /\ Intents \subseteq Nat \ {0}
  /\ IsFiniteSet(Transfers) /\ Transfers \subseteq Nat \ {0}
  <1>1. Size \in Nat /\ Cardinality(Intents) \in Nat /\ Cardinality(Transfers) \in Nat
    BY ArtifactAssumption, FS_CardinalityType DEF Size
  <1> QED BY <1>1, ArtifactAssumption DEF Size

LEMMA LeastExists ==
  ASSUME NEW S, S \subseteq Nat, S # {}
  PROVE  \E x \in S : \A y \in S : x =< y
  <1> DEFINE R == OpToRel(<, Nat)
  <1>1. PICK x \in S : \A y \in S : ~ (<<y, x>> \in R) BY NatLessThanWellFounded, WFMin, Zenon
  <1>2. \A y \in S : x =< y
    <2> SUFFICES ASSUME NEW y \in S, ~ (x =< y) PROVE FALSE
      OBVIOUS
    <2>1. y < x /\ x \in Nat /\ y \in Nat
      OBVIOUS
    <2>2. <<y, x>> \in R BY <2>1 DEF OpToRel
    <2> QED BY <1>1, <2>2, Zenon
  <1> QED BY <1>2

LEMMA LeastIsIn ==
  ASSUME NEW S, S \subseteq Nat, S # {}
  PROVE  Min(S) \in S
  BY LeastExists DEF Min

LEMMA GreatestIsIn ==
  ASSUME NEW S, S \subseteq Intents
  PROVE  /\ Max(S \union {0}) \in S \union {0}
         /\ S # {} => Max(S \union {0}) \in S
  <1> DEFINE n == Cardinality(Intents)
             T == S \union {0}
             D == {n - x : x \in T}
  <1>1. n \in Nat /\ Intents = 1..n BY ArtifactAssumption, FS_CardinalityType
  <1> HIDE DEF n
  <1>2. \A x \in T : x \in Nat /\ n - x \in Nat BY <1>1
  <1>3. D \subseteq Nat /\ D # {} BY <1>2
  <1>4. PICK d \in D : \A y \in D : d =< y BY <1>3, LeastExists
  <1>5. PICK x \in T : d = n - x BY <1>4
  <1>6. \A y \in T : x >= y
    <2> TAKE y \in T
    <2>1. n - y \in D
      OBVIOUS
    <2>2. d =< n - y BY <1>4, <2>1
    <2> QED BY <1>1, <1>2, <1>5, <2>2
  <1>7. Max(T) \in T /\ \A y \in T : Max(T) >= y
    <2> HIDE DEF T
    <2> QED BY <1>5, <1>6 DEF Max
  <1>8. ASSUME S # {} PROVE Max(T) # 0
    <2>1. PICK y \in S : TRUE BY <1>8
    <2>2. y \in T /\ y \in Nat /\ y > 0 BY <1>1
    <2> QED BY <1>7, <2>2
  <1> QED BY <1>7, <1>8

LEMMA FileTypes ==
  /\ NoFiles \in FileType
  /\ \A dir \in FileType : \A f \in Files : \A b \in Contents \union {None} : [dir EXCEPT ![f] = b] \in FileType
  /\ \A dir \in FileType : \A f \in Files : dir[f] \in Contents \union {None}
  BY DEF NoFiles, FileType

LEMMA Idles ==
  /\ Idle \in CallType /\ [Idle EXCEPT !.at = "done"] \in CallType /\ [Idle EXCEPT !.at = "lost"] \in CallType
  /\ NoRec \in RecType /\ NoRow \in RowType /\ NoRec.state = None /\ NoRec.uploaded = {}
  BY FileFacts, FileTypes, Zenon DEF Idle, CallType, AnyLabel, Promotes, Removing, Registers, Listings, NoRec, RecType,
     NoRow, RowType, FileType, NoFiles

-----------------------------------------------------------------------------
(* Types. *)

LEMMA CallTypes ==
  ASSUME NEW r \in CallType
  PROVE  /\ r.at \in AnyLabel /\ r.i \in Intents \union {0} /\ r.f \in Files /\ r.reserved \in Nat
         /\ r.sent \in FileType /\ r.arts \in Listings /\ r.t \in Transfers \union {0}
         /\ r.todo \in SUBSET (Files \union Transfers \union (Files \X (Contents \union {None})))
         /\ r.res \in {None, "ok", "fail"}
  BY DEF CallType

LEMMA IssuedAre ==
  ASSUME Types, Records
  PROVE  /\ Issued = {i \in Intents : Known(i)}
         /\ Issued # Intents => Min(Intents \ Issued) \in Intents /\ ~Known(Min(Intents \ Issued))
  <1>1. Issued = {i \in Intents : Known(i)} BY Idles DEF Issued, Known, Records
  <1>2. ASSUME Issued # Intents PROVE Min(Intents \ Issued) \in Intents \ Issued
    <2>1. Intents \ Issued # {} /\ Intents \ Issued \subseteq Nat BY <1>2, FileFacts DEF Issued
    <2> QED BY <2>1, LeastIsIn
  <1> QED BY <1>1, <1>2

LEMMA ReservedTypes == ASSUME NEW S, S \subseteq Intents PROVE Reserved(S) \in Nat
  <1>1. Cardinality(S) \in Nat /\ Size \in Nat BY FileFacts, FS_Subset, FS_CardinalityType
  <1> QED BY <1>1 DEF Reserved

(* The record of a call after one of its steps, and what else a step does. *)
Becomes(c, at, i, f, reserved, sent, arts, t, todo, res) ==
    /\ call' \in [Calls -> CallType] /\ \A d \in Calls : d # c => call'[d] = call[d]
    /\ call'[c].at = at /\ call'[c].i = i /\ call'[c].f = f /\ call'[c].reserved = reserved
    /\ call'[c].sent = sent /\ call'[c].arts = arts /\ call'[c].t = t /\ call'[c].todo = todo
    /\ call'[c].res = res
Observed(gone, undead, cut, overlap, raced, reput, broken) ==
    /\ history'.gone = gone /\ (history'.undead <=> undead) /\ (history'.cut <=> cut)
    /\ (history'.overlap <=> overlap) /\ (history'.raced <=> raced)
    /\ (history'.reput <=> reput) /\ (history'.broken <=> broken)
Cut(i) == \E b \in Calls : Promoting(b) /\ call[b].i = i
RemovedFromMap(i) ==
    /\ live' = live \ {i}
    /\ \A k \in Keys : idem'[k] = IF i \in live /\ obj[i].key = k THEN 0 ELSE idem[k]
    /\ Observed(history.gone \union {i}, history.undead, history.cut \/ Cut(i), history.overlap,
                history.raced, history.reput, history.broken)
Rewritten(i, key, state, uploaded) ==
    /\ \A j \in Intents : j # i => obj'[j] = obj[j]
    /\ obj'[i].key = key /\ obj'[i].state = state /\ obj'[i].uploaded = uploaded
Recorded(c, i) ==
    /\ live' = live \union {i} /\ idem' = [idem EXCEPT ![Req(c).key] = i]
    /\ Rewritten(i, Req(c).key, "open", {})
Refreshed(i, state) ==
    Rewritten(i, obj[i].key, state, obj[i].uploaded) /\ obj'[i].hash = obj[i].hash
Marked(i, file, content) ==
    /\ Rewritten(i, obj[i].key, obj[i].state, obj[i].uploaded \union {file})
    /\ obj'[i].hash[file] = content
    /\ \A f \in Files : f # file => obj'[i].hash[f] = obj[i].hash[f]
Racing(i, f) == \E b \in Calls : Transferring(b) /\ call[b].i = i /\ Req(b).file = f
Busy == \E b \in Calls : Resolving(b)
Occupied(c) == Req(c).tid # 0 /\ (rows[call[c].t] # NoRow \/ bytes[call[c].t] # None)
NoRoom(c) == Stored + call[c].reserved + Size > plan.ceiling \/ Issued = Intents
Admitted(c, i) ==
    ~(\/ obj[i].stale \/ obj[i].key # Req(c).key \/ obj[i].uploaded # Files
      \/ Stored + Reserved(live) > plan.ceiling)
Refused(c) ==
    \/ memo.status = "completed" /\ memo.key # Req(c).key
    \/ memo.status # "completed" /\ call[c].todo = {} /\ plan.required
Overfull == Present(work) # Files \/ Stored + Size > plan.ceiling
Lapsed == {t \in Transfers : rows[t].expired}
Found(c) == Req(c).tid = 0 /\ \E t \in Transfers : rows[t].digest = Digest(c)
Unserved(c) == rows[call[c].t].digest # Digest(c) \/ rows[call[c].t].expired

LEMMA IssueRouteMoves ==
  ASSUME Types, Places, Records, NEW c \in Calls, IssueRoute(c)
  PROVE  /\ Begins(c, "issue") /\ UNCHANGED plan
         /\ \/ /\ memo.status = "working"
               /\ Becomes(c, "queued", call[c].i, call[c].f, call[c].reserved, call[c].sent, call[c].arts, call[c].t, call[c].todo, call[c].res)
               /\ UNCHANGED <<lock, live, idem, obj, disk, held, reap, work, stable, inputs, memo, bag, rows, bytes, crashes, history>>
            \/ /\ memo.status # "working"
               /\ Becomes(c, "done", call[c].i, call[c].f, call[c].reserved, call[c].sent, call[c].arts, call[c].t, call[c].todo, "fail")
               /\ UNCHANGED <<lock, live, idem, obj, disk, held, reap, work, stable, inputs, memo, bag, rows, bytes, crashes, history>>
  <1>1. call \in [Calls -> CallType] /\ call[c] \in CallType BY DEF Types
  <1>2. Begins(c, "issue") /\ UNCHANGED plan BY IssuedAre DEF IssueRoute, At
  <1>b0. CASE memo.status = "working"
    <2>1. call' = [call EXCEPT ![c].at = "queued"] BY <1>b0 DEF IssueRoute, At, Goto, Answer, Begins
    <2>3. [call[c] EXCEPT !.at = "queued"] \in CallType /\ call' = [call EXCEPT ![c] = [call[c] EXCEPT !.at = "queued"]]
      BY <1>1, <2>1 DEF CallType, AnyLabel, Promotes, Removing, Registers
    <2>4. Becomes(c, "queued", call[c].i, call[c].f, call[c].reserved, call[c].sent, call[c].arts, call[c].t, call[c].todo, call[c].res)
      BY <1>1, <2>1, <2>3 DEF Becomes
    <2>5. /\ UNCHANGED <<lock, live, idem, obj, disk, held, reap, work, stable, inputs, memo, bag, rows, bytes, crashes, history>>
      BY <1>b0, <1>1, <1>2, PlanFacts, IssuedAre DEF IssueRoute, At, Goto, Answer, Begins, intents, tree, run,
         exchange, Types
    <2> QED BY <1>2, <1>b0, <2>4, <2>5
  <1>b1. CASE memo.status # "working"
    <2>1. call' = [call EXCEPT ![c].at = "done", ![c].res = "fail"]
      BY <1>b1 DEF IssueRoute, At, Goto, Answer, Begins
    <2>3. [call[c] EXCEPT !.at = "done", !.res = "fail"] \in CallType /\ call' = [call EXCEPT ![c] = [call[c] EXCEPT !.at = "done", !.res = "fail"]]
      BY <1>1, <2>1, Zenon DEF CallType, AnyLabel, Promotes, Removing, Registers
    <2>4. Becomes(c, "done", call[c].i, call[c].f, call[c].reserved, call[c].sent, call[c].arts, call[c].t, call[c].todo, "fail")
      BY <1>1, <2>1, <2>3 DEF Becomes
    <2>5. /\ UNCHANGED <<lock, live, idem, obj, disk, held, reap, work, stable, inputs, memo, bag, rows, bytes, crashes, history>>
      BY <1>b1, <1>1, <1>2, PlanFacts, IssuedAre DEF IssueRoute, At, Goto, Answer, Begins, intents, tree, run,
         exchange, Types
    <2> QED BY <1>2, <1>b1, <2>4, <2>5
  <1> QED BY <1>b0, <1>b1 DEF IssueRoute, Types

LEMMA IssueCheckMoves ==
  ASSUME Types, Places, Records, NEW c \in Calls, IssueCheck(c)
  PROVE  /\ call[c].at = "queued" /\ UNCHANGED plan
         /\ \/ /\ idem[Req(c).key] # 0
               /\ Becomes(c, "done", call[c].i, call[c].f, call[c].reserved, call[c].sent, call[c].arts, call[c].t, call[c].todo, "ok")
               /\ UNCHANGED <<lock, live, idem, obj, disk, held, reap, work, stable, inputs, memo, bag, rows, bytes, crashes, history>>
            \/ /\ idem[Req(c).key] = 0 /\ lock = None
               /\ Becomes(c, "issue", call[c].i, call[c].f, Reserved(live), call[c].sent, call[c].arts, call[c].t, call[c].todo, call[c].res)
               /\ lock' = c
               /\ UNCHANGED <<live, idem, obj, disk, held, reap, work, stable, inputs, memo, bag, rows, bytes, crashes, history>>
  <1>1. call \in [Calls -> CallType] /\ call[c] \in CallType BY DEF Types
  <1>2. call[c].at = "queued" /\ UNCHANGED plan BY IssuedAre DEF IssueCheck, At
  <1>b0. CASE idem[Req(c).key] # 0
    <2>1. call' = [call EXCEPT ![c].at = "done", ![c].res = "ok"] BY <1>b0 DEF IssueCheck, At, Goto, Answer
    <2>3. [call[c] EXCEPT !.at = "done", !.res = "ok"] \in CallType /\ call' = [call EXCEPT ![c] = [call[c] EXCEPT !.at = "done", !.res = "ok"]]
      BY <1>1, <2>1, Zenon DEF CallType, AnyLabel, Promotes, Removing, Registers
    <2>4. Becomes(c, "done", call[c].i, call[c].f, call[c].reserved, call[c].sent, call[c].arts, call[c].t, call[c].todo, "ok")
      BY <1>1, <2>1, <2>3 DEF Becomes
    <2>5. /\ UNCHANGED <<lock, live, idem, obj, disk, held, reap, work, stable, inputs, memo, bag, rows, bytes, crashes, history>>
      BY <1>b0, <1>1, <1>2, PlanFacts, IssuedAre DEF IssueCheck, At, Goto, Answer, intents, tree, run, exchange, Types
    <2> QED BY <1>2, <1>b0, <2>4, <2>5
  <1>b1. CASE idem[Req(c).key] = 0 /\ lock = None
    <2>1. call' = [call EXCEPT ![c].at = "issue", ![c].reserved = Reserved(live)]
      BY <1>b1 DEF IssueCheck, At, Goto, Answer
    <2>2. Reserved(live) \in Nat
      BY <1>1, <1>b1, CallTypes, PlanFacts, FileFacts, FileTypes, IssuedAre, ReservedTypes DEF IssueCheck, At, Goto,
         Answer, AnyLabel, Promotes, Removing, Registers, RequestType, Types
    <2>3. [call[c] EXCEPT !.at = "issue", !.reserved = Reserved(live)] \in CallType /\ call' = [call EXCEPT ![c] = [call[c] EXCEPT !.at = "issue", !.reserved = Reserved(live)]]
      BY <1>1, <2>1, <2>2, Zenon DEF CallType, AnyLabel, Promotes, Removing, Registers
    <2>4. Becomes(c, "issue", call[c].i, call[c].f, Reserved(live), call[c].sent, call[c].arts, call[c].t, call[c].todo, call[c].res)
      BY <1>1, <2>1, <2>3 DEF Becomes
    <2>5. /\ lock' = c /\ UNCHANGED <<live, idem, obj, disk, held, reap, work, stable, inputs, memo, bag, rows, bytes, crashes, history>>
      BY <1>b1, <1>1, <1>2, PlanFacts, IssuedAre DEF IssueCheck, At, Goto, Answer, intents, tree, run, exchange, Types
    <2> QED BY <1>2, <1>b1, <2>4, <2>5
  <1> QED BY <1>b0, <1>b1 DEF IssueCheck, Types

LEMMA IssueRecordMoves ==
  ASSUME Types, Places, Records, NEW c \in Calls, IssueRecord(c)
  PROVE  /\ call[c].at = "issue" /\ UNCHANGED plan
         /\ \/ /\ NoRoom(c)
               /\ Becomes(c, "done", call[c].i, call[c].f, call[c].reserved, call[c].sent, call[c].arts, call[c].t, call[c].todo, "fail")
               /\ lock' = None
               /\ UNCHANGED <<live, idem, obj, disk, held, reap, work, stable, inputs, memo, bag, rows, bytes, crashes, history>>
            \/ /\ ~NoRoom(c)
               /\ Becomes(c, "persist", Min(Intents \ Issued), call[c].f, call[c].reserved, call[c].sent, call[c].arts, call[c].t, call[c].todo, call[c].res)
               /\ Recorded(c, Min(Intents \ Issued))
               /\ UNCHANGED <<lock, disk, held, reap, work, stable, inputs, memo, bag, rows, bytes, crashes, history>>
  <1>1. call \in [Calls -> CallType] /\ call[c] \in CallType BY DEF Types
  <1>2. call[c].at = "issue" /\ UNCHANGED plan BY IssuedAre DEF IssueRecord, At
  <1>b0. CASE NoRoom(c)
    <2>1. call' = [call EXCEPT ![c].at = "done", ![c].res = "fail"]
      BY <1>b0 DEF IssueRecord, At, Goto, Answer, NoRoom
    <2>3. [call[c] EXCEPT !.at = "done", !.res = "fail"] \in CallType /\ call' = [call EXCEPT ![c] = [call[c] EXCEPT !.at = "done", !.res = "fail"]]
      BY <1>1, <2>1 DEF CallType, AnyLabel, Promotes, Removing, Registers
    <2>4. Becomes(c, "done", call[c].i, call[c].f, call[c].reserved, call[c].sent, call[c].arts, call[c].t, call[c].todo, "fail")
      BY <1>1, <2>1, <2>3 DEF Becomes
    <2>5. /\ lock' = None /\ UNCHANGED <<live, idem, obj, disk, held, reap, work, stable, inputs, memo, bag, rows, bytes, crashes, history>>
      BY <1>b0, <1>1, <1>2, PlanFacts, IssuedAre DEF IssueRecord, At, Goto, Answer, NoRoom, intents, tree, run,
         exchange, Types
    <2> QED BY <1>2, <1>b0, <2>4, <2>5
  <1>b1. CASE ~NoRoom(c)
    <2>1. call' = [call EXCEPT ![c].at = "persist", ![c].i = Min(Intents \ Issued)]
      BY <1>b1 DEF IssueRecord, At, Goto, Answer, NoRoom
    <2>2. Min(Intents \ Issued) \in Intents \union {0}
      BY <1>1, <1>b1, CallTypes, PlanFacts, FileFacts, FileTypes, IssuedAre, ReservedTypes DEF IssueRecord, At, Goto,
         Answer, NoRoom, AnyLabel, Promotes, Removing, Registers, RequestType, Types
    <2>3. [call[c] EXCEPT !.at = "persist", !.i = Min(Intents \ Issued)] \in CallType /\ call' = [call EXCEPT ![c] = [call[c] EXCEPT !.at = "persist", !.i = Min(Intents \ Issued)]]
      BY <1>1, <2>1, <2>2, Zenon DEF CallType, AnyLabel, Promotes, Removing, Registers
    <2>4. Becomes(c, "persist", Min(Intents \ Issued), call[c].f, call[c].reserved, call[c].sent, call[c].arts, call[c].t, call[c].todo, call[c].res)
      BY <1>1, <2>1, <2>3 DEF Becomes
    <2>a. obj' = [obj EXCEPT ![Min(Intents \ Issued)] = [NoRec EXCEPT !.key = Req(c).key, !.state = "open"]]
      BY <1>b1, <1>2 DEF IssueRecord, At, Goto, Answer, NoRoom
    <2>b. obj \in [Intents -> RecType] /\ Min(Intents \ Issued) \in Intents /\ obj[Min(Intents \ Issued)] \in RecType
      BY <1>b1, <1>1, <1>2, CallTypes, PlanFacts, IssuedAre DEF IssueRecord, At, Goto, Answer, NoRoom, Types, Places,
         Place, RequestType
    <2>c. Rewritten(Min(Intents \ Issued), Req(c).key, "open", {})
      BY <2>a, <2>b DEF Rewritten, Refreshed, Marked, RecType, NoRec
    <2>d. /\ live' = live \union {Min(Intents \ Issued)} /\ idem' = [idem EXCEPT ![Req(c).key] = Min(Intents \ Issued)] /\ UNCHANGED <<lock, disk, held, reap, work, stable, inputs, memo, bag, rows, bytes, crashes, history>>
      BY <1>b1, <1>2 DEF IssueRecord, At, Goto, Answer, NoRoom, intents, tree, run, exchange
    <2>5. /\ Recorded(c, Min(Intents \ Issued)) /\ UNCHANGED <<lock, disk, held, reap, work, stable, inputs, memo, bag, rows, bytes, crashes, history>>
      BY <2>c, <2>d DEF Recorded
    <2> QED BY <1>2, <1>b1, <2>4, <2>5
  <1> QED BY <1>b0, <1>b1 DEF IssueRecord, Types, NoRoom

LEMMA IssuePersistMoves ==
  ASSUME Types, Places, Records, NEW c \in Calls, IssuePersist(c)
  PROVE  /\ call[c].at = "persist" /\ Req(c).op = "issue" /\ UNCHANGED plan
         /\ Becomes(c, "done", call[c].i, call[c].f, call[c].reserved, call[c].sent, call[c].arts, call[c].t, call[c].todo, "ok")
            /\ disk' = [disk EXCEPT ![call[c].i] = obj[call[c].i]] /\ lock' = None
            /\ UNCHANGED <<live, idem, obj, held, reap, work, stable, inputs, memo, bag, rows, bytes, crashes, history>>
  <1>1. call \in [Calls -> CallType] /\ call[c] \in CallType BY DEF Types
  <1>2. call[c].at = "persist" /\ Req(c).op = "issue" /\ UNCHANGED plan BY IssuedAre DEF IssuePersist, At
  <1>3. call' = [call EXCEPT ![c].at = "done", ![c].res = "ok"] BY DEF IssuePersist, At, Goto, Answer, persist
  <1>5. [call[c] EXCEPT !.at = "done", !.res = "ok"] \in CallType /\ call' = [call EXCEPT ![c] = [call[c] EXCEPT !.at = "done", !.res = "ok"]]
    BY <1>1, <1>3 DEF CallType, AnyLabel, Promotes, Removing, Registers
  <1>6. Becomes(c, "done", call[c].i, call[c].f, call[c].reserved, call[c].sent, call[c].arts, call[c].t, call[c].todo, "ok")
    BY <1>1, <1>3, <1>5 DEF Becomes
  <1>7. /\ disk' = [disk EXCEPT ![call[c].i] = obj[call[c].i]] /\ lock' = None /\ UNCHANGED <<live, idem, obj, held, reap, work, stable, inputs, memo, bag, rows, bytes, crashes, history>>
    BY <1>1, <1>2, PlanFacts, IssuedAre DEF IssuePersist, At, Goto, Answer, persist, intents, tree, run, exchange,
       Types
  <1> QED BY <1>2, <1>6, <1>7

LEMMA CallStagedMoves ==
  ASSUME Types, Places, Records, NEW c \in Calls, CallStaged(c)
  PROVE  /\ call[c].at = "staged" /\ UNCHANGED plan
         /\ Becomes(c, "map", call[c].i, call[c].f, call[c].reserved, call[c].sent, call[c].arts, call[c].t, call[c].todo, call[c].res)
            /\ work' \in {work, NoFiles}
            /\ UNCHANGED <<lock, live, idem, obj, disk, held, reap, stable, inputs, memo, bag, rows, bytes, crashes, history>>
  <1>1. call \in [Calls -> CallType] /\ call[c] \in CallType BY DEF Types
  <1>2. call[c].at = "staged" /\ UNCHANGED plan BY IssuedAre DEF CallStaged, At
  <1>3. call' = [call EXCEPT ![c].at = "map"] BY DEF CallStaged, At, Goto, Answer, AbandonStaged
  <1>5. [call[c] EXCEPT !.at = "map"] \in CallType /\ call' = [call EXCEPT ![c] = [call[c] EXCEPT !.at = "map"]]
    BY <1>1, <1>3 DEF CallType, AnyLabel, Promotes, Removing, Registers
  <1>6. Becomes(c, "map", call[c].i, call[c].f, call[c].reserved, call[c].sent, call[c].arts, call[c].t, call[c].todo, call[c].res)
    BY <1>1, <1>3, <1>5 DEF Becomes
  <1>7. /\ work' \in {work, NoFiles} /\ UNCHANGED <<lock, live, idem, obj, disk, held, reap, stable, inputs, memo, bag, rows, bytes, crashes, history>>
    BY <1>1, <1>2, PlanFacts, IssuedAre DEF CallStaged, At, Goto, Answer, AbandonStaged, intents, tree, run, exchange,
       Types
  <1> QED BY <1>2, <1>6, <1>7

LEMMA CallMapMoves ==
  ASSUME Types, Places, Records, NEW c \in Calls, CallMap(c)
  PROVE  /\ call[c].at = "map" /\ UNCHANGED plan
         /\ Becomes(c, "dir", call[c].i, call[c].f, call[c].reserved, call[c].sent, call[c].arts, call[c].t, call[c].todo, call[c].res)
            /\ RemovedFromMap(call[c].i)
            /\ UNCHANGED <<lock, obj, disk, held, reap, work, stable, inputs, memo, bag, rows, bytes, crashes>>
  <1>1. call \in [Calls -> CallType] /\ call[c] \in CallType BY DEF Types
  <1>2. call[c].at = "map" /\ UNCHANGED plan BY IssuedAre DEF CallMap, At
  <1>3. call' = [call EXCEPT ![c].at = "dir"] BY DEF CallMap, At, Goto, Answer, removeMap
  <1>5. [call[c] EXCEPT !.at = "dir"] \in CallType /\ call' = [call EXCEPT ![c] = [call[c] EXCEPT !.at = "dir"]]
    BY <1>1, <1>3 DEF CallType, AnyLabel, Promotes, Removing, Registers
  <1>6. Becomes(c, "dir", call[c].i, call[c].f, call[c].reserved, call[c].sent, call[c].arts, call[c].t, call[c].todo, call[c].res)
    BY <1>1, <1>3, <1>5 DEF Becomes
  <1>7. /\ RemovedFromMap(call[c].i) /\ UNCHANGED <<lock, obj, disk, held, reap, work, stable, inputs, memo, bag, rows, bytes, crashes>>
    BY <1>1, <1>2, PlanFacts, IssuedAre DEF CallMap, At, Goto, Answer, removeMap, intents, tree, run, exchange, Types,
       RemovedFromMap, Observed, Cut
  <1> QED BY <1>2, <1>6, <1>7

LEMMA CallDirMoves ==
  ASSUME Types, Places, Records, NEW c \in Calls, CallDir(c)
  PROVE  /\ call[c].at = "dir" /\ UNCHANGED plan
         /\ \/ /\ call[c].res = None
               /\ Becomes(c, "done", call[c].i, call[c].f, call[c].reserved, call[c].sent, call[c].arts, call[c].t, call[c].todo, "fail")
               /\ disk' = [disk EXCEPT ![call[c].i] = NoRec] /\ held' = [held EXCEPT ![call[c].i] = NoFiles]
               /\ UNCHANGED <<lock, live, idem, obj, reap, work, stable, inputs, memo, bag, rows, bytes, crashes, history>>
            \/ /\ call[c].res # None
               /\ Becomes(c, "done", call[c].i, call[c].f, call[c].reserved, call[c].sent, call[c].arts, call[c].t, call[c].todo, call[c].res)
               /\ disk' = [disk EXCEPT ![call[c].i] = NoRec] /\ held' = [held EXCEPT ![call[c].i] = NoFiles]
               /\ UNCHANGED <<lock, live, idem, obj, reap, work, stable, inputs, memo, bag, rows, bytes, crashes, history>>
  <1>1. call \in [Calls -> CallType] /\ call[c] \in CallType BY DEF Types
  <1>2. call[c].at = "dir" /\ UNCHANGED plan BY IssuedAre DEF CallDir, At
  <1>b0. CASE call[c].res = None
    <2>1. call' = [call EXCEPT ![c].at = "done", ![c].res = "fail"]
      BY <1>b0 DEF CallDir, At, Goto, Answer, removeDir
    <2>3. [call[c] EXCEPT !.at = "done", !.res = "fail"] \in CallType /\ call' = [call EXCEPT ![c] = [call[c] EXCEPT !.at = "done", !.res = "fail"]]
      BY <1>1, <2>1 DEF CallType, AnyLabel, Promotes, Removing, Registers
    <2>4. Becomes(c, "done", call[c].i, call[c].f, call[c].reserved, call[c].sent, call[c].arts, call[c].t, call[c].todo, "fail")
      BY <1>1, <2>1, <2>3 DEF Becomes
    <2>5. /\ disk' = [disk EXCEPT ![call[c].i] = NoRec] /\ held' = [held EXCEPT ![call[c].i] = NoFiles] /\ UNCHANGED <<lock, live, idem, obj, reap, work, stable, inputs, memo, bag, rows, bytes, crashes, history>>
      BY <1>b0, <1>1, <1>2, PlanFacts, IssuedAre DEF CallDir, At, Goto, Answer, removeDir, intents, tree, run,
         exchange, Types
    <2> QED BY <1>2, <1>b0, <2>4, <2>5
  <1>b1. CASE call[c].res # None
    <2>1. call' = [call EXCEPT ![c].at = "done", ![c].res = call[c].res]
      BY <1>b1 DEF CallDir, At, Goto, Answer, removeDir
    <2>2. call[c].res \in {None, "ok", "fail"}
      BY <1>1, <1>b1, CallTypes, PlanFacts, FileFacts, FileTypes, IssuedAre, ReservedTypes DEF CallDir, At, Goto,
         Answer, removeDir, AnyLabel, Promotes, Removing, Registers, RequestType, Types
    <2>3. [call[c] EXCEPT !.at = "done", !.res = call[c].res] \in CallType /\ call' = [call EXCEPT ![c] = [call[c] EXCEPT !.at = "done", !.res = call[c].res]]
      BY <1>1, <2>1, <2>2, Zenon DEF CallType, AnyLabel, Promotes, Removing, Registers
    <2>4. Becomes(c, "done", call[c].i, call[c].f, call[c].reserved, call[c].sent, call[c].arts, call[c].t, call[c].todo, call[c].res)
      BY <1>1, <2>1, <2>3 DEF Becomes
    <2>5. /\ disk' = [disk EXCEPT ![call[c].i] = NoRec] /\ held' = [held EXCEPT ![call[c].i] = NoFiles] /\ UNCHANGED <<lock, live, idem, obj, reap, work, stable, inputs, memo, bag, rows, bytes, crashes, history>>
      BY <1>b1, <1>1, <1>2, PlanFacts, IssuedAre DEF CallDir, At, Goto, Answer, removeDir, intents, tree, run,
         exchange, Types
    <2> QED BY <1>2, <1>b1, <2>4, <2>5
  <1> QED BY <1>b0, <1>b1 DEF CallDir, Types

LEMMA AcceptWriteMoves ==
  ASSUME Types, Places, Records, NEW c \in Calls, AcceptWrite(c)
  PROVE  /\ call[c].at = "write" /\ UNCHANGED plan
         /\ Becomes(c, "mark", call[c].i, call[c].f, call[c].reserved, call[c].sent, call[c].arts, call[c].t, call[c].todo, call[c].res)
            /\ held' = [held EXCEPT ![call[c].i][Req(c).file] = Req(c).bytes]
            /\ UNCHANGED <<lock, live, idem, obj, disk, reap, work, stable, inputs, memo, bag, rows, bytes, crashes, history>>
  <1>1. call \in [Calls -> CallType] /\ call[c] \in CallType BY DEF Types
  <1>2. call[c].at = "write" /\ UNCHANGED plan BY IssuedAre DEF AcceptWrite, At
  <1>3. call' = [call EXCEPT ![c].at = "mark"] BY DEF AcceptWrite, At, Goto, Answer
  <1>5. [call[c] EXCEPT !.at = "mark"] \in CallType /\ call' = [call EXCEPT ![c] = [call[c] EXCEPT !.at = "mark"]]
    BY <1>1, <1>3 DEF CallType, AnyLabel, Promotes, Removing, Registers
  <1>6. Becomes(c, "mark", call[c].i, call[c].f, call[c].reserved, call[c].sent, call[c].arts, call[c].t, call[c].todo, call[c].res)
    BY <1>1, <1>3, <1>5 DEF Becomes
  <1>7. /\ held' = [held EXCEPT ![call[c].i][Req(c).file] = Req(c).bytes] /\ UNCHANGED <<lock, live, idem, obj, disk, reap, work, stable, inputs, memo, bag, rows, bytes, crashes, history>>
    BY <1>1, <1>2, PlanFacts, IssuedAre DEF AcceptWrite, At, Goto, Answer, intents, tree, run, exchange, Types
  <1> QED BY <1>2, <1>6, <1>7

LEMMA AcceptMarkMoves ==
  ASSUME Types, Places, Records, NEW c \in Calls, AcceptMark(c)
  PROVE  /\ call[c].at = "mark" /\ UNCHANGED plan
         /\ Becomes(c, "persist", call[c].i, call[c].f, call[c].reserved, call[c].sent, call[c].arts, call[c].t, call[c].todo, call[c].res)
            /\ Marked(call[c].i, Req(c).file, Req(c).bytes)
            /\ UNCHANGED <<lock, live, idem, disk, held, reap, work, stable, inputs, memo, bag, rows, bytes, crashes, history>>
  <1>1. call \in [Calls -> CallType] /\ call[c] \in CallType BY DEF Types
  <1>2. call[c].at = "mark" /\ UNCHANGED plan BY IssuedAre DEF AcceptMark, At
  <1>3. call' = [call EXCEPT ![c].at = "persist"] BY DEF AcceptMark, At, Goto, Answer
  <1>5. [call[c] EXCEPT !.at = "persist"] \in CallType /\ call' = [call EXCEPT ![c] = [call[c] EXCEPT !.at = "persist"]]
    BY <1>1, <1>3 DEF CallType, AnyLabel, Promotes, Removing, Registers
  <1>6. Becomes(c, "persist", call[c].i, call[c].f, call[c].reserved, call[c].sent, call[c].arts, call[c].t, call[c].todo, call[c].res)
    BY <1>1, <1>3, <1>5 DEF Becomes
  <1>a. obj' = [obj EXCEPT ![call[c].i].uploaded = @ \union {Req(c).file}, ![call[c].i].hash[Req(c).file] = Req(c).bytes, ![call[c].i].stale = FALSE]
    BY <1>2 DEF AcceptMark, At, Goto, Answer
  <1>b. obj \in [Intents -> RecType] /\ call[c].i \in Intents /\ obj[call[c].i] \in RecType /\ Req(c).file \in Files
    BY <1>1, <1>2, CallTypes, PlanFacts, IssuedAre DEF AcceptMark, At, Goto, Answer, Types, Places, Place, RequestType
  <1>c. Marked(call[c].i, Req(c).file, Req(c).bytes)
    BY <1>a, <1>b DEF Rewritten, Refreshed, Marked, RecType, NoRec
  <1>d. /\ UNCHANGED <<lock, live, idem, disk, held, reap, work, stable, inputs, memo, bag, rows, bytes, crashes, history>>
    BY <1>2 DEF AcceptMark, At, Goto, Answer, intents, tree, run, exchange
  <1>7. /\ Marked(call[c].i, Req(c).file, Req(c).bytes) /\ UNCHANGED <<lock, live, idem, disk, held, reap, work, stable, inputs, memo, bag, rows, bytes, crashes, history>>
    BY <1>c, <1>d DEF Recorded
  <1> QED BY <1>2, <1>6, <1>7

LEMMA AcceptPersistMoves ==
  ASSUME Types, Places, Records, NEW c \in Calls, AcceptPersist(c)
  PROVE  /\ call[c].at = "persist" /\ Req(c).op = "put" /\ UNCHANGED plan
         /\ Becomes(c, "done", call[c].i, call[c].f, call[c].reserved, call[c].sent, call[c].arts, call[c].t, call[c].todo, "ok")
            /\ disk' = [disk EXCEPT ![call[c].i] = obj[call[c].i]]
            /\ UNCHANGED <<lock, live, idem, obj, held, reap, work, stable, inputs, memo, bag, rows, bytes, crashes, history>>
  <1>1. call \in [Calls -> CallType] /\ call[c] \in CallType BY DEF Types
  <1>2. call[c].at = "persist" /\ Req(c).op = "put" /\ UNCHANGED plan BY IssuedAre DEF AcceptPersist, At
  <1>3. call' = [call EXCEPT ![c].at = "done", ![c].res = "ok"]
    BY DEF AcceptPersist, At, Goto, Answer, persist
  <1>5. [call[c] EXCEPT !.at = "done", !.res = "ok"] \in CallType /\ call' = [call EXCEPT ![c] = [call[c] EXCEPT !.at = "done", !.res = "ok"]]
    BY <1>1, <1>3 DEF CallType, AnyLabel, Promotes, Removing, Registers
  <1>6. Becomes(c, "done", call[c].i, call[c].f, call[c].reserved, call[c].sent, call[c].arts, call[c].t, call[c].todo, "ok")
    BY <1>1, <1>3, <1>5 DEF Becomes
  <1>7. /\ disk' = [disk EXCEPT ![call[c].i] = obj[call[c].i]] /\ UNCHANGED <<lock, live, idem, obj, held, reap, work, stable, inputs, memo, bag, rows, bytes, crashes, history>>
    BY <1>1, <1>2, PlanFacts, IssuedAre DEF AcceptPersist, At, Goto, Answer, persist, intents, tree, run, exchange,
       Types
  <1> QED BY <1>2, <1>6, <1>7

LEMMA CancelMoves ==
  ASSUME Types, Places, Records, NEW c \in Calls, NEW i \in Intents, Cancel(c, i)
  PROVE  /\ Begins(c, "cancel") /\ Known(i) /\ UNCHANGED plan
         /\ \/ /\ i \in live
               /\ Becomes(c, "staged", i, call[c].f, call[c].reserved, call[c].sent, call[c].arts, call[c].t, call[c].todo, "ok")
               /\ UNCHANGED <<lock, live, idem, obj, disk, held, reap, work, stable, inputs, memo, bag, rows, bytes, crashes, history>>
            \/ /\ i \notin live
               /\ Becomes(c, "done", call[c].i, call[c].f, call[c].reserved, call[c].sent, call[c].arts, call[c].t, call[c].todo, "fail")
               /\ UNCHANGED <<lock, live, idem, obj, disk, held, reap, work, stable, inputs, memo, bag, rows, bytes, crashes, history>>
  <1>1. call \in [Calls -> CallType] /\ call[c] \in CallType BY DEF Types
  <1>2. Begins(c, "cancel") /\ Known(i) /\ UNCHANGED plan BY IssuedAre DEF Cancel, At
  <1>b0. CASE i \in live
    <2>1. call' = [call EXCEPT ![c].at = "staged", ![c].i = i, ![c].res = "ok"]
      BY <1>b0 DEF Cancel, At, Goto, Answer, Begins
    <2>2. i \in Intents \union {0}
      BY <1>1, <1>b0, CallTypes, PlanFacts, FileFacts, FileTypes, IssuedAre, ReservedTypes DEF Cancel, At, Goto,
         Answer, Begins, AnyLabel, Promotes, Removing, Registers, RequestType, Types
    <2>3. [call[c] EXCEPT !.at = "staged", !.i = i, !.res = "ok"] \in CallType /\ call' = [call EXCEPT ![c] = [call[c] EXCEPT !.at = "staged", !.i = i, !.res = "ok"]]
      BY <1>1, <2>1, <2>2, Zenon DEF CallType, AnyLabel, Promotes, Removing, Registers
    <2>4. Becomes(c, "staged", i, call[c].f, call[c].reserved, call[c].sent, call[c].arts, call[c].t, call[c].todo, "ok")
      BY <1>1, <2>1, <2>3 DEF Becomes
    <2>5. /\ UNCHANGED <<lock, live, idem, obj, disk, held, reap, work, stable, inputs, memo, bag, rows, bytes, crashes, history>>
      BY <1>b0, <1>1, <1>2, PlanFacts, IssuedAre DEF Cancel, At, Goto, Answer, Begins, intents, tree, run, exchange,
         Types
    <2> QED BY <1>2, <1>b0, <2>4, <2>5
  <1>b1. CASE i \notin live
    <2>1. call' = [call EXCEPT ![c].at = "done", ![c].res = "fail"]
      BY <1>b1 DEF Cancel, At, Goto, Answer, Begins
    <2>3. [call[c] EXCEPT !.at = "done", !.res = "fail"] \in CallType /\ call' = [call EXCEPT ![c] = [call[c] EXCEPT !.at = "done", !.res = "fail"]]
      BY <1>1, <2>1, Zenon DEF CallType, AnyLabel, Promotes, Removing, Registers
    <2>4. Becomes(c, "done", call[c].i, call[c].f, call[c].reserved, call[c].sent, call[c].arts, call[c].t, call[c].todo, "fail")
      BY <1>1, <2>1, <2>3 DEF Becomes
    <2>5. /\ UNCHANGED <<lock, live, idem, obj, disk, held, reap, work, stable, inputs, memo, bag, rows, bytes, crashes, history>>
      BY <1>b1, <1>1, <1>2, PlanFacts, IssuedAre DEF Cancel, At, Goto, Answer, Begins, intents, tree, run, exchange,
         Types
    <2> QED BY <1>2, <1>b1, <2>4, <2>5
  <1> QED BY <1>b0, <1>b1 DEF Cancel, Types

LEMMA AcceptCheckMoves ==
  ASSUME Types, Places, Records, NEW c \in Calls, NEW i \in Intents, AcceptCheck(c, i)
  PROVE  /\ Begins(c, "put") /\ Known(i) /\ UNCHANGED plan
         /\ \/ /\ ~requireOpen(i)
               /\ Becomes(c, "done", call[c].i, call[c].f, call[c].reserved, call[c].sent, call[c].arts, call[c].t, call[c].todo, "fail")
               /\ LapsedAbandon(i)
               /\ UNCHANGED <<lock, live, idem, obj, disk, held, work, stable, inputs, memo, bag, rows, bytes, crashes, history>>
            \/ /\ requireOpen(i) /\ Req(c).file \in obj[i].uploaded /\ obj[i].hash[Req(c).file] = Req(c).bytes
               /\ Becomes(c, "persist", i, call[c].f, call[c].reserved, call[c].sent, call[c].arts, call[c].t, call[c].todo, call[c].res)
               /\ LapsedAbandon(i) /\ Refreshed(i, obj[i].state)
               /\ UNCHANGED <<lock, live, idem, disk, held, work, stable, inputs, memo, bag, rows, bytes, crashes, history>>
            \/ /\ requireOpen(i) /\ Req(c).file \in obj[i].uploaded /\ obj[i].hash[Req(c).file] # Req(c).bytes
               /\ Becomes(c, "done", call[c].i, call[c].f, call[c].reserved, call[c].sent, call[c].arts, call[c].t, call[c].todo, "fail")
               /\ LapsedAbandon(i)
               /\ UNCHANGED <<lock, live, idem, obj, disk, held, work, stable, inputs, memo, bag, rows, bytes, crashes, history>>
            \/ /\ requireOpen(i) /\ Req(c).file \notin obj[i].uploaded
               /\ Becomes(c, "write", i, call[c].f, call[c].reserved, call[c].sent, call[c].arts, call[c].t, call[c].todo, call[c].res)
               /\ LapsedAbandon(i) /\ Observed(history.gone, history.undead, history.cut, history.overlap, history.raced \/ Racing(i, Req(c).file), history.reput, history.broken)
               /\ UNCHANGED <<lock, live, idem, obj, disk, held, work, stable, inputs, memo, bag, rows, bytes, crashes>>
  <1>1. call \in [Calls -> CallType] /\ call[c] \in CallType BY DEF Types
  <1>2. Begins(c, "put") /\ Known(i) /\ UNCHANGED plan BY IssuedAre DEF AcceptCheck, At
  <1>b0. CASE ~requireOpen(i)
    <2>1. call' = [call EXCEPT ![c].at = "done", ![c].res = "fail"]
      BY <1>b0 DEF AcceptCheck, At, Goto, Answer, Begins, LapsedAbandon, requireOpen
    <2>3. [call[c] EXCEPT !.at = "done", !.res = "fail"] \in CallType /\ call' = [call EXCEPT ![c] = [call[c] EXCEPT !.at = "done", !.res = "fail"]]
      BY <1>1, <2>1 DEF CallType, AnyLabel, Promotes, Removing, Registers
    <2>4. Becomes(c, "done", call[c].i, call[c].f, call[c].reserved, call[c].sent, call[c].arts, call[c].t, call[c].todo, "fail")
      BY <1>1, <2>1, <2>3 DEF Becomes
    <2>5. /\ LapsedAbandon(i) /\ UNCHANGED <<lock, live, idem, obj, disk, held, work, stable, inputs, memo, bag, rows, bytes, crashes, history>>
      BY <1>b0, <1>1, <1>2, PlanFacts, IssuedAre DEF AcceptCheck, At, Goto, Answer, Begins, LapsedAbandon,
         requireOpen, intents, tree, run, exchange, Types
    <2> QED BY <1>2, <1>b0, <2>4, <2>5
  <1>b1. CASE requireOpen(i) /\ Req(c).file \in obj[i].uploaded /\ obj[i].hash[Req(c).file] = Req(c).bytes
    <2>1. call' = [call EXCEPT ![c].at = "persist", ![c].i = i]
      BY <1>b1 DEF AcceptCheck, At, Goto, Answer, Begins, LapsedAbandon, requireOpen
    <2>2. i \in Intents \union {0}
      BY <1>1, <1>b1, CallTypes, PlanFacts, FileFacts, FileTypes, IssuedAre, ReservedTypes DEF AcceptCheck, At, Goto,
         Answer, Begins, LapsedAbandon, requireOpen, AnyLabel, Promotes, Removing, Registers, RequestType, Types
    <2>3. [call[c] EXCEPT !.at = "persist", !.i = i] \in CallType /\ call' = [call EXCEPT ![c] = [call[c] EXCEPT !.at = "persist", !.i = i]]
      BY <1>1, <2>1, <2>2, Zenon DEF CallType, AnyLabel, Promotes, Removing, Registers
    <2>4. Becomes(c, "persist", i, call[c].f, call[c].reserved, call[c].sent, call[c].arts, call[c].t, call[c].todo, call[c].res)
      BY <1>1, <2>1, <2>3 DEF Becomes
    <2>a. obj' = [obj EXCEPT ![i].stale = FALSE]
      BY <1>b1, <1>2 DEF AcceptCheck, At, Goto, Answer, Begins, LapsedAbandon, requireOpen
    <2>b. obj \in [Intents -> RecType] /\ i \in Intents /\ obj[i] \in RecType
      BY <1>b1, <1>1, <1>2, CallTypes, PlanFacts, IssuedAre DEF AcceptCheck, At, Goto, Answer, Begins, LapsedAbandon,
         requireOpen, Types, Places, Place, RequestType
    <2>c. Refreshed(i, obj[i].state) BY <2>a, <2>b DEF Rewritten, Refreshed, Marked, RecType, NoRec
    <2>d. /\ LapsedAbandon(i) /\ UNCHANGED <<lock, live, idem, disk, held, work, stable, inputs, memo, bag, rows, bytes, crashes, history>>
      BY <1>b1, <1>2 DEF AcceptCheck, At, Goto, Answer, Begins, LapsedAbandon, requireOpen, intents, tree, run,
         exchange
    <2>5. /\ LapsedAbandon(i) /\ Refreshed(i, obj[i].state) /\ UNCHANGED <<lock, live, idem, disk, held, work, stable, inputs, memo, bag, rows, bytes, crashes, history>>
      BY <2>c, <2>d DEF Recorded
    <2> QED BY <1>2, <1>b1, <2>4, <2>5
  <1>b2. CASE requireOpen(i) /\ Req(c).file \in obj[i].uploaded /\ obj[i].hash[Req(c).file] # Req(c).bytes
    <2>1. call' = [call EXCEPT ![c].at = "done", ![c].res = "fail"]
      BY <1>b2 DEF AcceptCheck, At, Goto, Answer, Begins, LapsedAbandon, requireOpen
    <2>3. [call[c] EXCEPT !.at = "done", !.res = "fail"] \in CallType /\ call' = [call EXCEPT ![c] = [call[c] EXCEPT !.at = "done", !.res = "fail"]]
      BY <1>1, <2>1 DEF CallType, AnyLabel, Promotes, Removing, Registers
    <2>4. Becomes(c, "done", call[c].i, call[c].f, call[c].reserved, call[c].sent, call[c].arts, call[c].t, call[c].todo, "fail")
      BY <1>1, <2>1, <2>3 DEF Becomes
    <2>5. /\ LapsedAbandon(i) /\ UNCHANGED <<lock, live, idem, obj, disk, held, work, stable, inputs, memo, bag, rows, bytes, crashes, history>>
      BY <1>b2, <1>1, <1>2, PlanFacts, IssuedAre DEF AcceptCheck, At, Goto, Answer, Begins, LapsedAbandon,
         requireOpen, intents, tree, run, exchange, Types
    <2> QED BY <1>2, <1>b2, <2>4, <2>5
  <1>b3. CASE requireOpen(i) /\ Req(c).file \notin obj[i].uploaded
    <2>1. call' = [call EXCEPT ![c].at = "write", ![c].i = i]
      BY <1>b3 DEF AcceptCheck, At, Goto, Answer, Begins, LapsedAbandon, requireOpen
    <2>2. i \in Intents \union {0}
      BY <1>1, <1>b3, CallTypes, PlanFacts, FileFacts, FileTypes, IssuedAre, ReservedTypes DEF AcceptCheck, At, Goto,
         Answer, Begins, LapsedAbandon, requireOpen, AnyLabel, Promotes, Removing, Registers, RequestType, Types
    <2>3. [call[c] EXCEPT !.at = "write", !.i = i] \in CallType /\ call' = [call EXCEPT ![c] = [call[c] EXCEPT !.at = "write", !.i = i]]
      BY <1>1, <2>1, <2>2, Zenon DEF CallType, AnyLabel, Promotes, Removing, Registers
    <2>4. Becomes(c, "write", i, call[c].f, call[c].reserved, call[c].sent, call[c].arts, call[c].t, call[c].todo, call[c].res)
      BY <1>1, <2>1, <2>3 DEF Becomes
    <2>a. history' = [history EXCEPT !.raced = @ \/ Racing(i, Req(c).file)]
      BY <1>b3 DEF AcceptCheck, requireOpen, Racing
    <2>b. Observed(history.gone, history.undead, history.cut, history.overlap, history.raced \/ Racing(i, Req(c).file), history.reput, history.broken)
      BY <2>a DEF Types, Observed
    <2>c. /\ LapsedAbandon(i)
          /\ UNCHANGED <<lock, live, idem, obj, disk, held, work, stable, inputs, memo, bag, rows, bytes, crashes>>
      BY <1>b3 DEF AcceptCheck, requireOpen, intents, tree, run, exchange
    <2>5. /\ LapsedAbandon(i) /\ Observed(history.gone, history.undead, history.cut, history.overlap, history.raced \/ Racing(i, Req(c).file), history.reput, history.broken) /\ UNCHANGED <<lock, live, idem, obj, disk, held, work, stable, inputs, memo, bag, rows, bytes, crashes>>
      BY <2>b, <2>c
    <2> QED BY <1>2, <1>b3, <2>4, <2>5
  <1> QED BY <1>b0, <1>b1, <1>b2, <1>b3 DEF AcceptCheck, Types

LEMMA prepareResolveMoves ==
  ASSUME Types, Places, Records, NEW c \in Calls, NEW i \in Intents, prepareResolve(c, i)
  PROVE  /\ Begins(c, "resolve") /\ Known(i) /\ UNCHANGED plan
         /\ \/ /\ i \notin live
               /\ Becomes(c, "flow", call[c].i, call[c].f, call[c].reserved, call[c].sent, call[c].arts, call[c].t, call[c].todo, call[c].res)
               /\ LapsedAbandon(i) /\ Observed(history.gone, history.undead, history.cut, history.overlap \/ Busy, history.raced, history.reput, history.broken)
               /\ UNCHANGED <<lock, live, idem, obj, disk, held, work, stable, inputs, memo, bag, rows, bytes, crashes>>
            \/ /\ i \in live /\ obj[i].state # "open"
               /\ Becomes(c, "flow", i, call[c].f, call[c].reserved, call[c].sent, call[c].arts, call[c].t, call[c].todo, call[c].res)
               /\ LapsedAbandon(i) /\ Observed(history.gone, history.undead, history.cut, history.overlap \/ Busy, history.raced, history.reput, history.broken)
               /\ UNCHANGED <<lock, live, idem, obj, disk, held, work, stable, inputs, memo, bag, rows, bytes, crashes>>
            \/ /\ i \in live /\ obj[i].state = "open" /\ ~Admitted(c, i)
               /\ Becomes(c, "done", call[c].i, call[c].f, call[c].reserved, call[c].sent, call[c].arts, call[c].t, call[c].todo, "fail")
               /\ LapsedAbandon(i) /\ Observed(history.gone, history.undead, history.cut, history.overlap \/ Busy, history.raced, history.reput, history.broken)
               /\ UNCHANGED <<lock, live, idem, obj, disk, held, work, stable, inputs, memo, bag, rows, bytes, crashes>>
            \/ /\ i \in live /\ obj[i].state = "open" /\ Admitted(c, i)
               /\ Becomes(c, "stage", i, call[c].f, call[c].reserved, call[c].sent, call[c].arts, call[c].t, call[c].todo, call[c].res)
               /\ LapsedAbandon(i) /\ Observed(history.gone, history.undead, history.cut, history.overlap \/ Busy, history.raced, history.reput, history.broken)
               /\ UNCHANGED <<lock, live, idem, obj, disk, held, work, stable, inputs, memo, bag, rows, bytes, crashes>>
  <1>1. call \in [Calls -> CallType] /\ call[c] \in CallType BY DEF Types
  <1>2. Begins(c, "resolve") /\ Known(i) /\ UNCHANGED plan BY IssuedAre DEF prepareResolve, At
  <1>b0. CASE i \notin live
    <2>1. call' = [call EXCEPT ![c].at = "flow"]
      BY <1>b0 DEF prepareResolve, At, Goto, Answer, Begins, LapsedAbandon, Admitted
    <2>3. [call[c] EXCEPT !.at = "flow"] \in CallType /\ call' = [call EXCEPT ![c] = [call[c] EXCEPT !.at = "flow"]]
      BY <1>1, <2>1 DEF CallType, AnyLabel, Promotes, Removing, Registers
    <2>4. Becomes(c, "flow", call[c].i, call[c].f, call[c].reserved, call[c].sent, call[c].arts, call[c].t, call[c].todo, call[c].res)
      BY <1>1, <2>1, <2>3 DEF Becomes
    <2>5. /\ LapsedAbandon(i) /\ Observed(history.gone, history.undead, history.cut, history.overlap \/ Busy, history.raced, history.reput, history.broken) /\ UNCHANGED <<lock, live, idem, obj, disk, held, work, stable, inputs, memo, bag, rows, bytes, crashes>>
      BY <1>b0, <1>1, <1>2, PlanFacts, IssuedAre DEF prepareResolve, At, Goto, Answer, Begins, LapsedAbandon,
         Admitted, intents, tree, run, exchange, Types, Observed, Busy
    <2> QED BY <1>2, <1>b0, <2>4, <2>5
  <1>b1. CASE i \in live /\ obj[i].state # "open"
    <2>1. call' = [call EXCEPT ![c].at = "flow", ![c].i = i]
      BY <1>b1 DEF prepareResolve, At, Goto, Answer, Begins, LapsedAbandon, Admitted
    <2>2. i \in Intents \union {0}
      BY <1>1, <1>b1, CallTypes, PlanFacts, FileFacts, FileTypes, IssuedAre, ReservedTypes DEF prepareResolve, At,
         Goto, Answer, Begins, LapsedAbandon, Admitted, AnyLabel, Promotes, Removing, Registers, RequestType, Types
    <2>3. [call[c] EXCEPT !.at = "flow", !.i = i] \in CallType /\ call' = [call EXCEPT ![c] = [call[c] EXCEPT !.at = "flow", !.i = i]]
      BY <1>1, <2>1, <2>2, Zenon DEF CallType, AnyLabel, Promotes, Removing, Registers
    <2>4. Becomes(c, "flow", i, call[c].f, call[c].reserved, call[c].sent, call[c].arts, call[c].t, call[c].todo, call[c].res)
      BY <1>1, <2>1, <2>3 DEF Becomes
    <2>5. /\ LapsedAbandon(i) /\ Observed(history.gone, history.undead, history.cut, history.overlap \/ Busy, history.raced, history.reput, history.broken) /\ UNCHANGED <<lock, live, idem, obj, disk, held, work, stable, inputs, memo, bag, rows, bytes, crashes>>
      BY <1>b1, <1>1, <1>2, PlanFacts, IssuedAre DEF prepareResolve, At, Goto, Answer, Begins, LapsedAbandon,
         Admitted, intents, tree, run, exchange, Types, Observed, Busy
    <2> QED BY <1>2, <1>b1, <2>4, <2>5
  <1>b2. CASE i \in live /\ obj[i].state = "open" /\ ~Admitted(c, i)
    <2>1. call' = [call EXCEPT ![c].at = "done", ![c].res = "fail"]
      BY <1>b2 DEF prepareResolve, At, Goto, Answer, Begins, LapsedAbandon, Admitted
    <2>3. [call[c] EXCEPT !.at = "done", !.res = "fail"] \in CallType /\ call' = [call EXCEPT ![c] = [call[c] EXCEPT !.at = "done", !.res = "fail"]]
      BY <1>1, <2>1 DEF CallType, AnyLabel, Promotes, Removing, Registers
    <2>4. Becomes(c, "done", call[c].i, call[c].f, call[c].reserved, call[c].sent, call[c].arts, call[c].t, call[c].todo, "fail")
      BY <1>1, <2>1, <2>3 DEF Becomes
    <2>5. /\ LapsedAbandon(i) /\ Observed(history.gone, history.undead, history.cut, history.overlap \/ Busy, history.raced, history.reput, history.broken) /\ UNCHANGED <<lock, live, idem, obj, disk, held, work, stable, inputs, memo, bag, rows, bytes, crashes>>
      BY <1>b2, <1>1, <1>2, PlanFacts, IssuedAre DEF prepareResolve, At, Goto, Answer, Begins, LapsedAbandon,
         Admitted, intents, tree, run, exchange, Types, Observed, Busy
    <2> QED BY <1>2, <1>b2, <2>4, <2>5
  <1>b3. CASE i \in live /\ obj[i].state = "open" /\ Admitted(c, i)
    <2>1. call' = [call EXCEPT ![c].at = "stage", ![c].i = i]
      BY <1>b3 DEF prepareResolve, At, Goto, Answer, Begins, LapsedAbandon, Admitted
    <2>2. i \in Intents \union {0}
      BY <1>1, <1>b3, CallTypes, PlanFacts, FileFacts, FileTypes, IssuedAre, ReservedTypes DEF prepareResolve, At,
         Goto, Answer, Begins, LapsedAbandon, Admitted, AnyLabel, Promotes, Removing, Registers, RequestType, Types
    <2>3. [call[c] EXCEPT !.at = "stage", !.i = i] \in CallType /\ call' = [call EXCEPT ![c] = [call[c] EXCEPT !.at = "stage", !.i = i]]
      BY <1>1, <2>1, <2>2, Zenon DEF CallType, AnyLabel, Promotes, Removing, Registers
    <2>4. Becomes(c, "stage", i, call[c].f, call[c].reserved, call[c].sent, call[c].arts, call[c].t, call[c].todo, call[c].res)
      BY <1>1, <2>1, <2>3 DEF Becomes
    <2>5. /\ LapsedAbandon(i) /\ Observed(history.gone, history.undead, history.cut, history.overlap \/ Busy, history.raced, history.reput, history.broken) /\ UNCHANGED <<lock, live, idem, obj, disk, held, work, stable, inputs, memo, bag, rows, bytes, crashes>>
      BY <1>b3, <1>1, <1>2, PlanFacts, IssuedAre DEF prepareResolve, At, Goto, Answer, Begins, LapsedAbandon,
         Admitted, intents, tree, run, exchange, Types, Observed, Busy
    <2> QED BY <1>2, <1>b3, <2>4, <2>5
  <1> QED BY <1>b0, <1>b1, <1>b2, <1>b3 DEF prepareResolve, Types, Admitted

LEMMA StageFileMoves ==
  ASSUME Types, Places, Records, NEW c \in Calls, StageFile(c)
  PROVE  /\ call[c].at = "stage" /\ UNCHANGED plan
         /\ \/ /\ held[call[c].i][call[c].f] = None
               /\ Becomes(c, "done", call[c].i, call[c].f, call[c].reserved, call[c].sent, call[c].arts, call[c].t, call[c].todo, "fail")
               /\ UNCHANGED <<lock, live, idem, obj, disk, held, reap, work, stable, inputs, memo, bag, rows, bytes, crashes, history>>
            \/ /\ held[call[c].i][call[c].f] # None /\ call[c].f = Size
               /\ Becomes(c, "prepared", call[c].i, 1, call[c].reserved, call[c].sent, call[c].arts, call[c].t, call[c].todo, call[c].res)
               /\ work' = [work EXCEPT ![call[c].f] = held[call[c].i][call[c].f]]
               /\ UNCHANGED <<lock, live, idem, obj, disk, held, reap, stable, inputs, memo, bag, rows, bytes, crashes, history>>
            \/ /\ held[call[c].i][call[c].f] # None /\ call[c].f # Size
               /\ Becomes(c, "stage", call[c].i, call[c].f + 1, call[c].reserved, call[c].sent, call[c].arts, call[c].t, call[c].todo, call[c].res)
               /\ work' = [work EXCEPT ![call[c].f] = held[call[c].i][call[c].f]]
               /\ UNCHANGED <<lock, live, idem, obj, disk, held, reap, stable, inputs, memo, bag, rows, bytes, crashes, history>>
  <1>1. call \in [Calls -> CallType] /\ call[c] \in CallType BY DEF Types
  <1>2. call[c].at = "stage" /\ UNCHANGED plan BY IssuedAre DEF StageFile, At
  <1>b0. CASE held[call[c].i][call[c].f] = None
    <2>1. call' = [call EXCEPT ![c].at = "done", ![c].res = "fail"] BY <1>b0 DEF StageFile, At, Goto, Answer
    <2>3. [call[c] EXCEPT !.at = "done", !.res = "fail"] \in CallType /\ call' = [call EXCEPT ![c] = [call[c] EXCEPT !.at = "done", !.res = "fail"]]
      BY <1>1, <2>1 DEF CallType, AnyLabel, Promotes, Removing, Registers
    <2>4. Becomes(c, "done", call[c].i, call[c].f, call[c].reserved, call[c].sent, call[c].arts, call[c].t, call[c].todo, "fail")
      BY <1>1, <2>1, <2>3 DEF Becomes
    <2>5. /\ UNCHANGED <<lock, live, idem, obj, disk, held, reap, work, stable, inputs, memo, bag, rows, bytes, crashes, history>>
      BY <1>b0, <1>1, <1>2, PlanFacts, IssuedAre DEF StageFile, At, Goto, Answer, intents, tree, run, exchange, Types
    <2> QED BY <1>2, <1>b0, <2>4, <2>5
  <1>b1. CASE held[call[c].i][call[c].f] # None /\ call[c].f = Size
    <2>1. call' = [call EXCEPT ![c].f = 1, ![c].at = "prepared"] BY <1>b1 DEF StageFile, At, Goto, Answer
    <2>2. 1 \in Files
      BY <1>1, <1>b1, CallTypes, PlanFacts, FileFacts, FileTypes, IssuedAre, ReservedTypes DEF StageFile, At, Goto,
         Answer, AnyLabel, Promotes, Removing, Registers, RequestType, Types
    <2>3. [call[c] EXCEPT !.f = 1, !.at = "prepared"] \in CallType /\ call' = [call EXCEPT ![c] = [call[c] EXCEPT !.f = 1, !.at = "prepared"]]
      BY <1>1, <2>1, <2>2, Zenon DEF CallType, AnyLabel, Promotes, Removing, Registers
    <2>4. Becomes(c, "prepared", call[c].i, 1, call[c].reserved, call[c].sent, call[c].arts, call[c].t, call[c].todo, call[c].res)
      BY <1>1, <2>1, <2>3 DEF Becomes
    <2>5. /\ work' = [work EXCEPT ![call[c].f] = held[call[c].i][call[c].f]] /\ UNCHANGED <<lock, live, idem, obj, disk, held, reap, stable, inputs, memo, bag, rows, bytes, crashes, history>>
      BY <1>b1, <1>1, <1>2, PlanFacts, IssuedAre DEF StageFile, At, Goto, Answer, intents, tree, run, exchange, Types
    <2> QED BY <1>2, <1>b1, <2>4, <2>5
  <1>b2. CASE held[call[c].i][call[c].f] # None /\ call[c].f # Size
    <2>1. call' = [call EXCEPT ![c].f = call[c].f + 1, ![c].at = "stage"]
      BY <1>b2 DEF StageFile, At, Goto, Answer
    <2>2. call[c].f + 1 \in Files
      BY <1>1, <1>b2, CallTypes, PlanFacts, FileFacts, FileTypes, IssuedAre, ReservedTypes DEF StageFile, At, Goto,
         Answer, AnyLabel, Promotes, Removing, Registers, RequestType, Types
    <2>3. [call[c] EXCEPT !.f = call[c].f + 1, !.at = "stage"] \in CallType /\ call' = [call EXCEPT ![c] = [call[c] EXCEPT !.f = call[c].f + 1, !.at = "stage"]]
      BY <1>1, <2>1, <2>2, Zenon DEF CallType, AnyLabel, Promotes, Removing, Registers
    <2>4. Becomes(c, "stage", call[c].i, call[c].f + 1, call[c].reserved, call[c].sent, call[c].arts, call[c].t, call[c].todo, call[c].res)
      BY <1>1, <2>1, <2>3 DEF Becomes
    <2>5. /\ work' = [work EXCEPT ![call[c].f] = held[call[c].i][call[c].f]] /\ UNCHANGED <<lock, live, idem, obj, disk, held, reap, stable, inputs, memo, bag, rows, bytes, crashes, history>>
      BY <1>b2, <1>1, <1>2, PlanFacts, IssuedAre DEF StageFile, At, Goto, Answer, intents, tree, run, exchange, Types
    <2> QED BY <1>2, <1>b2, <2>4, <2>5
  <1> QED BY <1>b0, <1>b1, <1>b2 DEF StageFile, Types

LEMMA MarkPreparedMoves ==
  ASSUME Types, Places, Records, NEW c \in Calls, MarkPrepared(c)
  PROVE  /\ call[c].at = "prepared" /\ UNCHANGED plan
         /\ Becomes(c, "persist", call[c].i, call[c].f, call[c].reserved, call[c].sent, call[c].arts, call[c].t, Files, call[c].res)
            /\ Refreshed(call[c].i, "prepared")
            /\ UNCHANGED <<lock, live, idem, disk, held, reap, work, stable, inputs, memo, bag, rows, bytes, crashes, history>>
  <1>1. call \in [Calls -> CallType] /\ call[c] \in CallType BY DEF Types
  <1>2. call[c].at = "prepared" /\ UNCHANGED plan BY IssuedAre DEF MarkPrepared, At
  <1>3. call' = [call EXCEPT ![c].at = "persist", ![c].todo = Files] BY DEF MarkPrepared, At, Goto, Answer
  <1>4. Files \in SUBSET (Files \union Transfers \union (Files \X (Contents \union {None})))
    BY <1>1, CallTypes, PlanFacts, FileFacts, FileTypes, IssuedAre, ReservedTypes DEF MarkPrepared, At, Goto, Answer,
       AnyLabel, Promotes, Removing, Registers, RequestType, Types
  <1>5. [call[c] EXCEPT !.at = "persist", !.todo = Files] \in CallType /\ call' = [call EXCEPT ![c] = [call[c] EXCEPT !.at = "persist", !.todo = Files]]
    BY <1>1, <1>3, <1>4, Zenon DEF CallType, AnyLabel, Promotes, Removing, Registers
  <1>6. Becomes(c, "persist", call[c].i, call[c].f, call[c].reserved, call[c].sent, call[c].arts, call[c].t, Files, call[c].res)
    BY <1>1, <1>3, <1>5 DEF Becomes
  <1>a. obj' = [obj EXCEPT ![call[c].i].state = "prepared", ![call[c].i].stale = FALSE]
    BY <1>2 DEF MarkPrepared, At, Goto, Answer
  <1>b. obj \in [Intents -> RecType] /\ call[c].i \in Intents /\ obj[call[c].i] \in RecType
    BY <1>1, <1>2, CallTypes, PlanFacts, IssuedAre DEF MarkPrepared, At, Goto, Answer, Types, Places, Place,
       RequestType
  <1>c. Refreshed(call[c].i, "prepared") BY <1>a, <1>b DEF Rewritten, Refreshed, Marked, RecType, NoRec
  <1>d. /\ UNCHANGED <<lock, live, idem, disk, held, reap, work, stable, inputs, memo, bag, rows, bytes, crashes, history>>
    BY <1>2 DEF MarkPrepared, At, Goto, Answer, intents, tree, run, exchange
  <1>7. /\ Refreshed(call[c].i, "prepared") /\ UNCHANGED <<lock, live, idem, disk, held, reap, work, stable, inputs, memo, bag, rows, bytes, crashes, history>>
    BY <1>c, <1>d DEF Recorded
  <1> QED BY <1>2, <1>6, <1>7

LEMMA PreparedPersistMoves ==
  ASSUME Types, Places, Records, NEW c \in Calls, PreparedPersist(c)
  PROVE  /\ call[c].at = "persist" /\ Req(c).op = "resolve" /\ UNCHANGED plan
         /\ Becomes(c, "flow", call[c].i, call[c].f, call[c].reserved, call[c].sent, call[c].arts, call[c].t, call[c].todo, call[c].res)
            /\ disk' = [disk EXCEPT ![call[c].i] = obj[call[c].i]]
            /\ UNCHANGED <<lock, live, idem, obj, held, reap, work, stable, inputs, memo, bag, rows, bytes, crashes, history>>
  <1>1. call \in [Calls -> CallType] /\ call[c] \in CallType BY DEF Types
  <1>2. call[c].at = "persist" /\ Req(c).op = "resolve" /\ UNCHANGED plan BY IssuedAre DEF PreparedPersist, At
  <1>3. call' = [call EXCEPT ![c].at = "flow"] BY DEF PreparedPersist, At, Goto, Answer, persist
  <1>5. [call[c] EXCEPT !.at = "flow"] \in CallType /\ call' = [call EXCEPT ![c] = [call[c] EXCEPT !.at = "flow"]]
    BY <1>1, <1>3 DEF CallType, AnyLabel, Promotes, Removing, Registers
  <1>6. Becomes(c, "flow", call[c].i, call[c].f, call[c].reserved, call[c].sent, call[c].arts, call[c].t, call[c].todo, call[c].res)
    BY <1>1, <1>3, <1>5 DEF Becomes
  <1>7. /\ disk' = [disk EXCEPT ![call[c].i] = obj[call[c].i]] /\ UNCHANGED <<lock, live, idem, obj, held, reap, work, stable, inputs, memo, bag, rows, bytes, crashes, history>>
    BY <1>1, <1>2, PlanFacts, IssuedAre DEF PreparedPersist, At, Goto, Answer, persist, intents, tree, run, exchange,
       Types
  <1> QED BY <1>2, <1>6, <1>7

LEMMA resolveFlowStepMoves ==
  ASSUME Types, Places, Records, NEW c \in Calls, resolveFlowStep(c)
  PROVE  /\ call[c].at = "flow" /\ UNCHANGED plan
         /\ \/ /\ memo.status = "completed" /\ memo.key = Req(c).key /\ call[c].i = 0
               /\ Becomes(c, "done", call[c].i, call[c].f, call[c].reserved, call[c].sent, call[c].arts, call[c].t, call[c].todo, "ok")
               /\ UNCHANGED <<lock, live, idem, obj, disk, held, reap, work, stable, inputs, memo, bag, rows, bytes, crashes, history>>
            \/ /\ memo.status = "completed" /\ memo.key = Req(c).key /\ call[c].i # 0
               /\ Becomes(c, "map", call[c].i, call[c].f, call[c].reserved, call[c].sent, call[c].arts, call[c].t, call[c].todo, "ok")
               /\ UNCHANGED <<lock, live, idem, obj, disk, held, reap, work, stable, inputs, memo, bag, rows, bytes, crashes, history>>
            \/ /\ Refused(c) /\ call[c].i = 0
               /\ Becomes(c, "done", call[c].i, call[c].f, call[c].reserved, call[c].sent, call[c].arts, call[c].t, call[c].todo, "fail")
               /\ UNCHANGED <<lock, live, idem, obj, disk, held, reap, work, stable, inputs, memo, bag, rows, bytes, crashes, history>>
            \/ /\ Refused(c) /\ call[c].i # 0
               /\ Becomes(c, "staged", call[c].i, call[c].f, call[c].reserved, call[c].sent, call[c].arts, call[c].t, call[c].todo, call[c].res)
               /\ UNCHANGED <<lock, live, idem, obj, disk, held, reap, work, stable, inputs, memo, bag, rows, bytes, crashes, history>>
            \/ /\ memo.status = "working" /\ call[c].todo = {} /\ ~plan.required
               /\ Becomes(c, "memo", call[c].i, call[c].f, call[c].reserved, call[c].sent, bag, call[c].t, call[c].todo, call[c].res)
               /\ UNCHANGED <<lock, live, idem, obj, disk, held, reap, work, stable, inputs, memo, bag, rows, bytes, crashes, history>>
            \/ /\ memo.status = "working" /\ call[c].todo # {}
               /\ Becomes(c, "read", call[c].i, call[c].f, call[c].reserved, call[c].sent, bag, call[c].t, call[c].todo, call[c].res)
               /\ UNCHANGED <<lock, live, idem, obj, disk, held, reap, work, stable, inputs, memo, bag, rows, bytes, crashes, history>>
  <1>1. call \in [Calls -> CallType] /\ call[c] \in CallType BY DEF Types
  <1>2. call[c].at = "flow" /\ UNCHANGED plan BY IssuedAre DEF resolveFlowStep, At
  <1>b0. CASE memo.status = "completed" /\ memo.key = Req(c).key /\ call[c].i = 0
    <2>1. call' = [call EXCEPT ![c].at = "done", ![c].res = "ok"]
      BY <1>b0 DEF resolveFlowStep, At, Goto, Answer, Fails, Refused
    <2>3. [call[c] EXCEPT !.at = "done", !.res = "ok"] \in CallType /\ call' = [call EXCEPT ![c] = [call[c] EXCEPT !.at = "done", !.res = "ok"]]
      BY <1>1, <2>1 DEF CallType, AnyLabel, Promotes, Removing, Registers
    <2>4. Becomes(c, "done", call[c].i, call[c].f, call[c].reserved, call[c].sent, call[c].arts, call[c].t, call[c].todo, "ok")
      BY <1>1, <2>1, <2>3 DEF Becomes
    <2>5. /\ UNCHANGED <<lock, live, idem, obj, disk, held, reap, work, stable, inputs, memo, bag, rows, bytes, crashes, history>>
      BY <1>b0, <1>1, <1>2, PlanFacts, IssuedAre DEF resolveFlowStep, At, Goto, Answer, Fails, Refused, intents, tree,
         run, exchange, Types
    <2> QED BY <1>2, <1>b0, <2>4, <2>5
  <1>b1. CASE memo.status = "completed" /\ memo.key = Req(c).key /\ call[c].i # 0
    <2>1. call' = [call EXCEPT ![c].at = "map", ![c].res = "ok"]
      BY <1>b1 DEF resolveFlowStep, At, Goto, Answer, Fails, Refused
    <2>3. [call[c] EXCEPT !.at = "map", !.res = "ok"] \in CallType /\ call' = [call EXCEPT ![c] = [call[c] EXCEPT !.at = "map", !.res = "ok"]]
      BY <1>1, <2>1, Zenon DEF CallType, AnyLabel, Promotes, Removing, Registers
    <2>4. Becomes(c, "map", call[c].i, call[c].f, call[c].reserved, call[c].sent, call[c].arts, call[c].t, call[c].todo, "ok")
      BY <1>1, <2>1, <2>3 DEF Becomes
    <2>5. /\ UNCHANGED <<lock, live, idem, obj, disk, held, reap, work, stable, inputs, memo, bag, rows, bytes, crashes, history>>
      BY <1>b1, <1>1, <1>2, PlanFacts, IssuedAre DEF resolveFlowStep, At, Goto, Answer, Fails, Refused, intents, tree,
         run, exchange, Types
    <2> QED BY <1>2, <1>b1, <2>4, <2>5
  <1>b2. CASE Refused(c) /\ call[c].i = 0
    <2>1. call' = [call EXCEPT ![c].at = "done", ![c].res = "fail"]
      BY <1>b2 DEF resolveFlowStep, At, Goto, Answer, Fails, Refused
    <2>3. [call[c] EXCEPT !.at = "done", !.res = "fail"] \in CallType /\ call' = [call EXCEPT ![c] = [call[c] EXCEPT !.at = "done", !.res = "fail"]]
      BY <1>1, <2>1 DEF CallType, AnyLabel, Promotes, Removing, Registers
    <2>4. Becomes(c, "done", call[c].i, call[c].f, call[c].reserved, call[c].sent, call[c].arts, call[c].t, call[c].todo, "fail")
      BY <1>1, <2>1, <2>3 DEF Becomes
    <2>5. /\ UNCHANGED <<lock, live, idem, obj, disk, held, reap, work, stable, inputs, memo, bag, rows, bytes, crashes, history>>
      BY <1>b2, <1>1, <1>2, PlanFacts, IssuedAre DEF resolveFlowStep, At, Goto, Answer, Fails, Refused, intents, tree,
         run, exchange, Types
    <2> QED BY <1>2, <1>b2, <2>4, <2>5
  <1>b3. CASE Refused(c) /\ call[c].i # 0
    <2>1. call' = [call EXCEPT ![c].at = "staged"]
      BY <1>b3 DEF resolveFlowStep, At, Goto, Answer, Fails, Refused
    <2>3. [call[c] EXCEPT !.at = "staged"] \in CallType /\ call' = [call EXCEPT ![c] = [call[c] EXCEPT !.at = "staged"]]
      BY <1>1, <2>1 DEF CallType, AnyLabel, Promotes, Removing, Registers
    <2>4. Becomes(c, "staged", call[c].i, call[c].f, call[c].reserved, call[c].sent, call[c].arts, call[c].t, call[c].todo, call[c].res)
      BY <1>1, <2>1, <2>3 DEF Becomes
    <2>5. /\ UNCHANGED <<lock, live, idem, obj, disk, held, reap, work, stable, inputs, memo, bag, rows, bytes, crashes, history>>
      BY <1>b3, <1>1, <1>2, PlanFacts, IssuedAre DEF resolveFlowStep, At, Goto, Answer, Fails, Refused, intents, tree,
         run, exchange, Types
    <2> QED BY <1>2, <1>b3, <2>4, <2>5
  <1>b4. CASE memo.status = "working" /\ call[c].todo = {} /\ ~plan.required
    <2>1. call' = [call EXCEPT ![c].at = "memo", ![c].arts = bag]
      BY <1>b4 DEF resolveFlowStep, At, Goto, Answer, Fails, Refused
    <2>2. bag \in Listings
      BY <1>1, <1>b4, CallTypes, PlanFacts, FileFacts, FileTypes, IssuedAre, ReservedTypes DEF resolveFlowStep, At,
         Goto, Answer, Fails, Refused, AnyLabel, Promotes, Removing, Registers, RequestType, Types
    <2>3. [call[c] EXCEPT !.at = "memo", !.arts = bag] \in CallType /\ call' = [call EXCEPT ![c] = [call[c] EXCEPT !.at = "memo", !.arts = bag]]
      BY <1>1, <2>1, <2>2, Zenon DEF CallType, AnyLabel, Promotes, Removing, Registers
    <2>4. Becomes(c, "memo", call[c].i, call[c].f, call[c].reserved, call[c].sent, bag, call[c].t, call[c].todo, call[c].res)
      BY <1>1, <2>1, <2>3 DEF Becomes
    <2>5. /\ UNCHANGED <<lock, live, idem, obj, disk, held, reap, work, stable, inputs, memo, bag, rows, bytes, crashes, history>>
      BY <1>b4, <1>1, <1>2, PlanFacts, IssuedAre DEF resolveFlowStep, At, Goto, Answer, Fails, Refused, intents, tree,
         run, exchange, Types
    <2> QED BY <1>2, <1>b4, <2>4, <2>5
  <1>b5. CASE memo.status = "working" /\ call[c].todo # {}
    <2>1. call' = [call EXCEPT ![c].at = "read", ![c].arts = bag]
      BY <1>b5 DEF resolveFlowStep, At, Goto, Answer, Fails, Refused
    <2>2. bag \in Listings
      BY <1>1, <1>b5, CallTypes, PlanFacts, FileFacts, FileTypes, IssuedAre, ReservedTypes DEF resolveFlowStep, At,
         Goto, Answer, Fails, Refused, AnyLabel, Promotes, Removing, Registers, RequestType, Types
    <2>3. [call[c] EXCEPT !.at = "read", !.arts = bag] \in CallType /\ call' = [call EXCEPT ![c] = [call[c] EXCEPT !.at = "read", !.arts = bag]]
      BY <1>1, <2>1, <2>2, Zenon DEF CallType, AnyLabel, Promotes, Removing, Registers
    <2>4. Becomes(c, "read", call[c].i, call[c].f, call[c].reserved, call[c].sent, bag, call[c].t, call[c].todo, call[c].res)
      BY <1>1, <2>1, <2>3 DEF Becomes
    <2>5. /\ UNCHANGED <<lock, live, idem, obj, disk, held, reap, work, stable, inputs, memo, bag, rows, bytes, crashes, history>>
      BY <1>b5, <1>1, <1>2, PlanFacts, IssuedAre DEF resolveFlowStep, At, Goto, Answer, Fails, Refused, intents, tree,
         run, exchange, Types
    <2> QED BY <1>2, <1>b5, <2>4, <2>5
  <1> QED BY <1>b0, <1>b1, <1>b2, <1>b3, <1>b4, <1>b5 DEF resolveFlowStep, Types, Refused

LEMMA PromoteReadMoves ==
  ASSUME Types, Places, Records, NEW c \in Calls, PromoteRead(c)
  PROVE  /\ call[c].at = "read" /\ UNCHANGED plan
         /\ \/ /\ Overfull /\ call[c].i = 0
               /\ Becomes(c, "done", call[c].i, call[c].f, call[c].reserved, call[c].sent, call[c].arts, call[c].t, call[c].todo, "fail")
               /\ UNCHANGED <<lock, live, idem, obj, disk, held, reap, work, stable, inputs, memo, bag, rows, bytes, crashes, history>>
            \/ /\ Overfull /\ call[c].i # 0
               /\ Becomes(c, "staged", call[c].i, call[c].f, call[c].reserved, call[c].sent, call[c].arts, call[c].t, call[c].todo, call[c].res)
               /\ UNCHANGED <<lock, live, idem, obj, disk, held, reap, work, stable, inputs, memo, bag, rows, bytes, crashes, history>>
            \/ /\ ~Overfull
               /\ Becomes(c, "copy", call[c].i, 1, call[c].reserved, work, call[c].arts, call[c].t, call[c].todo, call[c].res)
               /\ UNCHANGED <<lock, live, idem, obj, disk, held, reap, work, stable, inputs, memo, bag, rows, bytes, crashes, history>>
  <1>1. call \in [Calls -> CallType] /\ call[c] \in CallType BY DEF Types
  <1>2. call[c].at = "read" /\ UNCHANGED plan BY IssuedAre DEF PromoteRead, At
  <1>b0. CASE Overfull /\ call[c].i = 0
    <2>1. call' = [call EXCEPT ![c].at = "done", ![c].res = "fail"]
      BY <1>b0 DEF PromoteRead, At, Goto, Answer, Fails, Overfull
    <2>3. [call[c] EXCEPT !.at = "done", !.res = "fail"] \in CallType /\ call' = [call EXCEPT ![c] = [call[c] EXCEPT !.at = "done", !.res = "fail"]]
      BY <1>1, <2>1 DEF CallType, AnyLabel, Promotes, Removing, Registers
    <2>4. Becomes(c, "done", call[c].i, call[c].f, call[c].reserved, call[c].sent, call[c].arts, call[c].t, call[c].todo, "fail")
      BY <1>1, <2>1, <2>3 DEF Becomes
    <2>5. /\ UNCHANGED <<lock, live, idem, obj, disk, held, reap, work, stable, inputs, memo, bag, rows, bytes, crashes, history>>
      BY <1>b0, <1>1, <1>2, PlanFacts, IssuedAre DEF PromoteRead, At, Goto, Answer, Fails, Overfull, intents, tree,
         run, exchange, Types
    <2> QED BY <1>2, <1>b0, <2>4, <2>5
  <1>b1. CASE Overfull /\ call[c].i # 0
    <2>1. call' = [call EXCEPT ![c].at = "staged"] BY <1>b1 DEF PromoteRead, At, Goto, Answer, Fails, Overfull
    <2>3. [call[c] EXCEPT !.at = "staged"] \in CallType /\ call' = [call EXCEPT ![c] = [call[c] EXCEPT !.at = "staged"]]
      BY <1>1, <2>1 DEF CallType, AnyLabel, Promotes, Removing, Registers
    <2>4. Becomes(c, "staged", call[c].i, call[c].f, call[c].reserved, call[c].sent, call[c].arts, call[c].t, call[c].todo, call[c].res)
      BY <1>1, <2>1, <2>3 DEF Becomes
    <2>5. /\ UNCHANGED <<lock, live, idem, obj, disk, held, reap, work, stable, inputs, memo, bag, rows, bytes, crashes, history>>
      BY <1>b1, <1>1, <1>2, PlanFacts, IssuedAre DEF PromoteRead, At, Goto, Answer, Fails, Overfull, intents, tree,
         run, exchange, Types
    <2> QED BY <1>2, <1>b1, <2>4, <2>5
  <1>b2. CASE ~Overfull
    <2>1. call' = [call EXCEPT ![c].at = "copy", ![c].f = 1, ![c].sent = work]
      BY <1>b2 DEF PromoteRead, At, Goto, Answer, Fails, Overfull
    <2>2. 1 \in Files /\ work \in FileType
      BY <1>1, <1>b2, CallTypes, PlanFacts, FileFacts, FileTypes, IssuedAre, ReservedTypes DEF PromoteRead, At, Goto,
         Answer, Fails, Overfull, AnyLabel, Promotes, Removing, Registers, RequestType, Types
    <2>3. [call[c] EXCEPT !.at = "copy", !.f = 1, !.sent = work] \in CallType /\ call' = [call EXCEPT ![c] = [call[c] EXCEPT !.at = "copy", !.f = 1, !.sent = work]]
      BY <1>1, <2>1, <2>2, Zenon DEF CallType, AnyLabel, Promotes, Removing, Registers
    <2>4. Becomes(c, "copy", call[c].i, 1, call[c].reserved, work, call[c].arts, call[c].t, call[c].todo, call[c].res)
      BY <1>1, <2>1, <2>3 DEF Becomes
    <2>5. /\ UNCHANGED <<lock, live, idem, obj, disk, held, reap, work, stable, inputs, memo, bag, rows, bytes, crashes, history>>
      BY <1>b2, <1>1, <1>2, PlanFacts, IssuedAre DEF PromoteRead, At, Goto, Answer, Fails, Overfull, intents, tree,
         run, exchange, Types
    <2> QED BY <1>2, <1>b2, <2>4, <2>5
  <1> QED BY <1>b0, <1>b1, <1>b2 DEF PromoteRead, Types, Overfull

LEMMA PromoteCopyMoves ==
  ASSUME Types, Places, Records, NEW c \in Calls, PromoteCopy(c)
  PROVE  /\ call[c].at = "copy" /\ UNCHANGED plan
         /\ \/ /\ work[call[c].f] = None /\ call[c].i = 0
               /\ Becomes(c, "done", call[c].i, call[c].f, call[c].reserved, call[c].sent, call[c].arts, call[c].t, call[c].todo, "fail")
               /\ stable' = NoFiles
               /\ UNCHANGED <<lock, live, idem, obj, disk, held, reap, work, inputs, memo, bag, rows, bytes, crashes, history>>
            \/ /\ work[call[c].f] = None /\ call[c].i # 0
               /\ Becomes(c, "staged", call[c].i, call[c].f, call[c].reserved, call[c].sent, call[c].arts, call[c].t, call[c].todo, call[c].res)
               /\ stable' = NoFiles
               /\ UNCHANGED <<lock, live, idem, obj, disk, held, reap, work, inputs, memo, bag, rows, bytes, crashes, history>>
            \/ /\ work[call[c].f] # None
               /\ Becomes(c, "find", call[c].i, call[c].f, call[c].reserved, call[c].sent, call[c].arts, call[c].t, call[c].todo, call[c].res)
               /\ stable' = [stable EXCEPT ![call[c].f] = work[call[c].f]]
               /\ UNCHANGED <<lock, live, idem, obj, disk, held, reap, work, inputs, memo, bag, rows, bytes, crashes, history>>
  <1>1. call \in [Calls -> CallType] /\ call[c] \in CallType BY DEF Types
  <1>2. call[c].at = "copy" /\ UNCHANGED plan BY IssuedAre DEF PromoteCopy, At
  <1>b0. CASE work[call[c].f] = None /\ call[c].i = 0
    <2>1. call' = [call EXCEPT ![c].at = "done", ![c].res = "fail"]
      BY <1>b0 DEF PromoteCopy, At, Goto, Answer, Fails
    <2>3. [call[c] EXCEPT !.at = "done", !.res = "fail"] \in CallType /\ call' = [call EXCEPT ![c] = [call[c] EXCEPT !.at = "done", !.res = "fail"]]
      BY <1>1, <2>1 DEF CallType, AnyLabel, Promotes, Removing, Registers
    <2>4. Becomes(c, "done", call[c].i, call[c].f, call[c].reserved, call[c].sent, call[c].arts, call[c].t, call[c].todo, "fail")
      BY <1>1, <2>1, <2>3 DEF Becomes
    <2>5. /\ stable' = NoFiles /\ UNCHANGED <<lock, live, idem, obj, disk, held, reap, work, inputs, memo, bag, rows, bytes, crashes, history>>
      BY <1>b0, <1>1, <1>2, PlanFacts, IssuedAre DEF PromoteCopy, At, Goto, Answer, Fails, intents, tree, run,
         exchange, Types
    <2> QED BY <1>2, <1>b0, <2>4, <2>5
  <1>b1. CASE work[call[c].f] = None /\ call[c].i # 0
    <2>1. call' = [call EXCEPT ![c].at = "staged"] BY <1>b1 DEF PromoteCopy, At, Goto, Answer, Fails
    <2>3. [call[c] EXCEPT !.at = "staged"] \in CallType /\ call' = [call EXCEPT ![c] = [call[c] EXCEPT !.at = "staged"]]
      BY <1>1, <2>1 DEF CallType, AnyLabel, Promotes, Removing, Registers
    <2>4. Becomes(c, "staged", call[c].i, call[c].f, call[c].reserved, call[c].sent, call[c].arts, call[c].t, call[c].todo, call[c].res)
      BY <1>1, <2>1, <2>3 DEF Becomes
    <2>5. /\ stable' = NoFiles /\ UNCHANGED <<lock, live, idem, obj, disk, held, reap, work, inputs, memo, bag, rows, bytes, crashes, history>>
      BY <1>b1, <1>1, <1>2, PlanFacts, IssuedAre DEF PromoteCopy, At, Goto, Answer, Fails, intents, tree, run,
         exchange, Types
    <2> QED BY <1>2, <1>b1, <2>4, <2>5
  <1>b2. CASE work[call[c].f] # None
    <2>1. call' = [call EXCEPT ![c].at = "find"] BY <1>b2 DEF PromoteCopy, At, Goto, Answer, Fails
    <2>3. [call[c] EXCEPT !.at = "find"] \in CallType /\ call' = [call EXCEPT ![c] = [call[c] EXCEPT !.at = "find"]]
      BY <1>1, <2>1 DEF CallType, AnyLabel, Promotes, Removing, Registers
    <2>4. Becomes(c, "find", call[c].i, call[c].f, call[c].reserved, call[c].sent, call[c].arts, call[c].t, call[c].todo, call[c].res)
      BY <1>1, <2>1, <2>3 DEF Becomes
    <2>5. /\ stable' = [stable EXCEPT ![call[c].f] = work[call[c].f]] /\ UNCHANGED <<lock, live, idem, obj, disk, held, reap, work, inputs, memo, bag, rows, bytes, crashes, history>>
      BY <1>b2, <1>1, <1>2, PlanFacts, IssuedAre DEF PromoteCopy, At, Goto, Answer, Fails, intents, tree, run,
         exchange, Types
    <2> QED BY <1>2, <1>b2, <2>4, <2>5
  <1> QED BY <1>b0, <1>b1, <1>b2 DEF PromoteCopy, Types

LEMMA PromoteUnlinkMoves ==
  ASSUME Types, Places, Records, NEW c \in Calls, PromoteUnlink(c)
  PROVE  /\ call[c].at = "unlink" /\ UNCHANGED plan
         /\ Becomes(c, "memo", call[c].i, call[c].f, call[c].reserved, call[c].sent, call[c].arts \union Sent(c), call[c].t, call[c].todo, call[c].res)
            /\ work' = NoFiles
            /\ UNCHANGED <<lock, live, idem, obj, disk, held, reap, stable, inputs, memo, bag, rows, bytes, crashes, history>>
  <1>1. call \in [Calls -> CallType] /\ call[c] \in CallType BY DEF Types
  <1>2. call[c].at = "unlink" /\ UNCHANGED plan BY IssuedAre DEF PromoteUnlink, At
  <1>3. call' = [call EXCEPT ![c].at = "memo", ![c].arts = call[c].arts \union Sent(c)]
    BY DEF PromoteUnlink, At, Goto, Answer, Sent
  <1>4. call[c].arts \union Sent(c) \in Listings
    <2>1. call[c].sent \in FileType /\ call[c].arts \in Listings BY <1>1, CallTypes
    <2> QED BY <2>1, FileTypes DEF Sent, Listings
  <1>5. [call[c] EXCEPT !.at = "memo", !.arts = call[c].arts \union Sent(c)] \in CallType /\ call' = [call EXCEPT ![c] = [call[c] EXCEPT !.at = "memo", !.arts = call[c].arts \union Sent(c)]]
    BY <1>1, <1>3, <1>4, Zenon DEF CallType, AnyLabel, Promotes, Removing, Registers
  <1>6. Becomes(c, "memo", call[c].i, call[c].f, call[c].reserved, call[c].sent, call[c].arts \union Sent(c), call[c].t, call[c].todo, call[c].res)
    BY <1>1, <1>3, <1>5 DEF Becomes
  <1>7. /\ work' = NoFiles /\ UNCHANGED <<lock, live, idem, obj, disk, held, reap, stable, inputs, memo, bag, rows, bytes, crashes, history>>
    BY <1>1, <1>2, PlanFacts, IssuedAre DEF PromoteUnlink, At, Goto, Answer, Sent, intents, tree, run, exchange, Types
  <1> QED BY <1>2, <1>6, <1>7

LEMMA ResolveMemoMoves ==
  ASSUME Types, Places, Records, NEW c \in Calls, ResolveMemo(c)
  PROVE  /\ call[c].at = "memo" /\ UNCHANGED plan
         /\ Becomes(c, "exec", call[c].i, call[c].f, call[c].reserved, call[c].sent, call[c].arts, call[c].t, call[c].todo, call[c].res)
            /\ memo'.status = "completed"
            /\ UNCHANGED <<lock, live, idem, obj, disk, held, reap, work, stable, inputs, bag, rows, bytes, crashes, history>>
  <1>1. call \in [Calls -> CallType] /\ call[c] \in CallType BY DEF Types
  <1>2. call[c].at = "memo" /\ UNCHANGED plan BY IssuedAre DEF ResolveMemo, At
  <1>3. call' = [call EXCEPT ![c].at = "exec"] BY DEF ResolveMemo, At, Goto, Answer
  <1>5. [call[c] EXCEPT !.at = "exec"] \in CallType /\ call' = [call EXCEPT ![c] = [call[c] EXCEPT !.at = "exec"]]
    BY <1>1, <1>3 DEF CallType, AnyLabel, Promotes, Removing, Registers
  <1>6. Becomes(c, "exec", call[c].i, call[c].f, call[c].reserved, call[c].sent, call[c].arts, call[c].t, call[c].todo, call[c].res)
    BY <1>1, <1>3, <1>5 DEF Becomes
  <1>7. /\ memo'.status = "completed" /\ UNCHANGED <<lock, live, idem, obj, disk, held, reap, work, stable, inputs, bag, rows, bytes, crashes, history>>
    BY <1>1, <1>2, PlanFacts, IssuedAre DEF ResolveMemo, At, Goto, Answer, intents, tree, run, exchange, Types
  <1> QED BY <1>2, <1>6, <1>7

LEMMA ResolveExecMoves ==
  ASSUME Types, Places, Records, NEW c \in Calls, ResolveExec(c)
  PROVE  /\ call[c].at = "exec" /\ UNCHANGED plan
         /\ \/ /\ call[c].i = 0
               /\ Becomes(c, "done", call[c].i, call[c].f, call[c].reserved, call[c].sent, call[c].arts, call[c].t, call[c].todo, "ok")
               /\ bag' = call[c].arts
               /\ UNCHANGED <<lock, live, idem, obj, disk, held, reap, work, stable, inputs, memo, rows, bytes, crashes, history>>
            \/ /\ call[c].i # 0
               /\ Becomes(c, "map", call[c].i, call[c].f, call[c].reserved, call[c].sent, call[c].arts, call[c].t, call[c].todo, "ok")
               /\ bag' = call[c].arts
               /\ UNCHANGED <<lock, live, idem, obj, disk, held, reap, work, stable, inputs, memo, rows, bytes, crashes, history>>
  <1>1. call \in [Calls -> CallType] /\ call[c] \in CallType BY DEF Types
  <1>2. call[c].at = "exec" /\ UNCHANGED plan BY IssuedAre DEF ResolveExec, At
  <1>b0. CASE call[c].i = 0
    <2>1. call' = [call EXCEPT ![c].at = "done", ![c].res = "ok"] BY <1>b0 DEF ResolveExec, At, Goto, Answer
    <2>3. [call[c] EXCEPT !.at = "done", !.res = "ok"] \in CallType /\ call' = [call EXCEPT ![c] = [call[c] EXCEPT !.at = "done", !.res = "ok"]]
      BY <1>1, <2>1 DEF CallType, AnyLabel, Promotes, Removing, Registers
    <2>4. Becomes(c, "done", call[c].i, call[c].f, call[c].reserved, call[c].sent, call[c].arts, call[c].t, call[c].todo, "ok")
      BY <1>1, <2>1, <2>3 DEF Becomes
    <2>5. /\ bag' = call[c].arts /\ UNCHANGED <<lock, live, idem, obj, disk, held, reap, work, stable, inputs, memo, rows, bytes, crashes, history>>
      BY <1>b0, <1>1, <1>2, PlanFacts, IssuedAre DEF ResolveExec, At, Goto, Answer, intents, tree, run, exchange,
         Types
    <2> QED BY <1>2, <1>b0, <2>4, <2>5
  <1>b1. CASE call[c].i # 0
    <2>1. call' = [call EXCEPT ![c].at = "map", ![c].res = "ok"] BY <1>b1 DEF ResolveExec, At, Goto, Answer
    <2>3. [call[c] EXCEPT !.at = "map", !.res = "ok"] \in CallType /\ call' = [call EXCEPT ![c] = [call[c] EXCEPT !.at = "map", !.res = "ok"]]
      BY <1>1, <2>1 DEF CallType, AnyLabel, Promotes, Removing, Registers
    <2>4. Becomes(c, "map", call[c].i, call[c].f, call[c].reserved, call[c].sent, call[c].arts, call[c].t, call[c].todo, "ok")
      BY <1>1, <2>1, <2>3 DEF Becomes
    <2>5. /\ bag' = call[c].arts /\ UNCHANGED <<lock, live, idem, obj, disk, held, reap, work, stable, inputs, memo, rows, bytes, crashes, history>>
      BY <1>b1, <1>1, <1>2, PlanFacts, IssuedAre DEF ResolveExec, At, Goto, Answer, intents, tree, run, exchange,
         Types
    <2> QED BY <1>2, <1>b1, <2>4, <2>5
  <1> QED BY <1>b0, <1>b1 DEF ResolveExec, Types

LEMMA DispatchBeginMoves ==
  ASSUME Types, Places, Records, NEW c \in Calls, DispatchBegin(c)
  PROVE  /\ Begins(c, "dispatch") /\ UNCHANGED plan
         /\ Becomes(c, "materialize", call[c].i, call[c].f, call[c].reserved, call[c].sent, bag, call[c].t, bag, call[c].res)
            /\ UNCHANGED <<lock, live, idem, obj, disk, held, reap, work, stable, inputs, memo, bag, rows, bytes, crashes, history>>
  <1>1. call \in [Calls -> CallType] /\ call[c] \in CallType BY DEF Types
  <1>2. Begins(c, "dispatch") /\ UNCHANGED plan BY IssuedAre DEF DispatchBegin, At
  <1>3. call' = [call EXCEPT ![c].at = "materialize", ![c].todo = bag, ![c].arts = bag]
    BY DEF DispatchBegin, At, Goto, Answer, Begins
  <1>4. bag \in SUBSET (Files \union Transfers \union (Files \X (Contents \union {None}))) /\ bag \in Listings
    BY DEF Types, Listings
  <1>5. [call[c] EXCEPT !.at = "materialize", !.todo = bag, !.arts = bag] \in CallType /\ call' = [call EXCEPT ![c] = [call[c] EXCEPT !.at = "materialize", !.todo = bag, !.arts = bag]]
    BY <1>1, <1>3, <1>4, Zenon DEF CallType, AnyLabel, Promotes, Removing, Registers
  <1>6. Becomes(c, "materialize", call[c].i, call[c].f, call[c].reserved, call[c].sent, bag, call[c].t, bag, call[c].res)
    BY <1>1, <1>3, <1>5 DEF Becomes
  <1>7. /\ UNCHANGED <<lock, live, idem, obj, disk, held, reap, work, stable, inputs, memo, bag, rows, bytes, crashes, history>>
    BY <1>1, <1>2, PlanFacts, IssuedAre DEF DispatchBegin, At, Goto, Answer, Begins, intents, tree, run, exchange,
       Types
  <1> QED BY <1>2, <1>6, <1>7

LEMMA materializeConsumerCopyMoves ==
  ASSUME Types, Places, Records, NEW c \in Calls, materializeConsumerCopy(c)
  PROVE  /\ call[c].at = "materialize"
         /\ UNCHANGED <<plan, lock, live, idem, obj, disk, held, reap, work, stable, memo, bag, rows, bytes, crashes, history>>
         /\ \E e \in call[c].todo :
               \/ /\ inputs' = NoFiles
                  /\ Becomes(c, "done", call[c].i, call[c].f, call[c].reserved, call[c].sent, call[c].arts, call[c].t, call[c].todo, "fail")
               \/ /\ inputs' = [inputs EXCEPT ![e[1]] = e[2]]
                  /\ Becomes(c, call[c].at, call[c].i, call[c].f, call[c].reserved, call[c].sent, call[c].arts, call[c].t, call[c].todo \ {e}, call[c].res)
  <1>1. call \in [Calls -> CallType] /\ call[c] \in CallType BY DEF Types
  <1>2. PICK e \in call[c].todo :
          IF stable[e[1]] # e[2]
          THEN inputs' = NoFiles /\ Answer(c, "fail")
          ELSE /\ inputs' = [inputs EXCEPT ![e[1]] = stable[e[1]]]
               /\ call' = [call EXCEPT ![c].todo = @ \ {e}]
    BY DEF materializeConsumerCopy
  <1>3. CASE stable[e[1]] # e[2]
    <2>1. call' = [call EXCEPT ![c].at = "done", ![c].res = "fail"] /\ inputs' = NoFiles
      BY <1>2, <1>3 DEF Answer
    <2>2. /\ [call[c] EXCEPT !.at = "done", !.res = "fail"] \in CallType
          /\ call' = [call EXCEPT ![c] = [call[c] EXCEPT !.at = "done", !.res = "fail"]]
      BY <1>1, <2>1 DEF CallType, AnyLabel
    <2>3. Becomes(c, "done", call[c].i, call[c].f, call[c].reserved, call[c].sent, call[c].arts, call[c].t, call[c].todo, "fail")
      BY <1>1, <2>1, <2>2 DEF Becomes
    <2> QED BY <1>3, <2>1, <2>3 DEF materializeConsumerCopy, At, intents, run, exchange
  <1>4. CASE stable[e[1]] = e[2]
    <2>1. call' = [call EXCEPT ![c].todo = call[c].todo \ {e}] /\ inputs' = [inputs EXCEPT ![e[1]] = e[2]]
      BY <1>1, <1>2, <1>4
    <2>2. call[c].todo \ {e} \in SUBSET (Files \union Transfers \union (Files \X (Contents \union {None})))
      BY <1>1, CallTypes
    <2>3. /\ [call[c] EXCEPT !.todo = call[c].todo \ {e}] \in CallType
          /\ call' = [call EXCEPT ![c] = [call[c] EXCEPT !.todo = call[c].todo \ {e}]]
      BY <1>1, <2>1, <2>2 DEF CallType
    <2>4. Becomes(c, call[c].at, call[c].i, call[c].f, call[c].reserved, call[c].sent, call[c].arts, call[c].t, call[c].todo \ {e}, call[c].res)
      BY <1>1, <2>1, <2>3 DEF Becomes
    <2> QED BY <1>4, <2>1, <2>4 DEF materializeConsumerCopy, At, intents, run, exchange
  <1> QED BY <1>3, <1>4

LEMMA DispatchSpawnMoves ==
  ASSUME Types, Places, Records, NEW c \in Calls, DispatchSpawn(c)
  PROVE  /\ call[c].at = "materialize" /\ call[c].todo = {} /\ UNCHANGED plan
         /\ Becomes(c, "done", call[c].i, call[c].f, call[c].reserved, call[c].sent, call[c].arts, call[c].t, call[c].todo, "ok")
            /\ UNCHANGED <<lock, live, idem, obj, disk, held, reap, work, stable, inputs, memo, bag, rows, bytes, crashes, history>>
  <1>1. call \in [Calls -> CallType] /\ call[c] \in CallType BY DEF Types
  <1>2. call[c].at = "materialize" /\ call[c].todo = {} /\ UNCHANGED plan BY IssuedAre DEF DispatchSpawn, At
  <1>3. call' = [call EXCEPT ![c].at = "done", ![c].res = "ok"] BY DEF DispatchSpawn, At, Goto, Answer
  <1>5. [call[c] EXCEPT !.at = "done", !.res = "ok"] \in CallType /\ call' = [call EXCEPT ![c] = [call[c] EXCEPT !.at = "done", !.res = "ok"]]
    BY <1>1, <1>3 DEF CallType, AnyLabel, Promotes, Removing, Registers
  <1>6. Becomes(c, "done", call[c].i, call[c].f, call[c].reserved, call[c].sent, call[c].arts, call[c].t, call[c].todo, "ok")
    BY <1>1, <1>3, <1>5 DEF Becomes
  <1>7. /\ UNCHANGED <<lock, live, idem, obj, disk, held, reap, work, stable, inputs, memo, bag, rows, bytes, crashes, history>>
    BY <1>1, <1>2, PlanFacts, IssuedAre DEF DispatchSpawn, At, Goto, Answer, intents, tree, run, exchange, Types
  <1> QED BY <1>2, <1>6, <1>7

LEMMA StoreBeginMoves ==
  ASSUME Types, Places, Records, NEW c \in Calls, StoreBegin(c)
  PROVE  /\ Begins(c, "store") /\ UNCHANGED plan
         /\ Becomes(c, "find", call[c].i, call[c].f, call[c].reserved, [f \in Files |-> Req(c).bytes], call[c].arts, call[c].t, call[c].todo, call[c].res)
            /\ UNCHANGED <<lock, live, idem, obj, disk, held, reap, work, stable, inputs, memo, bag, rows, bytes, crashes, history>>
  <1>1. call \in [Calls -> CallType] /\ call[c] \in CallType BY DEF Types
  <1>2. Begins(c, "store") /\ UNCHANGED plan BY IssuedAre DEF StoreBegin, At
  <1>3. call' = [call EXCEPT ![c].at = "find", ![c].sent = [f \in Files |-> Req(c).bytes]]
    BY DEF StoreBegin, At, Goto, Answer, Begins
  <1>4. [f \in Files |-> Req(c).bytes] \in FileType BY PlanFacts DEF RequestType, FileType
  <1>5. [call[c] EXCEPT !.at = "find", !.sent = [f \in Files |-> Req(c).bytes]] \in CallType /\ call' = [call EXCEPT ![c] = [call[c] EXCEPT !.at = "find", !.sent = [f \in Files |-> Req(c).bytes]]]
    BY <1>1, <1>3, <1>4, Zenon DEF CallType, AnyLabel, Promotes, Removing, Registers
  <1>6. Becomes(c, "find", call[c].i, call[c].f, call[c].reserved, [f \in Files |-> Req(c).bytes], call[c].arts, call[c].t, call[c].todo, call[c].res)
    BY <1>1, <1>3, <1>5 DEF Becomes
  <1>7. /\ UNCHANGED <<lock, live, idem, obj, disk, held, reap, work, stable, inputs, memo, bag, rows, bytes, crashes, history>>
    BY <1>1, <1>2, PlanFacts, IssuedAre DEF StoreBegin, At, Goto, Answer, Begins, intents, tree, run, exchange, Types
  <1> QED BY <1>2, <1>6, <1>7

LEMMA PutFindMoves ==
  ASSUME Types, Places, Records, NEW c \in Calls, PutFind(c)
  PROVE  /\ call[c].at = "find" /\ UNCHANGED plan
         /\ \/ /\ Found(c) /\ Req(c).op = "store"
               /\ Becomes(c, "done", call[c].i, call[c].f, call[c].reserved, call[c].sent, call[c].arts, call[c].t, call[c].todo, "ok")
               /\ UNCHANGED <<lock, live, idem, obj, disk, held, reap, work, stable, inputs, memo, bag, rows, bytes, crashes, history>>
            \/ /\ Found(c) /\ Req(c).op # "store" /\ call[c].f = Size
               /\ Becomes(c, "unlink", call[c].i, 1, call[c].reserved, call[c].sent, call[c].arts, call[c].t, call[c].todo, call[c].res)
               /\ UNCHANGED <<lock, live, idem, obj, disk, held, reap, work, stable, inputs, memo, bag, rows, bytes, crashes, history>>
            \/ /\ Found(c) /\ Req(c).op # "store" /\ call[c].f # Size
               /\ Becomes(c, "copy", call[c].i, call[c].f + 1, call[c].reserved, call[c].sent, call[c].arts, call[c].t, call[c].todo, call[c].res)
               /\ UNCHANGED <<lock, live, idem, obj, disk, held, reap, work, stable, inputs, memo, bag, rows, bytes, crashes, history>>
            \/ /\ ~Found(c)
               /\ \E t \in Transfers :
                     /\ IF Req(c).tid = 0 THEN Unused(t) ELSE t = Req(c).tid
                     /\ Becomes(c, "bytes", call[c].i, call[c].f, call[c].reserved, call[c].sent, call[c].arts, t, call[c].todo, call[c].res)
               /\ UNCHANGED <<lock, live, idem, obj, disk, held, reap, work, stable, inputs, memo, bag, rows, bytes, crashes, history>>
  <1>1. call \in [Calls -> CallType] /\ call[c] \in CallType BY DEF Types
  <1>2. call[c].at = "find" /\ UNCHANGED plan BY IssuedAre DEF PutFind, At
  <1>b0. CASE Found(c) /\ Req(c).op = "store"
    <2>1. call' = [call EXCEPT ![c].at = "done", ![c].res = "ok"]
      BY <1>b0 DEF PutFind, At, Goto, Answer, Registered, Found
    <2>3. [call[c] EXCEPT !.at = "done", !.res = "ok"] \in CallType /\ call' = [call EXCEPT ![c] = [call[c] EXCEPT !.at = "done", !.res = "ok"]]
      BY <1>1, <2>1 DEF CallType, AnyLabel, Promotes, Removing, Registers
    <2>4. Becomes(c, "done", call[c].i, call[c].f, call[c].reserved, call[c].sent, call[c].arts, call[c].t, call[c].todo, "ok")
      BY <1>1, <2>1, <2>3 DEF Becomes
    <2>5. /\ UNCHANGED <<lock, live, idem, obj, disk, held, reap, work, stable, inputs, memo, bag, rows, bytes, crashes, history>>
      BY <1>b0, <1>1, <1>2, PlanFacts, IssuedAre DEF PutFind, At, Goto, Answer, Registered, Found, intents, tree, run,
         exchange, Types
    <2> QED BY <1>2, <1>b0, <2>4, <2>5
  <1>b1. CASE Found(c) /\ Req(c).op # "store" /\ call[c].f = Size
    <2>1. call' = [call EXCEPT ![c].at = "unlink", ![c].f = 1]
      BY <1>b1 DEF PutFind, At, Goto, Answer, Registered, Found
    <2>2. 1 \in Files
      BY <1>1, <1>b1, CallTypes, PlanFacts, FileFacts, FileTypes, IssuedAre, ReservedTypes DEF PutFind, At, Goto,
         Answer, Registered, Found, AnyLabel, Promotes, Removing, Registers, RequestType, Types
    <2>3. [call[c] EXCEPT !.at = "unlink", !.f = 1] \in CallType /\ call' = [call EXCEPT ![c] = [call[c] EXCEPT !.at = "unlink", !.f = 1]]
      BY <1>1, <2>1, <2>2, Zenon DEF CallType, AnyLabel, Promotes, Removing, Registers
    <2>4. Becomes(c, "unlink", call[c].i, 1, call[c].reserved, call[c].sent, call[c].arts, call[c].t, call[c].todo, call[c].res)
      BY <1>1, <2>1, <2>3 DEF Becomes
    <2>5. /\ UNCHANGED <<lock, live, idem, obj, disk, held, reap, work, stable, inputs, memo, bag, rows, bytes, crashes, history>>
      BY <1>b1, <1>1, <1>2, PlanFacts, IssuedAre DEF PutFind, At, Goto, Answer, Registered, Found, intents, tree, run,
         exchange, Types
    <2> QED BY <1>2, <1>b1, <2>4, <2>5
  <1>b2. CASE Found(c) /\ Req(c).op # "store" /\ call[c].f # Size
    <2>1. call' = [call EXCEPT ![c].at = "copy", ![c].f = call[c].f + 1]
      BY <1>b2 DEF PutFind, At, Goto, Answer, Registered, Found
    <2>2. call[c].f + 1 \in Files
      BY <1>1, <1>b2, CallTypes, PlanFacts, FileFacts, FileTypes, IssuedAre, ReservedTypes DEF PutFind, At, Goto,
         Answer, Registered, Found, AnyLabel, Promotes, Removing, Registers, RequestType, Types
    <2>3. [call[c] EXCEPT !.at = "copy", !.f = call[c].f + 1] \in CallType /\ call' = [call EXCEPT ![c] = [call[c] EXCEPT !.at = "copy", !.f = call[c].f + 1]]
      BY <1>1, <2>1, <2>2, Zenon DEF CallType, AnyLabel, Promotes, Removing, Registers
    <2>4. Becomes(c, "copy", call[c].i, call[c].f + 1, call[c].reserved, call[c].sent, call[c].arts, call[c].t, call[c].todo, call[c].res)
      BY <1>1, <2>1, <2>3 DEF Becomes
    <2>5. /\ UNCHANGED <<lock, live, idem, obj, disk, held, reap, work, stable, inputs, memo, bag, rows, bytes, crashes, history>>
      BY <1>b2, <1>1, <1>2, PlanFacts, IssuedAre DEF PutFind, At, Goto, Answer, Registered, Found, intents, tree, run,
         exchange, Types
    <2> QED BY <1>2, <1>b2, <2>4, <2>5
  <1>b3. CASE ~Found(c)
    <2>0. PICK t \in Transfers : (IF Req(c).tid = 0 THEN Unused(t) ELSE t = Req(c).tid) /\ call' = [call EXCEPT ![c].at = "bytes", ![c].t = t]
      BY <1>b3 DEF PutFind, At, Goto, Answer, Registered, Found
    <2>1. call' = [call EXCEPT ![c].at = "bytes", ![c].t = t]
      BY <2>0 DEF PutFind, At, Goto, Answer, Registered, Found
    <2>2. t \in Transfers \union {0}
      BY <1>1, <2>0, CallTypes, PlanFacts, FileFacts, FileTypes, IssuedAre, ReservedTypes, Zenon DEF PutFind, At, Goto,
         Answer, Registered, Found, AnyLabel, Promotes, Removing, Registers, RequestType, Types
    <2>3. [call[c] EXCEPT !.at = "bytes", !.t = t] \in CallType /\ call' = [call EXCEPT ![c] = [call[c] EXCEPT !.at = "bytes", !.t = t]]
      BY <1>1, <2>1, <2>2, Zenon DEF CallType, AnyLabel, Promotes, Removing, Registers
    <2>4. Becomes(c, "bytes", call[c].i, call[c].f, call[c].reserved, call[c].sent, call[c].arts, t, call[c].todo, call[c].res)
      BY <1>1, <2>1, <2>3 DEF Becomes
    <2>5. /\ UNCHANGED <<lock, live, idem, obj, disk, held, reap, work, stable, inputs, memo, bag, rows, bytes, crashes, history>>
      BY <2>0, <1>1, <1>2, PlanFacts, IssuedAre, Zenon DEF PutFind, At, Goto, Answer, Registered, Found, intents, tree, run,
         exchange, Types
    <2> QED BY <1>2, <1>b3, <2>0, <2>4, <2>5
  <1> QED BY <1>b0, <1>b1, <1>b2, <1>b3 DEF PutFind, Types, Found

LEMMA PutBytesMoves ==
  ASSUME Types, Places, Records, NEW c \in Calls, PutBytes(c)
  PROVE  /\ call[c].at = "bytes" /\ UNCHANGED plan
         /\ Becomes(c, "row", call[c].i, call[c].f, call[c].reserved, call[c].sent, call[c].arts, call[c].t, call[c].todo, call[c].res)
            /\ bytes' = [bytes EXCEPT ![call[c].t] = Digest(c)] /\ Observed(history.gone, history.undead, history.cut, history.overlap, history.raced, history.reput \/ Occupied(c), history.broken)
            /\ UNCHANGED <<lock, live, idem, obj, disk, held, reap, work, stable, inputs, memo, bag, rows, crashes>>
  <1>1. call \in [Calls -> CallType] /\ call[c] \in CallType BY DEF Types
  <1>2. call[c].at = "bytes" /\ UNCHANGED plan BY IssuedAre DEF PutBytes, At
  <1>3. call' = [call EXCEPT ![c].at = "row"] BY DEF PutBytes, At, Goto, Answer
  <1>5. [call[c] EXCEPT !.at = "row"] \in CallType /\ call' = [call EXCEPT ![c] = [call[c] EXCEPT !.at = "row"]]
    BY <1>1, <1>3 DEF CallType, AnyLabel, Promotes, Removing, Registers
  <1>6. Becomes(c, "row", call[c].i, call[c].f, call[c].reserved, call[c].sent, call[c].arts, call[c].t, call[c].todo, call[c].res)
    BY <1>1, <1>3, <1>5 DEF Becomes
  <1>7. /\ bytes' = [bytes EXCEPT ![call[c].t] = Digest(c)] /\ Observed(history.gone, history.undead, history.cut, history.overlap, history.raced, history.reput \/ Occupied(c), history.broken) /\ UNCHANGED <<lock, live, idem, obj, disk, held, reap, work, stable, inputs, memo, bag, rows, crashes>>
    BY <1>1, <1>2, PlanFacts, IssuedAre DEF PutBytes, At, Goto, Answer, intents, tree, run, exchange, Types, Observed,
       Occupied
  <1> QED BY <1>2, <1>6, <1>7

LEMMA PutRowMoves ==
  ASSUME Types, Places, Records, NEW c \in Calls, PutRow(c)
  PROVE  /\ call[c].at = "row" /\ UNCHANGED plan
         /\ \/ /\ rows[call[c].t] # NoRow
               /\ Becomes(c, "done", call[c].i, call[c].f, call[c].reserved, call[c].sent, call[c].arts, call[c].t, call[c].todo, "fail")
               /\ UNCHANGED <<lock, live, idem, obj, disk, held, reap, work, stable, inputs, memo, bag, rows, bytes, crashes, history>>
            \/ /\ rows[call[c].t] = NoRow /\ Req(c).op = "store"
               /\ Becomes(c, "done", call[c].i, call[c].f, call[c].reserved, call[c].sent, call[c].arts, call[c].t, call[c].todo, "ok")
               /\ rows' = [rows EXCEPT ![call[c].t] = [digest |-> Digest(c), expired |-> FALSE]]
               /\ UNCHANGED <<lock, live, idem, obj, disk, held, reap, work, stable, inputs, memo, bag, bytes, crashes, history>>
            \/ /\ rows[call[c].t] = NoRow /\ Req(c).op # "store" /\ call[c].f = Size
               /\ Becomes(c, "unlink", call[c].i, 1, call[c].reserved, call[c].sent, call[c].arts, call[c].t, call[c].todo, call[c].res)
               /\ rows' = [rows EXCEPT ![call[c].t] = [digest |-> Digest(c), expired |-> FALSE]]
               /\ UNCHANGED <<lock, live, idem, obj, disk, held, reap, work, stable, inputs, memo, bag, bytes, crashes, history>>
            \/ /\ rows[call[c].t] = NoRow /\ Req(c).op # "store" /\ call[c].f # Size
               /\ Becomes(c, "copy", call[c].i, call[c].f + 1, call[c].reserved, call[c].sent, call[c].arts, call[c].t, call[c].todo, call[c].res)
               /\ rows' = [rows EXCEPT ![call[c].t] = [digest |-> Digest(c), expired |-> FALSE]]
               /\ UNCHANGED <<lock, live, idem, obj, disk, held, reap, work, stable, inputs, memo, bag, bytes, crashes, history>>
  <1>1. call \in [Calls -> CallType] /\ call[c] \in CallType BY DEF Types
  <1>2. call[c].at = "row" /\ UNCHANGED plan BY IssuedAre DEF PutRow, At
  <1>b0. CASE rows[call[c].t] # NoRow
    <2>1. call' = [call EXCEPT ![c].at = "done", ![c].res = "fail"]
      BY <1>b0 DEF PutRow, At, Goto, Answer, Registered
    <2>3. [call[c] EXCEPT !.at = "done", !.res = "fail"] \in CallType /\ call' = [call EXCEPT ![c] = [call[c] EXCEPT !.at = "done", !.res = "fail"]]
      BY <1>1, <2>1 DEF CallType, AnyLabel, Promotes, Removing, Registers
    <2>4. Becomes(c, "done", call[c].i, call[c].f, call[c].reserved, call[c].sent, call[c].arts, call[c].t, call[c].todo, "fail")
      BY <1>1, <2>1, <2>3 DEF Becomes
    <2>5. /\ UNCHANGED <<lock, live, idem, obj, disk, held, reap, work, stable, inputs, memo, bag, rows, bytes, crashes, history>>
      BY <1>b0, <1>1, <1>2, PlanFacts, IssuedAre DEF PutRow, At, Goto, Answer, Registered, intents, tree, run,
         exchange, Types
    <2> QED BY <1>2, <1>b0, <2>4, <2>5
  <1>b1. CASE rows[call[c].t] = NoRow /\ Req(c).op = "store"
    <2>1. call' = [call EXCEPT ![c].at = "done", ![c].res = "ok"]
      BY <1>b1 DEF PutRow, At, Goto, Answer, Registered
    <2>3. [call[c] EXCEPT !.at = "done", !.res = "ok"] \in CallType /\ call' = [call EXCEPT ![c] = [call[c] EXCEPT !.at = "done", !.res = "ok"]]
      BY <1>1, <2>1 DEF CallType, AnyLabel, Promotes, Removing, Registers
    <2>4. Becomes(c, "done", call[c].i, call[c].f, call[c].reserved, call[c].sent, call[c].arts, call[c].t, call[c].todo, "ok")
      BY <1>1, <2>1, <2>3 DEF Becomes
    <2>5. /\ rows' = [rows EXCEPT ![call[c].t] = [digest |-> Digest(c), expired |-> FALSE]] /\ UNCHANGED <<lock, live, idem, obj, disk, held, reap, work, stable, inputs, memo, bag, bytes, crashes, history>>
      BY <1>b1, <1>1, <1>2, PlanFacts, IssuedAre DEF PutRow, At, Goto, Answer, Registered, intents, tree, run,
         exchange, Types
    <2> QED BY <1>2, <1>b1, <2>4, <2>5
  <1>b2. CASE rows[call[c].t] = NoRow /\ Req(c).op # "store" /\ call[c].f = Size
    <2>1. call' = [call EXCEPT ![c].at = "unlink", ![c].f = 1]
      BY <1>b2 DEF PutRow, At, Goto, Answer, Registered
    <2>2. 1 \in Files
      BY <1>1, <1>b2, CallTypes, PlanFacts, FileFacts, FileTypes, IssuedAre, ReservedTypes DEF PutRow, At, Goto,
         Answer, Registered, AnyLabel, Promotes, Removing, Registers, RequestType, Types
    <2>3. [call[c] EXCEPT !.at = "unlink", !.f = 1] \in CallType /\ call' = [call EXCEPT ![c] = [call[c] EXCEPT !.at = "unlink", !.f = 1]]
      BY <1>1, <2>1, <2>2 DEF CallType, AnyLabel, Promotes, Removing, Registers
    <2>4. Becomes(c, "unlink", call[c].i, 1, call[c].reserved, call[c].sent, call[c].arts, call[c].t, call[c].todo, call[c].res)
      BY <1>1, <2>1, <2>3 DEF Becomes
    <2>5. /\ rows' = [rows EXCEPT ![call[c].t] = [digest |-> Digest(c), expired |-> FALSE]] /\ UNCHANGED <<lock, live, idem, obj, disk, held, reap, work, stable, inputs, memo, bag, bytes, crashes, history>>
      BY <1>b2, <1>1, <1>2, PlanFacts, IssuedAre DEF PutRow, At, Goto, Answer, Registered, intents, tree, run,
         exchange, Types
    <2> QED BY <1>2, <1>b2, <2>4, <2>5
  <1>b3. CASE rows[call[c].t] = NoRow /\ Req(c).op # "store" /\ call[c].f # Size
    <2>1. call' = [call EXCEPT ![c].at = "copy", ![c].f = call[c].f + 1]
      BY <1>b3 DEF PutRow, At, Goto, Answer, Registered
    <2>2. call[c].f + 1 \in Files
      BY <1>1, <1>b3, CallTypes, PlanFacts, FileFacts, FileTypes, IssuedAre, ReservedTypes DEF PutRow, At, Goto,
         Answer, Registered, AnyLabel, Promotes, Removing, Registers, RequestType, Types
    <2>3. [call[c] EXCEPT !.at = "copy", !.f = call[c].f + 1] \in CallType /\ call' = [call EXCEPT ![c] = [call[c] EXCEPT !.at = "copy", !.f = call[c].f + 1]]
      BY <1>1, <2>1, <2>2 DEF CallType, AnyLabel, Promotes, Removing, Registers
    <2>4. Becomes(c, "copy", call[c].i, call[c].f + 1, call[c].reserved, call[c].sent, call[c].arts, call[c].t, call[c].todo, call[c].res)
      BY <1>1, <2>1, <2>3 DEF Becomes
    <2>5. /\ rows' = [rows EXCEPT ![call[c].t] = [digest |-> Digest(c), expired |-> FALSE]] /\ UNCHANGED <<lock, live, idem, obj, disk, held, reap, work, stable, inputs, memo, bag, bytes, crashes, history>>
      BY <1>b3, <1>1, <1>2, PlanFacts, IssuedAre DEF PutRow, At, Goto, Answer, Registered, intents, tree, run,
         exchange, Types
    <2> QED BY <1>2, <1>b3, <2>4, <2>5
  <1> QED BY <1>b0, <1>b1, <1>b2, <1>b3 DEF PutRow, Types

LEMMA GcListMoves ==
  ASSUME Types, Places, Records, NEW c \in Calls, GcList(c)
  PROVE  /\ Begins(c, "gc") /\ UNCHANGED plan
         /\ Becomes(c, "gc", call[c].i, call[c].f, call[c].reserved, call[c].sent, call[c].arts, call[c].t, Lapsed, call[c].res)
            /\ UNCHANGED <<lock, live, idem, obj, disk, held, reap, work, stable, inputs, memo, bag, rows, bytes, crashes, history>>
  <1>1. call \in [Calls -> CallType] /\ call[c] \in CallType BY DEF Types
  <1>2. Begins(c, "gc") /\ UNCHANGED plan BY IssuedAre DEF GcList, At
  <1>3. call' = [call EXCEPT ![c].at = "gc", ![c].todo = Lapsed]
    BY DEF GcList, At, Goto, Answer, Begins, Lapsed
  <1>4. Lapsed \in SUBSET (Files \union Transfers \union (Files \X (Contents \union {None})))
    BY <1>1, CallTypes, PlanFacts, FileFacts, FileTypes, IssuedAre, ReservedTypes DEF GcList, At, Goto, Answer,
       Begins, Lapsed, AnyLabel, Promotes, Removing, Registers, RequestType, Types
  <1>5. [call[c] EXCEPT !.at = "gc", !.todo = Lapsed] \in CallType /\ call' = [call EXCEPT ![c] = [call[c] EXCEPT !.at = "gc", !.todo = Lapsed]]
    BY <1>1, <1>3, <1>4, Zenon DEF CallType, AnyLabel, Promotes, Removing, Registers
  <1>6. Becomes(c, "gc", call[c].i, call[c].f, call[c].reserved, call[c].sent, call[c].arts, call[c].t, Lapsed, call[c].res)
    BY <1>1, <1>3, <1>5 DEF Becomes
  <1>7. /\ UNCHANGED <<lock, live, idem, obj, disk, held, reap, work, stable, inputs, memo, bag, rows, bytes, crashes, history>>
    BY <1>1, <1>2, PlanFacts, IssuedAre DEF GcList, At, Goto, Answer, Begins, Lapsed, intents, tree, run, exchange,
       Types
  <1> QED BY <1>2, <1>6, <1>7

LEMMA GcBytesMoves ==
  ASSUME Types, Places, Records, NEW c \in Calls, GcBytes(c)
  PROVE  /\ call[c].at = "gc" /\ UNCHANGED plan
         /\ \/ /\ call[c].todo = {}
               /\ Becomes(c, "done", call[c].i, call[c].f, call[c].reserved, call[c].sent, call[c].arts, call[c].t, call[c].todo, "ok")
               /\ UNCHANGED <<lock, live, idem, obj, disk, held, reap, work, stable, inputs, memo, bag, rows, bytes, crashes, history>>
            \/ /\ call[c].todo # {}
               /\ Becomes(c, "gcrow", call[c].i, call[c].f, call[c].reserved, call[c].sent, call[c].arts, Min(call[c].todo), call[c].todo, call[c].res)
               /\ bytes' = [bytes EXCEPT ![Min(call[c].todo)] = None]
               /\ UNCHANGED <<lock, live, idem, obj, disk, held, reap, work, stable, inputs, memo, bag, rows, crashes, history>>
  <1>1. call \in [Calls -> CallType] /\ call[c] \in CallType BY DEF Types
  <1>2. call[c].at = "gc" /\ UNCHANGED plan BY IssuedAre DEF GcBytes, At
  <1>b0. CASE call[c].todo = {}
    <2>1. call' = [call EXCEPT ![c].at = "done", ![c].res = "ok"] BY <1>b0 DEF GcBytes, At, Goto, Answer
    <2>3. [call[c] EXCEPT !.at = "done", !.res = "ok"] \in CallType /\ call' = [call EXCEPT ![c] = [call[c] EXCEPT !.at = "done", !.res = "ok"]]
      BY <1>1, <2>1 DEF CallType, AnyLabel, Promotes, Removing, Registers
    <2>4. Becomes(c, "done", call[c].i, call[c].f, call[c].reserved, call[c].sent, call[c].arts, call[c].t, call[c].todo, "ok")
      BY <1>1, <2>1, <2>3 DEF Becomes
    <2>5. /\ UNCHANGED <<lock, live, idem, obj, disk, held, reap, work, stable, inputs, memo, bag, rows, bytes, crashes, history>>
      BY <1>b0, <1>1, <1>2, PlanFacts, IssuedAre DEF GcBytes, At, Goto, Answer, intents, tree, run, exchange, Types
    <2> QED BY <1>2, <1>b0, <2>4, <2>5
  <1>b1. CASE call[c].todo # {}
    <2>1. call' = [call EXCEPT ![c].at = "gcrow", ![c].t = Min(call[c].todo)]
      BY <1>b1 DEF GcBytes, At, Goto, Answer
    <2>2. Min(call[c].todo) \in Transfers \union {0}
      <3>1. call[c].todo \subseteq Transfers /\ call[c].todo # {}
        BY <1>b1 DEF GcBytes, At, Places, Place, Labels, Registers, Promotes, Removing
      <3> QED BY <3>1, LeastIsIn, FileFacts
    <2>3. [call[c] EXCEPT !.at = "gcrow", !.t = Min(call[c].todo)] \in CallType /\ call' = [call EXCEPT ![c] = [call[c] EXCEPT !.at = "gcrow", !.t = Min(call[c].todo)]]
      BY <1>1, <2>1, <2>2, Zenon DEF CallType, AnyLabel, Promotes, Removing, Registers
    <2>4. Becomes(c, "gcrow", call[c].i, call[c].f, call[c].reserved, call[c].sent, call[c].arts, Min(call[c].todo), call[c].todo, call[c].res)
      BY <1>1, <2>1, <2>3 DEF Becomes
    <2>5. /\ bytes' = [bytes EXCEPT ![Min(call[c].todo)] = None] /\ UNCHANGED <<lock, live, idem, obj, disk, held, reap, work, stable, inputs, memo, bag, rows, crashes, history>>
      BY <1>b1, <1>1, <1>2, PlanFacts, IssuedAre DEF GcBytes, At, Goto, Answer, intents, tree, run, exchange, Types
    <2> QED BY <1>2, <1>b1, <2>4, <2>5
  <1> QED BY <1>b0, <1>b1 DEF GcBytes, Types

LEMMA GcRowMoves ==
  ASSUME Types, Places, Records, NEW c \in Calls, GcRow(c)
  PROVE  /\ call[c].at = "gcrow" /\ UNCHANGED plan
         /\ Becomes(c, "gc", call[c].i, call[c].f, call[c].reserved, call[c].sent, call[c].arts, 0, call[c].todo \ {call[c].t}, call[c].res)
            /\ rows' = [rows EXCEPT ![call[c].t] = NoRow]
            /\ UNCHANGED <<lock, live, idem, obj, disk, held, reap, work, stable, inputs, memo, bag, bytes, crashes, history>>
  <1>1. call \in [Calls -> CallType] /\ call[c] \in CallType BY DEF Types
  <1>2. call[c].at = "gcrow" /\ UNCHANGED plan BY IssuedAre DEF GcRow, At
  <1>3. call' = [call EXCEPT ![c].at = "gc", ![c].todo = call[c].todo \ {call[c].t}, ![c].t = 0]
    BY DEF GcRow, At, Goto, Answer
  <1>4. call[c].todo \ {call[c].t} \in SUBSET (Files \union Transfers \union (Files \X (Contents \union {None}))) /\ 0 \in Transfers \union {0}
    BY <1>1, CallTypes, PlanFacts, FileFacts, FileTypes, IssuedAre, ReservedTypes DEF GcRow, At, Goto, Answer,
       AnyLabel, Promotes, Removing, Registers, RequestType, Types
  <1>5. [call[c] EXCEPT !.at = "gc", !.todo = call[c].todo \ {call[c].t}, !.t = 0] \in CallType /\ call' = [call EXCEPT ![c] = [call[c] EXCEPT !.at = "gc", !.todo = call[c].todo \ {call[c].t}, !.t = 0]]
    BY <1>1, <1>3, <1>4, Zenon DEF CallType, AnyLabel, Promotes, Removing, Registers
  <1>6. Becomes(c, "gc", call[c].i, call[c].f, call[c].reserved, call[c].sent, call[c].arts, 0, call[c].todo \ {call[c].t}, call[c].res)
    BY <1>1, <1>3, <1>5 DEF Becomes
  <1>7. /\ rows' = [rows EXCEPT ![call[c].t] = NoRow] /\ UNCHANGED <<lock, live, idem, obj, disk, held, reap, work, stable, inputs, memo, bag, bytes, crashes, history>>
    BY <1>1, <1>2, PlanFacts, IssuedAre DEF GcRow, At, Goto, Answer, intents, tree, run, exchange, Types
  <1> QED BY <1>2, <1>6, <1>7

LEMMA LoadBytesMoves ==
  ASSUME Types, Places, Records, NEW c \in Calls, LoadBytes(c)
  PROVE  /\ call[c].at = "load" /\ UNCHANGED plan
         /\ \/ /\ Unserved(c)
               /\ Becomes(c, "done", call[c].i, call[c].f, call[c].reserved, call[c].sent, call[c].arts, call[c].t, call[c].todo, "fail")
               /\ UNCHANGED <<lock, live, idem, obj, disk, held, reap, work, stable, inputs, memo, bag, rows, bytes, crashes, history>>
            \/ /\ ~Unserved(c) /\ bytes[call[c].t] # Digest(c)
               /\ Becomes(c, "done", call[c].i, call[c].f, call[c].reserved, call[c].sent, call[c].arts, call[c].t, call[c].todo, "fail")
               /\ Observed(history.gone, history.undead, history.cut, history.overlap, history.raced, history.reput, history.broken \/ bytes[call[c].t] # Digest(c))
               /\ UNCHANGED <<lock, live, idem, obj, disk, held, reap, work, stable, inputs, memo, bag, rows, bytes, crashes>>
            \/ /\ ~Unserved(c) /\ bytes[call[c].t] = Digest(c)
               /\ Becomes(c, "done", call[c].i, call[c].f, call[c].reserved, call[c].sent, call[c].arts, call[c].t, call[c].todo, "ok")
               /\ Observed(history.gone, history.undead, history.cut, history.overlap, history.raced, history.reput, history.broken \/ bytes[call[c].t] # Digest(c))
               /\ UNCHANGED <<lock, live, idem, obj, disk, held, reap, work, stable, inputs, memo, bag, rows, bytes, crashes>>
  <1>1. call \in [Calls -> CallType] /\ call[c] \in CallType BY DEF Types
  <1>2. call[c].at = "load" /\ UNCHANGED plan BY IssuedAre DEF LoadBytes, At
  <1>b0. CASE Unserved(c)
    <2>1. call' = [call EXCEPT ![c].at = "done", ![c].res = "fail"]
      BY <1>b0 DEF LoadBytes, At, Goto, Answer, Unserved
    <2>3. [call[c] EXCEPT !.at = "done", !.res = "fail"] \in CallType /\ call' = [call EXCEPT ![c] = [call[c] EXCEPT !.at = "done", !.res = "fail"]]
      BY <1>1, <2>1 DEF CallType, AnyLabel, Promotes, Removing, Registers
    <2>4. Becomes(c, "done", call[c].i, call[c].f, call[c].reserved, call[c].sent, call[c].arts, call[c].t, call[c].todo, "fail")
      BY <1>1, <2>1, <2>3 DEF Becomes
    <2>5. /\ UNCHANGED <<lock, live, idem, obj, disk, held, reap, work, stable, inputs, memo, bag, rows, bytes, crashes, history>>
      BY <1>b0, <1>1, <1>2, PlanFacts, IssuedAre DEF LoadBytes, At, Goto, Answer, Unserved, intents, tree, run,
         exchange, Types
    <2> QED BY <1>2, <1>b0, <2>4, <2>5
  <1>b1. CASE ~Unserved(c) /\ bytes[call[c].t] # Digest(c)
    <2>1. call' = [call EXCEPT ![c].at = "done", ![c].res = "fail"]
      BY <1>b1 DEF LoadBytes, At, Goto, Answer, Unserved
    <2>3. [call[c] EXCEPT !.at = "done", !.res = "fail"] \in CallType /\ call' = [call EXCEPT ![c] = [call[c] EXCEPT !.at = "done", !.res = "fail"]]
      BY <1>1, <2>1 DEF CallType, AnyLabel, Promotes, Removing, Registers
    <2>4. Becomes(c, "done", call[c].i, call[c].f, call[c].reserved, call[c].sent, call[c].arts, call[c].t, call[c].todo, "fail")
      BY <1>1, <2>1, <2>3 DEF Becomes
    <2>5. /\ Observed(history.gone, history.undead, history.cut, history.overlap, history.raced, history.reput, history.broken \/ bytes[call[c].t] # Digest(c)) /\ UNCHANGED <<lock, live, idem, obj, disk, held, reap, work, stable, inputs, memo, bag, rows, bytes, crashes>>
      BY <1>b1, <1>1, <1>2, PlanFacts, IssuedAre, Zenon DEF LoadBytes, At, Goto, Answer, Unserved, intents, tree, run,
         exchange, Types, Observed
    <2> QED BY <1>2, <1>b1, <2>4, <2>5
  <1>b2. CASE ~Unserved(c) /\ bytes[call[c].t] = Digest(c)
    <2>1. call' = [call EXCEPT ![c].at = "done", ![c].res = "ok"]
      BY <1>b2 DEF LoadBytes, At, Goto, Answer, Unserved
    <2>3. [call[c] EXCEPT !.at = "done", !.res = "ok"] \in CallType /\ call' = [call EXCEPT ![c] = [call[c] EXCEPT !.at = "done", !.res = "ok"]]
      BY <1>1, <2>1 DEF CallType, AnyLabel, Promotes, Removing, Registers
    <2>4. Becomes(c, "done", call[c].i, call[c].f, call[c].reserved, call[c].sent, call[c].arts, call[c].t, call[c].todo, "ok")
      BY <1>1, <2>1, <2>3 DEF Becomes
    <2>5. /\ Observed(history.gone, history.undead, history.cut, history.overlap, history.raced, history.reput, history.broken \/ bytes[call[c].t] # Digest(c)) /\ UNCHANGED <<lock, live, idem, obj, disk, held, reap, work, stable, inputs, memo, bag, rows, bytes, crashes>>
      BY <1>b2, <1>1, <1>2, PlanFacts, IssuedAre DEF LoadBytes, At, Goto, Answer, Unserved, intents, tree, run,
         exchange, Types, Observed
    <2> QED BY <1>2, <1>b2, <2>4, <2>5
  <1> QED BY <1>b0, <1>b1, <1>b2 DEF LoadBytes, Types, Unserved

LEMMA LoadRowMoves ==
  ASSUME Types, Places, Records, NEW c \in Calls, NEW t \in Transfers, LoadRow(c, t)
  PROVE  /\ Begins(c, "load") /\ UNCHANGED plan
         /\ \/ /\ rows[t] = NoRow
               /\ Becomes(c, "done", call[c].i, call[c].f, call[c].reserved, call[c].sent, call[c].arts, call[c].t, call[c].todo, "fail")
               /\ UNCHANGED <<lock, live, idem, obj, disk, held, reap, work, stable, inputs, memo, bag, rows, bytes, crashes, history>>
            \/ /\ rows[t] # NoRow
               /\ Becomes(c, "load", call[c].i, call[c].f, call[c].reserved, [f \in Files |-> rows[t].digest], call[c].arts, t, call[c].todo, call[c].res)
               /\ UNCHANGED <<lock, live, idem, obj, disk, held, reap, work, stable, inputs, memo, bag, rows, bytes, crashes, history>>
  <1>1. call \in [Calls -> CallType] /\ call[c] \in CallType BY DEF Types
  <1>2. Begins(c, "load") /\ UNCHANGED plan BY IssuedAre DEF LoadRow, At
  <1>b0. CASE rows[t] = NoRow
    <2>1. call' = [call EXCEPT ![c].at = "done", ![c].res = "fail"]
      BY <1>b0 DEF LoadRow, At, Goto, Answer, Begins
    <2>3. [call[c] EXCEPT !.at = "done", !.res = "fail"] \in CallType /\ call' = [call EXCEPT ![c] = [call[c] EXCEPT !.at = "done", !.res = "fail"]]
      BY <1>1, <2>1, Zenon DEF CallType, AnyLabel, Promotes, Removing, Registers
    <2>4. Becomes(c, "done", call[c].i, call[c].f, call[c].reserved, call[c].sent, call[c].arts, call[c].t, call[c].todo, "fail")
      BY <1>1, <2>1, <2>3 DEF Becomes
    <2>5. /\ UNCHANGED <<lock, live, idem, obj, disk, held, reap, work, stable, inputs, memo, bag, rows, bytes, crashes, history>>
      BY <1>b0, <1>1, <1>2, PlanFacts, IssuedAre DEF LoadRow, At, Goto, Answer, Begins, intents, tree, run, exchange,
         Types
    <2> QED BY <1>2, <1>b0, <2>4, <2>5
  <1>b1. CASE rows[t] # NoRow
    <2>1. call' = [call EXCEPT ![c].at = "load", ![c].t = t, ![c].sent = [f \in Files |-> rows[t].digest]]
      BY <1>b1 DEF LoadRow, At, Goto, Answer, Begins
    <2>2. t \in Transfers \union {0} /\ [f \in Files |-> rows[t].digest] \in FileType
      <3>1. rows[t] \in RowType BY DEF Types
      <3> QED BY <3>1 DEF RowType, FileType
    <2>3. [call[c] EXCEPT !.at = "load", !.t = t, !.sent = [f \in Files |-> rows[t].digest]] \in CallType /\ call' = [call EXCEPT ![c] = [call[c] EXCEPT !.at = "load", !.t = t, !.sent = [f \in Files |-> rows[t].digest]]]
      BY <1>1, <2>1, <2>2, Zenon DEF CallType, AnyLabel, Promotes, Removing, Registers
    <2>4. Becomes(c, "load", call[c].i, call[c].f, call[c].reserved, [f \in Files |-> rows[t].digest], call[c].arts, t, call[c].todo, call[c].res)
      BY <1>1, <2>1, <2>3 DEF Becomes
    <2>5. /\ UNCHANGED <<lock, live, idem, obj, disk, held, reap, work, stable, inputs, memo, bag, rows, bytes, crashes, history>>
      BY <1>b1, <1>1, <1>2, PlanFacts, IssuedAre DEF LoadRow, At, Goto, Answer, Begins, intents, tree, run, exchange,
         Types
    <2> QED BY <1>2, <1>b1, <2>4, <2>5
  <1> QED BY <1>b0, <1>b1 DEF LoadRow, Types

LEMMA LeaseLapsesMoves ==
  ASSUME Types, Places, Records, NEW i \in Intents, LeaseLapses(i)
  PROVE  /\ i \in live
         /\ Refreshed(i, obj[i].state)
         /\ UNCHANGED <<plan, call, lock, live, idem, disk, held, reap, work, stable, inputs, memo, bag, rows, bytes, crashes, history>>
  <1>1. obj' = [obj EXCEPT ![i].stale = TRUE] /\ i \in live BY DEF LeaseLapses
  <1>2. obj \in [Intents -> RecType] /\ obj[i] \in RecType BY DEF Types
  <1>3. Refreshed(i, obj[i].state) BY <1>1, <1>2 DEF Refreshed, Rewritten, RecType
  <1> QED BY <1>1, <1>3 DEF LeaseLapses, tree, run, exchange

LEMMA sweepExpiredMoves ==
  ASSUME Types, Places, Records, NEW i \in Intents, sweepExpired(i)
  PROVE  /\ i \in live /\ reap[i] = None
         /\ reap' = [reap EXCEPT ![i] = "staged"]
         /\ UNCHANGED <<plan, call, lock, live, idem, obj, disk, held, work, stable, inputs, memo, bag, rows, bytes, crashes, history>>
  BY DEF sweepExpired, At, Goto, Answer, intents, tree, run, exchange, Types, RemovedFromMap, Observed, Cut

LEMMA ReapStagedMoves ==
  ASSUME Types, Places, Records, NEW i \in Intents, ReapStaged(i)
  PROVE  /\ reap[i] = "staged"
         /\ work' \in {work, NoFiles} /\ reap' = [reap EXCEPT ![i] = "map"]
         /\ UNCHANGED <<plan, call, lock, live, idem, obj, disk, held, stable, inputs, memo, bag, rows, bytes, crashes, history>>
  BY DEF ReapStaged, At, Goto, Answer, AbandonStaged, intents, tree, run, exchange, Types, RemovedFromMap, Observed,
     Cut

LEMMA ReapMapMoves ==
  ASSUME Types, Places, Records, NEW i \in Intents, ReapMap(i)
  PROVE  /\ reap[i] = "map"
         /\ RemovedFromMap(i) /\ reap' = [reap EXCEPT ![i] = "dir"]
         /\ UNCHANGED <<plan, call, lock, obj, disk, held, work, stable, inputs, memo, bag, rows, bytes, crashes>>
  BY DEF ReapMap, At, Goto, Answer, removeMap, intents, tree, run, exchange, Types, RemovedFromMap, Observed, Cut

LEMMA ReapDirMoves ==
  ASSUME Types, Places, Records, NEW i \in Intents, ReapDir(i)
  PROVE  /\ reap[i] = "dir"
         /\ disk' = [disk EXCEPT ![i] = NoRec] /\ held' = [held EXCEPT ![i] = NoFiles] /\ reap' = [reap EXCEPT ![i] = None]
         /\ UNCHANGED <<plan, call, lock, live, idem, obj, work, stable, inputs, memo, bag, rows, bytes, crashes, history>>
  BY DEF ReapDir, At, Goto, Answer, removeDir, intents, tree, run, exchange, Types, RemovedFromMap, Observed, Cut

LEMMA ExpiresMoves ==
  ASSUME Types, Places, Records, NEW t \in Transfers, Expires(t)
  PROVE  /\ rows[t] # NoRow /\ ~rows[t].expired
         /\ rows' = [rows EXCEPT ![t].expired = TRUE]
         /\ UNCHANGED <<plan, call, lock, live, idem, obj, disk, held, reap, work, stable, inputs, memo, bag, bytes, crashes, history>>
  BY DEF Expires, At, Goto, Answer, intents, tree, run, exchange, Types, RemovedFromMap, Observed, Cut

-----------------------------------------------------------------------------
(* Types, places, records and removals. *)

LEMMA CrashMoves ==
  ASSUME Types, Places, Records, Crash
  PROVE  /\ \A i \in Intents : disk'[i] \in {NoRec, disk[i]}
         /\ live' = {i \in Intents : disk'[i].state # None}
         /\ \A i \in live' : disk'[i] = disk[i] /\ disk[i].state # None
         /\ \A i \in Intents : obj'[i] = IF i \in live' THEN disk[i] ELSE obj[i]
         /\ \A i \in Intents : held'[i] = IF i \in live' THEN held[i] ELSE NoFiles
         /\ \A k \in Keys : idem'[k] = Max({i \in live' : disk[i].key = k} \union {0})
         /\ Observed(history.gone \union (Issued \ live'), history.undead \/ live' \intersect history.gone # {},
                     history.cut, history.overlap, history.raced, history.reput, history.broken)
         /\ \A i \in Intents : reap'[i] = None
         /\ \A c \in Calls : \/ call'[c] = call[c] /\ call[c].at \in {"idle", "done", "lost"}
                             \/ call'[c] = [Idle EXCEPT !.at = "lost"]
         /\ lock' = None /\ crashes' = crashes + 1
         /\ UNCHANGED <<plan, work, stable, inputs, memo, bag, rows, bytes>>
         /\ Types'
  <1>1. PICK torn \in SUBSET {call[c].i : c \in {b \in Calls : At(b, "persist")}} :
         LET left == [i \in Intents |-> IF i \in torn THEN NoRec ELSE disk[i]]
             loaded == {i \in Intents : left[i] # NoRec}
         IN /\ disk' = left /\ live' = loaded
            /\ obj' = [i \in Intents |-> IF i \in loaded THEN left[i] ELSE obj[i]]
            /\ held' = [i \in Intents |-> IF i \in loaded THEN held[i] ELSE NoFiles]
            /\ idem' = [k \in Keys |-> Max({i \in loaded : left[i].key = k} \union {0})]
            /\ history' = [history EXCEPT !.gone = @ \union (Issued \ loaded),
                                             !.undead = @ \/ loaded \intersect history.gone # {}]
    BY Zenon DEF Crash
  <1> DEFINE left == [i \in Intents |-> IF i \in torn THEN NoRec ELSE disk[i]]
             loaded == {i \in Intents : left[i] # NoRec}
  <1>2. \A i \in Intents : left[i] \in {NoRec, disk[i]} /\ left[i] \in RecType BY Idles DEF Types
  <1>3. loaded = {i \in Intents : left[i].state # None} /\ \A i \in loaded : left[i] = disk[i] /\ disk[i].state # None
    BY <1>2, Idles DEF Records
  <1>4. /\ disk' = left /\ live' = loaded
        /\ obj' = [i \in Intents |-> IF i \in loaded THEN left[i] ELSE obj[i]]
        /\ held' = [i \in Intents |-> IF i \in loaded THEN held[i] ELSE NoFiles]
    BY <1>1
  <1>5. idem' = [k \in Keys |-> Max({i \in loaded : left[i].key = k} \union {0})] BY <1>1
  <1>6. history' = [history EXCEPT !.gone = @ \union (Issued \ loaded),
                                   !.undead = @ \/ loaded \intersect history.gone # {}]
    BY <1>1
  <1>7. left \in [Intents -> RecType] /\ loaded \subseteq Intents BY <1>2
  <1> HIDE DEF left, loaded
  <1>8. \A k \in Keys : {i \in loaded : left[i].key = k} = {i \in loaded : disk[i].key = k} BY <1>3
  <1>9. \A k \in Keys : idem'[k] = Max({i \in live' : disk[i].key = k} \union {0}) BY <1>4, <1>5, <1>8
  <1>10. Observed(history.gone \union (Issued \ live'), history.undead \/ live' \intersect history.gone # {},
                  history.cut, history.overlap, history.raced, history.reput, history.broken)
    BY <1>4, <1>6 DEF Types, Observed
  <1>11. /\ lock' = None /\ crashes' = crashes + 1 /\ UNCHANGED <<plan, work, stable, inputs, memo, bag, rows, bytes>>
         /\ reap' = [i \in Intents |-> None]
         /\ call' = [c \in Calls |-> IF Ended(c) \/ At(c, "idle") THEN call[c] ELSE [Idle EXCEPT !.at = "lost"]]
    BY DEF Crash, tree, run, exchange
  <1>12. idem' \in [Keys -> Intents \union {0}]
    <2>1. \A k \in Keys : Max({i \in loaded : left[i].key = k} \union {0}) \in Intents \union {0}
      BY <1>7, GreatestIsIn
    <2> QED BY <1>5, <2>1
  <1>13. call' \in [Calls -> CallType] BY <1>11, Idles DEF Types
  <1>14. history' \in [gone : SUBSET Intents, undead : BOOLEAN, cut : BOOLEAN, overlap : BOOLEAN,
                       raced : BOOLEAN, reput : BOOLEAN, broken : BOOLEAN]
    BY <1>6, Zenon DEF Types, Issued
  <1>15. obj' \in [Intents -> RecType] /\ held' \in [Intents -> FileType] BY <1>4, <1>7, FileTypes DEF Types
  <1>16. Types' BY <1>4, <1>7, <1>11, <1>12, <1>13, <1>14, <1>15 DEF Types
  <1>17. \A c \in Calls : \/ call'[c] = call[c] /\ call[c].at \in {"idle", "done", "lost"}
                          \/ call'[c] = [Idle EXCEPT !.at = "lost"]
    BY <1>11 DEF Ended, At
  <1> QED BY <1>2, <1>3, <1>4, <1>9, <1>10, <1>11, <1>16, <1>17

LEMMA LabelsAre ==
  /\ Labels("issue") = {"idle", "done", "lost", "queued", "issue", "persist"}
  /\ Labels("put") = {"idle", "done", "lost", "write", "mark", "persist"}
  /\ Labels("resolve") = {"idle", "done", "lost", "stage", "prepared", "persist", "flow", "memo", "exec", "read",
                          "copy", "unlink", "find", "bytes", "row", "staged", "map", "dir"}
  /\ Labels("cancel") = {"idle", "done", "lost", "staged", "map", "dir"}
  /\ Labels("dispatch") = {"idle", "done", "lost", "materialize"}
  /\ Labels("store") = {"idle", "done", "lost", "find", "bytes", "row"}
  /\ Labels("gc") = {"idle", "done", "lost", "gc", "gcrow"}
  /\ Labels("load") = {"idle", "done", "lost", "load"}
  /\ Labels("unused") = {"idle", "done", "lost"}
  BY DEF Labels, Promotes, Removing, Registers

LEMMA Ops ==
  ASSUME Types, NEW c \in Calls
  PROVE  Req(c).op \in {"issue", "put", "resolve", "cancel", "dispatch", "store", "gc", "load", "unused"}
  BY PlanFacts DEF RequestType

LEMMA OpOf ==
  ASSUME Types, NEW c \in Calls, Place(c)
  PROVE  /\ \A op : {"idle", "done", "lost"} \subseteq Labels(op)
         /\ call[c].at \in {"queued", "issue"} => Req(c).op = "issue"
         /\ call[c].at \in {"write", "mark"} => Req(c).op = "put"
         /\ call[c].at \in {"stage", "prepared", "flow", "memo", "exec", "read", "copy", "unlink"} => Req(c).op = "resolve"
         /\ call[c].at \in {"find", "bytes", "row"} => Req(c).op \in {"resolve", "store"}
         /\ call[c].at \in {"staged", "map", "dir"} => Req(c).op \in {"resolve", "cancel"}
         /\ call[c].at = "materialize" => Req(c).op = "dispatch"
         /\ call[c].at \in {"gc", "gcrow"} => Req(c).op = "gc"
         /\ call[c].at = "load" => Req(c).op = "load"
         /\ call[c].at = "persist" => Req(c).op \in {"issue", "put", "resolve"}
  <1>1. call[c].at \in Labels(Req(c).op) BY DEF Place
  <1>2. \A op : {"idle", "done", "lost"} \subseteq Labels(op) BY DEF Labels
  <1> QED BY <1>1, <1>2, Ops, LabelsAre

LEMMA RecordsFrame ==
  ASSUME Types, Records, UNCHANGED <<live, idem, obj, disk>>, history'.gone = history.gone,
         \A i \in Intents : reap'[i] # None => Known(i),
         \A c \in Calls : call'[c].i # 0 => Known(call'[c].i)
  PROVE  Records'
  BY DEF Records, Known

LEMMA RecordsWrite ==
  ASSUME Types, Records, NEW i \in Intents, Known(i), NEW state, state # None, NEW uploaded,
         Rewritten(i, obj[i].key, state, uploaded), UNCHANGED <<live, idem, disk>>, history'.gone = history.gone,
         \A j \in Intents : reap'[j] # None => Known(j),
         \A c \in Calls : call'[c].i # 0 => call'[c].i \in Intents /\ Known(call'[c].i)
  PROVE  Records'
  <1>1. \A j \in Intents : (Known(j)' <=> Known(j)) /\ obj'[j].key = obj[j].key /\ (~Known(j) => obj'[j] = obj[j])
    BY DEF Rewritten, Known
  <1>2. live \subseteq Intents /\ history.gone \subseteq Intents /\ \A k \in Keys : idem[k] \in Intents \union {0}
    BY DEF Types
  <1>3. \A k \in Keys : idem'[k] # 0 => idem'[k] \in live' /\ obj'[idem'[k]].key = k BY <1>1, <1>2 DEF Records
  <1>4. \A c \in Calls : call'[c].i # 0 => obj'[call'[c].i].state # None BY <1>1 DEF Known
  <1>5. /\ \A j \in Intents : ~Known(j)' => obj'[j] = NoRec
        /\ \A j \in Intents : disk'[j].state = None => disk'[j] = NoRec
        /\ \A j \in Intents : Known(j)' => obj'[j].key \in Keys
        /\ \A j \in Intents : disk'[j].state # None => Known(j)' /\ disk'[j].key = obj'[j].key
    BY <1>1 DEF Records
  <1>6. /\ \A j \in live' \union history'.gone : Known(j)'
        /\ \A j \in Intents : reap'[j] # None => Known(j)'
        /\ \A j \in Intents : Known(j)' => j \in live' \union history'.gone
    BY <1>1, <1>2 DEF Records
  <1> QED BY <1>3, <1>4, <1>5, <1>6 DEF Records, Known

LEMMA RecordsPersist ==
  ASSUME Types, Records, NEW i \in Intents, Known(i), NEW rec \in {NoRec, obj[i]},
         disk' = [disk EXCEPT ![i] = rec], UNCHANGED <<live, idem, obj>>, history'.gone = history.gone,
         \A j \in Intents : reap'[j] # None => Known(j),
         \A c \in Calls : call'[c].i # 0 => Known(call'[c].i)
  PROVE  Records'
  <1>1. \A j \in Intents : (j = i => disk'[j] = rec) /\ (j # i => disk'[j] = disk[j]) BY DEF Types
  <1>2. \A j \in Intents : Known(j)' <=> Known(j) BY DEF Known
  <1>3. /\ \A j \in Intents : disk'[j].state = None => disk'[j] = NoRec
        /\ \A j \in Intents : disk'[j].state # None => Known(j)' /\ disk'[j].key = obj'[j].key
    BY <1>1, <1>2, Idles DEF Records, Known
  <1> QED BY <1>2, <1>3 DEF Records, Known

LEMMA RecordsRemoveMap ==
  ASSUME Types, Records, NEW i \in Intents, Known(i), RemovedFromMap(i), UNCHANGED <<obj, disk>>,
         \A j \in Intents : reap'[j] # None => Known(j),
         \A c \in Calls : call'[c].i # 0 => Known(call'[c].i)
  PROVE  Records'
  <1>1. live' = live \ {i} /\ history'.gone = history.gone \union {i}
        /\ \A k \in Keys : idem'[k] = IF i \in live /\ obj[i].key = k THEN 0 ELSE idem[k]
    BY DEF RemovedFromMap, Observed
  <1>2. \A k \in Keys : idem'[k] # 0 => idem'[k] \in live' /\ obj'[idem'[k]].key = k BY <1>1 DEF Records
  <1>3. /\ \A j \in live' \union history'.gone : Known(j)'
        /\ \A j \in Intents : Known(j)' => j \in live' \union history'.gone
    BY <1>1 DEF Records, Known
  <1> QED BY <1>2, <1>3 DEF Records, Known

LEMMA CallKnown ==
  ASSUME Types, Records, NEW c \in Calls, NEW i, \A d \in Calls : d # c => call'[d] = call[d], call'[c].i = i,
         i = call[c].i \/ (i \in Intents /\ Known(i))
  PROVE  \A d \in Calls : call'[d].i # 0 => call'[d].i \in Intents /\ Known(call'[d].i)
  <1>1. \A d \in Calls : call[d].i \in Intents \union {0} BY CallTypes DEF Types
  <1> QED BY <1>1 DEF Records

LEMMA LapsedKnown ==
  ASSUME Types, Records, NEW i \in Intents, Known(i), LapsedAbandon(i)
  PROVE  \A j \in Intents : reap'[j] # None => Known(j)
  BY DEF LapsedAbandon, Types, Records

LEMMA HasIntent ==
  ASSUME Types, Places, Records, NEW c \in Calls, call[c].at \in {"persist", "write", "mark", "stage", "prepared"} \union Removing
  PROVE  call[c].i \in Intents /\ Known(call[c].i)
  <1>1. call[c].i \in Intents \union {0} /\ call[c].i # 0 BY CallTypes DEF Types, Places, Place
  <1> QED BY <1>1 DEF Records

LEMMA RecUpdates ==
  ASSUME NEW r \in RecType, NEW f \in Files, NEW b \in Contents
  PROVE  /\ [r EXCEPT !.stale = TRUE] \in RecType /\ [r EXCEPT !.stale = FALSE] \in RecType
         /\ [r EXCEPT !.state = "prepared", !.stale = FALSE] \in RecType
         /\ [r EXCEPT !.uploaded = @ \union {f}, !.hash[f] = b, !.stale = FALSE] \in RecType
         /\ \A k \in Keys : [NoRec EXCEPT !.key = k, !.state = "open"] \in RecType
  BY Idles, Zenon DEF RecType, NoRec, NoFiles

LEMMA PlacesKept ==
  ASSUME Places, NEW c \in Calls, \A d \in Calls : d # c => call'[d] = call[d], UNCHANGED plan, Place(c)'
  PROVE  Places'
  BY DEF Places, Place, Req

LEMMA BaseStep ==
  ASSUME Base, [Next]_vars
  PROVE  Base'
  <1> Types /\ Places /\ Records /\ Removals BY DEF Base
  <1>IssueRoute. ASSUME NEW c \in Calls, IssueRoute(c) PROVE Base'
    <2> USE <1>IssueRoute
    <2> Place(c) /\ call[c] \in CallType BY DEF Places, Types
    <2>1. Types'
      <3>1. call' \in [Calls -> CallType] BY IssueRouteMoves DEF Becomes
      <3> QED
        BY <3>1, PlanFacts, FileTypes, Idles DEF IssueRoute, At, Goto, Answer, Begins, intents, tree, run, exchange,
           Types, RequestType
    <2>2. Places'
      <3>1. Place(c)'
        BY IssueRouteMoves, CallTypes, FileFacts, LabelsAre, OpOf DEF Begins, At, Becomes, Place, Promotes, Removing,
           Registers, Req
      <3> QED BY <3>1, IssueRouteMoves, PlacesKept DEF Becomes
    <2>3. Records'
      BY <2>1, IssueRouteMoves, CallTypes DEF Becomes, Types, Records, Known, RemovedFromMap, Observed, Rewritten,
         Recorded, Refreshed, Marked, LapsedAbandon
    <2>4. Removals'
      BY <2>1, IssueRouteMoves DEF Becomes, Types, Removals, RemovedFromMap, Observed, Rewritten, Recorded, Refreshed,
         Marked, LapsedAbandon
    <2> QED BY <2>1, <2>2, <2>3, <2>4 DEF Base
  <1>IssueCheck. ASSUME NEW c \in Calls, IssueCheck(c) PROVE Base'
    <2> USE <1>IssueCheck
    <2> Place(c) /\ call[c] \in CallType BY DEF Places, Types
    <2>1. Types'
      <3>1. call' \in [Calls -> CallType] BY IssueCheckMoves DEF Becomes
      <3> QED
        BY <3>1, PlanFacts, FileTypes, Idles DEF IssueCheck, At, Goto, Answer, intents, tree, run, exchange, Types,
           RequestType
    <2>2. Places'
      <3>1. Place(c)'
        BY IssueCheckMoves, CallTypes, FileFacts, LabelsAre, OpOf DEF Begins, At, Becomes, Place, Promotes, Removing,
           Registers, Req
      <3> QED BY <3>1, IssueCheckMoves, PlacesKept DEF Becomes
    <2>3. Records'
      BY <2>1, IssueCheckMoves, CallTypes DEF Becomes, Types, Records, Known, RemovedFromMap, Observed, Rewritten,
         Recorded, Refreshed, Marked, LapsedAbandon
    <2>4. Removals'
      BY <2>1, IssueCheckMoves DEF Becomes, Types, Removals, RemovedFromMap, Observed, Rewritten, Recorded, Refreshed,
         Marked, LapsedAbandon
    <2> QED BY <2>1, <2>2, <2>3, <2>4 DEF Base
  <1>IssueRecord. ASSUME NEW c \in Calls, IssueRecord(c) PROVE Base'
    <2> USE <1>IssueRecord
    <2> Place(c) /\ call[c] \in CallType BY DEF Places, Types
    <2>1. Types'
      <3>1. call' \in [Calls -> CallType] BY IssueRecordMoves DEF Becomes
      <3>2. CASE NoRoom(c) BY <3>1, <3>2 DEF IssueRecord, Answer, NoRoom, tree, run, exchange, Types
      <3>3. CASE ~NoRoom(c)
        <4> DEFINE i == Min(Intents \ Issued)
                   r == [NoRec EXCEPT !.key = Req(c).key, !.state = "open"]
        <4>1. i \in Intents /\ Req(c).key \in Keys
          BY <3>3, IssuedAre, IssueRecordMoves, OpOf, PlanFacts DEF NoRoom
        <4>2. r \in RecType BY <4>1, Idles DEF RecType
        <4>3. live' = live \union {i} /\ idem' = [idem EXCEPT ![Req(c).key] = i] /\ obj' = [obj EXCEPT ![i] = r]
          BY <3>3 DEF IssueRecord, NoRoom
        <4> HIDE DEF i, r
        <4>4. live' \subseteq Intents /\ idem' \in [Keys -> Intents \union {0}] /\ obj' \in [Intents -> RecType]
          BY <4>1, <4>2, <4>3 DEF Types
        <4> QED BY <3>1, <4>4 DEF IssueRecord, tree, run, exchange, Types
      <3> QED BY <3>2, <3>3
    <2>2. Places'
      <3>1. Place(c)'
        <4>1. Req(c).op = "issue" /\ Req(c)' = Req(c) BY IssueRecordMoves, OpOf DEF Req
        <4>2. call'[c].at = "done" \/ (call'[c].at = "persist" /\ call'[c].i # 0)
          BY IssueRecordMoves, IssuedAre, FileFacts DEF Becomes, NoRoom
        <4> QED BY <4>1, <4>2, LabelsAre DEF Place, Promotes, Removing, Registers
      <3> QED BY <3>1, IssueRecordMoves, PlacesKept DEF Becomes
    <2>3. Records'
      <3>1. CASE NoRoom(c)
        <4>1. \A d \in Calls : call'[d].i # 0 => Known(call'[d].i)
          BY <3>1, IssueRecordMoves, CallKnown DEF Becomes
        <4> QED BY <3>1, <4>1, IssueRecordMoves, RecordsFrame DEF Records
      <3>2. CASE ~NoRoom(c)
        <4> DEFINE i == Min(Intents \ Issued)
        <4>1. i \in Intents /\ ~Known(i) BY <3>2, IssuedAre DEF NoRoom
        <4>2. /\ Recorded(c, i) /\ UNCHANGED <<disk, reap, history>>
              /\ \A d \in Calls : d # c => call'[d] = call[d]
              /\ call'[c].i = i /\ Req(c).key \in Keys
          BY <3>2, IssueRecordMoves, OpOf, PlanFacts DEF Becomes
        <4> HIDE DEF i
        <4>3. /\ live' = live \union {i} /\ idem' = [idem EXCEPT ![Req(c).key] = i]
              /\ \A j \in Intents : j # i => obj'[j] = obj[j]
              /\ obj'[i].key = Req(c).key /\ obj'[i].state = "open"
          BY <4>2 DEF Recorded, Rewritten
        <4>4. i \notin live /\ i \notin history.gone /\ live \subseteq Intents /\ history.gone \subseteq Intents
          BY <4>1 DEF Records, Types
        <4>5. \A k \in Keys : idem'[k] # 0 => idem'[k] \in live' /\ obj'[idem'[k]].key = k
          BY <4>1, <4>2, <4>3, <4>4 DEF Records, Types
        <4>6. \A j \in Intents : Known(j) => Known(j)' /\ obj'[j] = obj[j] BY <4>1, <4>3 DEF Known
        <4>7. \A d \in Calls : call'[d].i # 0 => obj'[call'[d].i].state # None
          <5>1. \A d \in Calls : call[d].i \in Intents \union {0} BY CallTypes DEF Types
          <5> QED BY <4>2, <4>3, <4>6, <5>1 DEF Records, Known, None
        <4>8. /\ \A j \in Intents : ~Known(j)' => obj'[j] = NoRec
              /\ \A j \in Intents : disk'[j].state = None => disk'[j] = NoRec
              /\ \A j \in Intents : Known(j)' => obj'[j].key \in Keys
              /\ \A j \in Intents : disk'[j].state # None => Known(j)' /\ disk'[j].key = obj'[j].key
          BY <4>2, <4>3, <4>6 DEF Records, Known, None
        <4>9. /\ \A j \in live' \union history'.gone : Known(j)'
              /\ \A j \in Intents : reap'[j] # None => Known(j)'
              /\ \A j \in Intents : Known(j)' => j \in live' \union history'.gone
          BY <4>1, <4>2, <4>3, <4>4, <4>6 DEF Records, Known, None
        <4> QED BY <4>5, <4>7, <4>8, <4>9 DEF Records, Known
      <3> QED BY <3>1, <3>2
    <2>4. Removals'
      <3>1. \A d \in Calls : call'[d].at = "dir" => call[d].at = "dir" /\ call'[d] = call[d]
        BY IssueRecordMoves DEF Becomes
      <3>2. UNCHANGED <<reap, history>> BY IssueRecordMoves
      <3>3. UNCHANGED live \/ (live' = live \union {Min(Intents \ Issued)} /\ Min(Intents \ Issued) \notin history.gone)
        BY IssueRecordMoves, IssuedAre DEF NoRoom, Recorded, Records
      <3> QED BY <3>1, <3>2, <3>3 DEF Removals
    <2> QED BY <2>1, <2>2, <2>3, <2>4 DEF Base
  <1>IssuePersist. ASSUME NEW c \in Calls, IssuePersist(c) PROVE Base'
    <2> USE <1>IssuePersist
    <2> Place(c) /\ call[c] \in CallType BY DEF Places, Types
    <2>1. Types'
      <3>1. call' \in [Calls -> CallType] BY IssuePersistMoves DEF Becomes
      <3> QED
        BY <3>1, PlanFacts, FileTypes, Idles DEF IssuePersist, At, Goto, Answer, persist, intents, tree, run,
           exchange, Types, RequestType
    <2>2. Places'
      <3>1. Place(c)'
        BY IssuePersistMoves, CallTypes, FileFacts, LabelsAre, OpOf DEF Begins, At, Becomes, Place, Promotes,
           Removing, Registers, Req
      <3> QED BY <3>1, IssuePersistMoves, PlacesKept DEF Becomes
    <2>3. Records'
      <3>1. /\ UNCHANGED <<live, idem, obj, reap, history>> /\ \A d \in Calls : call'[d].i = call[d].i
            /\ disk' = [disk EXCEPT ![call[c].i] = obj[call[c].i]]
        BY IssuePersistMoves DEF Becomes
      <3>2. disk \in [Intents -> RecType] /\ \A j \in Intents : disk'[j] = disk[j] \/ disk'[j] = obj[j]
        BY <3>1 DEF Types
      <3> QED BY <3>1, <3>2 DEF Records, Known
    <2>4. Removals'
      BY <2>1, IssuePersistMoves DEF Becomes, Types, Removals, RemovedFromMap, Observed, Rewritten, Recorded,
         Refreshed, Marked, LapsedAbandon
    <2> QED BY <2>1, <2>2, <2>3, <2>4 DEF Base
  <1>CallStaged. ASSUME NEW c \in Calls, CallStaged(c) PROVE Base'
    <2> USE <1>CallStaged
    <2> Place(c) /\ call[c] \in CallType BY DEF Places, Types
    <2>1. Types'
      <3>1. call' \in [Calls -> CallType] BY CallStagedMoves DEF Becomes
      <3> QED
        BY <3>1, PlanFacts, FileTypes, Idles DEF CallStaged, At, Goto, Answer, AbandonStaged, intents, tree, run,
           exchange, Types, RequestType
    <2>2. Places'
      <3>1. Place(c)'
        BY CallStagedMoves, CallTypes, FileFacts, LabelsAre, OpOf DEF Begins, At, Becomes, Place, Promotes, Removing,
           Registers, Req
      <3> QED BY <3>1, CallStagedMoves, PlacesKept DEF Becomes
    <2>3. Records'
      BY <2>1, CallStagedMoves, CallTypes DEF Becomes, Types, Records, Known, RemovedFromMap, Observed, Rewritten,
         Recorded, Refreshed, Marked, LapsedAbandon
    <2>4. Removals'
      BY <2>1, CallStagedMoves DEF Becomes, Types, Removals, RemovedFromMap, Observed, Rewritten, Recorded, Refreshed,
         Marked, LapsedAbandon
    <2> QED BY <2>1, <2>2, <2>3, <2>4 DEF Base
  <1>CallMap. ASSUME NEW c \in Calls, CallMap(c) PROVE Base'
    <2> USE <1>CallMap
    <2> Place(c) /\ call[c] \in CallType BY DEF Places, Types
    <2>1. Types'
      <3>1. call' \in [Calls -> CallType] BY CallMapMoves DEF Becomes
      <3>2. call[c].i \in Intents BY CallMapMoves, HasIntent DEF Removing
      <3>3. live' \subseteq Intents /\ idem' \in [Keys -> Intents \union {0}] BY DEF CallMap, removeMap, Types
      <3>4. history' \in [gone : SUBSET Intents, undead : BOOLEAN, cut : BOOLEAN, overlap : BOOLEAN,
                          raced : BOOLEAN, reput : BOOLEAN, broken : BOOLEAN]
        <4>1. history' = [history EXCEPT !.gone = @ \union {call[c].i}, !.cut = @ \/ Cut(call[c].i)]
          BY DEF CallMap, removeMap, Cut
        <4> QED BY <3>2, <4>1 DEF Types
      <3> QED BY <3>1, <3>3, <3>4 DEF CallMap, tree, run, exchange, Types
    <2>2. Places'
      <3>1. Place(c)'
        BY CallMapMoves, CallTypes, FileFacts, LabelsAre, OpOf DEF Begins, At, Becomes, Place, Promotes, Removing,
           Registers, Req
      <3> QED BY <3>1, CallMapMoves, PlacesKept DEF Becomes
    <2>3. Records'
      <3>1. call[c].i \in Intents /\ Known(call[c].i) BY CallMapMoves, HasIntent DEF Removing
      <3>2. \A d \in Calls : call'[d].i # 0 => Known(call'[d].i) BY CallMapMoves, CallKnown DEF Becomes
      <3>3. UNCHANGED <<obj, disk, reap>> /\ RemovedFromMap(call[c].i) BY CallMapMoves
      <3> QED BY <3>1, <3>2, <3>3, RecordsRemoveMap DEF Records
    <2>4. Removals'
      BY <2>1, CallMapMoves DEF Becomes, Types, Removals, RemovedFromMap, Observed, Rewritten, Recorded, Refreshed,
         Marked, LapsedAbandon
    <2> QED BY <2>1, <2>2, <2>3, <2>4 DEF Base
  <1>CallDir. ASSUME NEW c \in Calls, CallDir(c) PROVE Base'
    <2> USE <1>CallDir
    <2> Place(c) /\ call[c] \in CallType BY DEF Places, Types
    <2>1. Types'
      <3>1. call' \in [Calls -> CallType] BY CallDirMoves DEF Becomes
      <3> QED
        BY <3>1, PlanFacts, FileTypes, Idles DEF CallDir, At, Goto, Answer, removeDir, intents, tree, run, exchange,
           Types, RequestType
    <2>2. Places'
      <3>1. Place(c)'
        BY CallDirMoves, CallTypes, FileFacts, LabelsAre, OpOf DEF Begins, At, Becomes, Place, Promotes, Removing,
           Registers, Req
      <3> QED BY <3>1, CallDirMoves, PlacesKept DEF Becomes
    <2>3. Records'
      <3>1. call[c].i \in Intents /\ Known(call[c].i) BY CallDirMoves, HasIntent DEF Removing
      <3>2. \A d \in Calls : call'[d].i # 0 => Known(call'[d].i) BY CallDirMoves, CallKnown DEF Becomes
      <3>3. UNCHANGED <<live, idem, obj, history, reap>> /\ disk' = [disk EXCEPT ![call[c].i] = NoRec]
        BY CallDirMoves
      <3> QED BY <3>1, <3>2, <3>3, RecordsPersist DEF Records
    <2>4. Removals'
      BY <2>1, CallDirMoves DEF Becomes, Types, Removals, RemovedFromMap, Observed, Rewritten, Recorded, Refreshed,
         Marked, LapsedAbandon
    <2> QED BY <2>1, <2>2, <2>3, <2>4 DEF Base
  <1>AcceptWrite. ASSUME NEW c \in Calls, AcceptWrite(c) PROVE Base'
    <2> USE <1>AcceptWrite
    <2> Place(c) /\ call[c] \in CallType BY DEF Places, Types
    <2>1. Types'
      <3>1. call' \in [Calls -> CallType] BY AcceptWriteMoves DEF Becomes
      <3> QED
        BY <3>1, PlanFacts, FileTypes, Idles, Zenon DEF AcceptWrite, At, Goto, Answer, intents, tree, run, exchange, Types,
           RequestType
    <2>2. Places'
      <3>1. Place(c)'
        <4>1. Req(c).op = "put" /\ call[c].i # 0 /\ call[c].at = "write" BY AcceptWriteMoves, OpOf DEF Place
        <4>2. Req(c)' = Req(c) /\ call'[c].at = "mark" /\ call'[c].i = call[c].i
          BY AcceptWriteMoves DEF Becomes, Req
        <4> QED BY <4>1, <4>2, LabelsAre DEF Place, Promotes, Removing, Registers
      <3> QED BY <3>1, AcceptWriteMoves, PlacesKept DEF Becomes
    <2>3. Records'
      <3>1. \A d \in Calls : call'[d].i # 0 => Known(call'[d].i) BY AcceptWriteMoves, CallKnown DEF Becomes
      <3>2. UNCHANGED <<live, idem, obj, disk, reap>> /\ history'.gone = history.gone
        BY AcceptWriteMoves DEF Observed
      <3> QED BY <3>1, <3>2, RecordsFrame DEF Records
    <2>4. Removals'
      BY <2>1, AcceptWriteMoves, Zenon DEF Becomes, Types, Removals, RemovedFromMap, Observed, Rewritten, Recorded,
         Refreshed, Marked, LapsedAbandon
    <2> QED BY <2>1, <2>2, <2>3, <2>4 DEF Base
  <1>AcceptMark. ASSUME NEW c \in Calls, AcceptMark(c) PROVE Base'
    <2> USE <1>AcceptMark
    <2> Place(c) /\ call[c] \in CallType BY DEF Places, Types
    <2>1. Types'
      <3>1. call' \in [Calls -> CallType] BY AcceptMarkMoves DEF Becomes
      <3>2. call[c].i \in Intents BY AcceptMarkMoves, HasIntent DEF Removing
      <3>3. obj' = [obj EXCEPT ![call[c].i] = [obj[call[c].i] EXCEPT !.uploaded = @ \union {Req(c).file}, !.hash[Req(c).file] = Req(c).bytes, !.stale = FALSE]] /\ [obj[call[c].i] EXCEPT !.uploaded = @ \union {Req(c).file}, !.hash[Req(c).file] = Req(c).bytes, !.stale = FALSE] \in RecType
        <4>1. obj \in [Intents -> RecType] /\ obj[call[c].i] \in RecType /\ Req(c).file \in Files /\ Req(c).bytes \in Contents
          BY <3>2, PlanFacts DEF Types, RequestType
        <4>2. obj' = [obj EXCEPT ![call[c].i].uploaded = @ \union {Req(c).file}, ![call[c].i].hash[Req(c).file] = Req(c).bytes, ![call[c].i].stale = FALSE]
          BY DEF AcceptMark
        <4> QED BY <4>1, <4>2, RecUpdates, Zenon
      <3>4. obj' \in [Intents -> RecType] BY <3>2, <3>3 DEF Types
      <3> QED BY <3>1, <3>4 DEF AcceptMark, tree, run, exchange, Types
    <2>2. Places'
      <3>1. Place(c)'
        BY AcceptMarkMoves, CallTypes, FileFacts, LabelsAre, OpOf DEF Begins, At, Becomes, Place, Promotes, Removing,
           Registers, Req
      <3> QED BY <3>1, AcceptMarkMoves, PlacesKept DEF Becomes
    <2>3. Records'
      <3>1. call[c].i \in Intents /\ Known(call[c].i) BY AcceptMarkMoves, HasIntent DEF Removing
      <3>2. \A d \in Calls : call'[d].i # 0 => call'[d].i \in Intents /\ Known(call'[d].i)
        BY <3>1, AcceptMarkMoves, CallKnown DEF Becomes
      <3>3. Rewritten(call[c].i, obj[call[c].i].key, obj[call[c].i].state, obj[call[c].i].uploaded \union {Req(c).file}) /\ UNCHANGED <<live, idem, disk, history, reap>>
        BY AcceptMarkMoves DEF Refreshed, Marked
      <3> QED BY <3>1, <3>2, <3>3, RecordsWrite DEF Records, Known, None
    <2>4. Removals'
      BY <2>1, AcceptMarkMoves DEF Becomes, Types, Removals, RemovedFromMap, Observed, Rewritten, Recorded, Refreshed,
         Marked, LapsedAbandon
    <2> QED BY <2>1, <2>2, <2>3, <2>4 DEF Base
  <1>AcceptPersist. ASSUME NEW c \in Calls, AcceptPersist(c) PROVE Base'
    <2> USE <1>AcceptPersist
    <2> Place(c) /\ call[c] \in CallType BY DEF Places, Types
    <2>1. Types'
      <3>1. call' \in [Calls -> CallType] BY AcceptPersistMoves DEF Becomes
      <3> QED
        BY <3>1, PlanFacts, FileTypes, Idles DEF AcceptPersist, At, Goto, Answer, persist, intents, tree, run,
           exchange, Types, RequestType
    <2>2. Places'
      <3>1. Place(c)'
        BY AcceptPersistMoves, CallTypes, FileFacts, LabelsAre, OpOf DEF Begins, At, Becomes, Place, Promotes,
           Removing, Registers, Req
      <3> QED BY <3>1, AcceptPersistMoves, PlacesKept DEF Becomes
    <2>3. Records'
      <3>1. /\ UNCHANGED <<live, idem, obj, reap, history>> /\ \A d \in Calls : call'[d].i = call[d].i
            /\ disk' = [disk EXCEPT ![call[c].i] = obj[call[c].i]]
        BY AcceptPersistMoves DEF Becomes
      <3>2. disk \in [Intents -> RecType] /\ \A j \in Intents : disk'[j] = disk[j] \/ disk'[j] = obj[j]
        BY <3>1 DEF Types
      <3> QED BY <3>1, <3>2 DEF Records, Known
    <2>4. Removals'
      BY <2>1, AcceptPersistMoves DEF Becomes, Types, Removals, RemovedFromMap, Observed, Rewritten, Recorded,
         Refreshed, Marked, LapsedAbandon
    <2> QED BY <2>1, <2>2, <2>3, <2>4 DEF Base
  <1>Cancel. ASSUME NEW c \in Calls, NEW i \in Intents, Cancel(c, i) PROVE Base'
    <2> USE <1>Cancel
    <2> Place(c) /\ call[c] \in CallType BY DEF Places, Types
    <2>1. Types'
      <3>1. call' \in [Calls -> CallType] BY CancelMoves DEF Becomes
      <3> QED
        BY <3>1, PlanFacts, FileTypes, Idles DEF Cancel, At, Goto, Answer, Begins, intents, tree, run, exchange,
           Types, RequestType
    <2>2. Places'
      <3>1. Place(c)'
        BY CancelMoves, CallTypes, FileFacts, LabelsAre, OpOf DEF Begins, At, Becomes, Place, Promotes, Removing,
           Registers, Req
      <3> QED BY <3>1, CancelMoves, PlacesKept DEF Becomes
    <2>3. Records'
      BY <2>1, CancelMoves, CallTypes DEF Becomes, Types, Records, Known, RemovedFromMap, Observed, Rewritten,
         Recorded, Refreshed, Marked, LapsedAbandon
    <2>4. Removals'
      BY <2>1, CancelMoves DEF Becomes, Types, Removals, RemovedFromMap, Observed, Rewritten, Recorded, Refreshed,
         Marked, LapsedAbandon
    <2> QED BY <2>1, <2>2, <2>3, <2>4 DEF Base
  <1>AcceptCheck. ASSUME NEW c \in Calls, NEW i \in Intents, AcceptCheck(c, i) PROVE Base'
    <2> USE <1>AcceptCheck
    <2> Place(c) /\ call[c] \in CallType BY DEF Places, Types
    <2>1. Types'
      <3>1. call' \in [Calls -> CallType] BY AcceptCheckMoves DEF Becomes
      <3>2. obj' \in [Intents -> RecType]
        <4>1. obj \in [Intents -> RecType] /\ obj[i] \in RecType BY DEF Types
        <4>2. obj' = obj \/ obj' = [obj EXCEPT ![i].stale = FALSE] BY DEF AcceptCheck
        <4>3. CASE obj' = obj BY <4>1, <4>3
        <4>4. CASE obj' = [obj EXCEPT ![i].stale = FALSE]
          <5>1. obj' = [obj EXCEPT ![i] = [obj[i] EXCEPT !.stale = FALSE]] /\ [obj[i] EXCEPT !.stale = FALSE] \in RecType
            BY <4>1, <4>4 DEF RecType
          <5> QED BY <4>1, <5>1
        <4> QED BY <4>2, <4>3, <4>4
      <3>3. history' \in [gone : SUBSET Intents, undead : BOOLEAN, cut : BOOLEAN, overlap : BOOLEAN,
                          raced : BOOLEAN, reput : BOOLEAN, broken : BOOLEAN]
        <4>1. history' = history \/ history' = [history EXCEPT !.raced = @ \/ Racing(i, Req(c).file)]
          BY DEF AcceptCheck, Racing
        <4> QED BY <4>1 DEF Types
      <3>4. reap' \in [Intents -> {None, "staged", "map", "dir"}] BY DEF AcceptCheck, LapsedAbandon, Types
      <3> QED BY <3>1, <3>2, <3>3, <3>4 DEF AcceptCheck, tree, run, exchange, Types
    <2>2. Places'
      <3>1. Place(c)'
        BY AcceptCheckMoves, CallTypes, FileFacts, LabelsAre, OpOf DEF Begins, At, Becomes, Place, Promotes, Removing,
           Registers, Req
      <3> QED BY <3>1, AcceptCheckMoves, PlacesKept DEF Becomes
    <2>3. Records'
      <3>1. Known(i) /\ \A d \in Calls : call'[d].i # 0 => call'[d].i \in Intents /\ Known(call'[d].i)
        <4>1. Known(i) /\ (\A d \in Calls : d # c => call'[d] = call[d]) /\ call'[c].i \in {call[c].i, i}
          BY AcceptCheckMoves DEF Becomes
        <4> QED BY <4>1, CallKnown
      <3>2. \A j \in Intents : reap'[j] # None => Known(j) BY <3>1, LapsedKnown DEF AcceptCheck
      <3>3. UNCHANGED <<live, idem, disk>> /\ history'.gone = history.gone
            /\ (UNCHANGED obj \/ Rewritten(i, obj[i].key, obj[i].state, obj[i].uploaded))
        BY AcceptCheckMoves DEF Refreshed, Observed
      <3> QED BY <3>1, <3>2, <3>3, RecordsFrame, RecordsWrite DEF Known
    <2>4. Removals'
      <3>1. UNCHANGED live /\ history'.gone = history.gone /\ (history'.undead <=> history.undead)
        BY AcceptCheckMoves DEF Observed
      <3>2. \A j \in Intents : reap'[j] = "dir" => reap[j] = "dir" BY DEF AcceptCheck, LapsedAbandon, Types
      <3>3. (\A d \in Calls : d # c => call'[d] = call[d]) /\ call'[c].at # "dir"
        BY AcceptCheckMoves DEF Becomes
      <3> QED BY <3>1, <3>2, <3>3 DEF Removals
    <2> QED BY <2>1, <2>2, <2>3, <2>4 DEF Base
  <1>prepareResolve. ASSUME NEW c \in Calls, NEW i \in Intents, prepareResolve(c, i) PROVE Base'
    <2> USE <1>prepareResolve
    <2> Place(c) /\ call[c] \in CallType BY DEF Places, Types
    <2>1. Types'
      <3>1. call' \in [Calls -> CallType] BY prepareResolveMoves DEF Becomes
      <3> QED
        BY <3>1, PlanFacts, FileTypes, Idles DEF prepareResolve, At, Goto, Answer, Begins, LapsedAbandon, intents,
           tree, run, exchange, Types, RequestType
    <2>2. Places'
      <3>1. Place(c)'
        BY prepareResolveMoves, CallTypes, FileFacts, LabelsAre, OpOf DEF Begins, At, Becomes, Place, Promotes,
           Removing, Registers, Req
      <3> QED BY <3>1, prepareResolveMoves, PlacesKept DEF Becomes
    <2>3. Records'
      BY <2>1, prepareResolveMoves, CallTypes DEF Becomes, Types, Records, Known, RemovedFromMap, Observed, Rewritten,
         Recorded, Refreshed, Marked, LapsedAbandon
    <2>4. Removals'
      BY <2>1, prepareResolveMoves DEF Becomes, Types, Removals, RemovedFromMap, Observed, Rewritten, Recorded,
         Refreshed, Marked, LapsedAbandon
    <2> QED BY <2>1, <2>2, <2>3, <2>4 DEF Base
  <1>StageFile. ASSUME NEW c \in Calls, StageFile(c) PROVE Base'
    <2> USE <1>StageFile
    <2> Place(c) /\ call[c] \in CallType BY DEF Places, Types
    <2>1. Types'
      <3>1. call' \in [Calls -> CallType] BY StageFileMoves DEF Becomes
      <3>2. work' \in FileType
        <4>1. call[c].i \in Intents /\ call[c].f \in Files /\ work \in FileType /\ held[call[c].i] \in FileType
          BY StageFileMoves, HasIntent, CallTypes DEF Types
        <4>2. work' = work \/ work' = [work EXCEPT ![call[c].f] = held[call[c].i][call[c].f]] BY DEF StageFile
        <4> QED BY <4>1, <4>2, FileTypes
      <3> QED BY <3>1, <3>2 DEF StageFile, intents, run, exchange, Types
    <2>2. Places'
      <3>1. Place(c)'
        BY StageFileMoves, CallTypes, FileFacts, LabelsAre, OpOf DEF Begins, At, Becomes, Place, Promotes, Removing,
           Registers, Req
      <3> QED BY <3>1, StageFileMoves, PlacesKept DEF Becomes
    <2>3. Records'
      BY <2>1, StageFileMoves, CallTypes DEF Becomes, Types, Records, Known, RemovedFromMap, Observed, Rewritten,
         Recorded, Refreshed, Marked, LapsedAbandon
    <2>4. Removals'
      BY <2>1, StageFileMoves DEF Becomes, Types, Removals, RemovedFromMap, Observed, Rewritten, Recorded, Refreshed,
         Marked, LapsedAbandon
    <2> QED BY <2>1, <2>2, <2>3, <2>4 DEF Base
  <1>MarkPrepared. ASSUME NEW c \in Calls, MarkPrepared(c) PROVE Base'
    <2> USE <1>MarkPrepared
    <2> Place(c) /\ call[c] \in CallType BY DEF Places, Types
    <2>1. Types'
      <3>1. call' \in [Calls -> CallType] BY MarkPreparedMoves DEF Becomes
      <3>2. call[c].i \in Intents BY MarkPreparedMoves, HasIntent DEF Removing
      <3>3. obj' = [obj EXCEPT ![call[c].i] = [obj[call[c].i] EXCEPT !.state = "prepared", !.stale = FALSE]] /\ [obj[call[c].i] EXCEPT !.state = "prepared", !.stale = FALSE] \in RecType
        <4>1. obj \in [Intents -> RecType] /\ obj[call[c].i] \in RecType /\ Req(c).file \in Files /\ Req(c).bytes \in Contents
          BY <3>2, PlanFacts DEF Types, RequestType
        <4>2. obj' = [obj EXCEPT ![call[c].i].state = "prepared", ![call[c].i].stale = FALSE]
          BY DEF MarkPrepared
        <4> QED BY <4>1, <4>2, RecUpdates, Zenon
      <3>4. obj' \in [Intents -> RecType] BY <3>2, <3>3 DEF Types
      <3> QED BY <3>1, <3>4 DEF MarkPrepared, tree, run, exchange, Types
    <2>2. Places'
      <3>1. Place(c)'
        <4>1. Req(c).op = "resolve" /\ call[c].i # 0 BY MarkPreparedMoves, OpOf DEF Place
        <4>2. Req(c)' = Req(c) /\ call'[c].at = "persist" /\ call'[c].i = call[c].i /\ call'[c].todo = Files
          BY MarkPreparedMoves DEF Becomes, Req
        <4>3. Files # {} BY FileFacts
        <4> QED BY <4>1, <4>2, <4>3, LabelsAre DEF Place, Promotes, Removing, Registers
      <3> QED BY <3>1, MarkPreparedMoves, PlacesKept DEF Becomes
    <2>3. Records'
      <3>1. call[c].i \in Intents /\ Known(call[c].i) BY MarkPreparedMoves, HasIntent DEF Removing
      <3>2. \A d \in Calls : call'[d].i # 0 => call'[d].i \in Intents /\ Known(call'[d].i)
        BY <3>1, MarkPreparedMoves, CallKnown DEF Becomes
      <3>3. Rewritten(call[c].i, obj[call[c].i].key, "prepared", obj[call[c].i].uploaded) /\ UNCHANGED <<live, idem, disk, history, reap>>
        BY MarkPreparedMoves DEF Refreshed, Marked
      <3> QED BY <3>1, <3>2, <3>3, RecordsWrite, Zenon DEF Records, Known, None
    <2>4. Removals'
      BY <2>1, MarkPreparedMoves DEF Becomes, Types, Removals, RemovedFromMap, Observed, Rewritten, Recorded,
         Refreshed, Marked, LapsedAbandon
    <2> QED BY <2>1, <2>2, <2>3, <2>4 DEF Base
  <1>PreparedPersist. ASSUME NEW c \in Calls, PreparedPersist(c) PROVE Base'
    <2> USE <1>PreparedPersist
    <2> Place(c) /\ call[c] \in CallType BY DEF Places, Types
    <2>1. Types'
      <3>1. call' \in [Calls -> CallType] BY PreparedPersistMoves DEF Becomes
      <3> QED
        BY <3>1, PlanFacts, FileTypes, Idles DEF PreparedPersist, At, Goto, Answer, persist, intents, tree, run,
           exchange, Types, RequestType
    <2>2. Places'
      <3>1. Place(c)'
        BY PreparedPersistMoves, CallTypes, FileFacts, LabelsAre, OpOf DEF Begins, At, Becomes, Place, Promotes,
           Removing, Registers, Req
      <3> QED BY <3>1, PreparedPersistMoves, PlacesKept DEF Becomes
    <2>3. Records'
      <3>1. call[c].i \in Intents /\ Known(call[c].i) BY PreparedPersistMoves, HasIntent DEF Removing
      <3>2. \A d \in Calls : call'[d].i # 0 => Known(call'[d].i)
        BY PreparedPersistMoves, CallKnown DEF Becomes
      <3>3. UNCHANGED <<live, idem, obj, history, reap>> /\ disk' = [disk EXCEPT ![call[c].i] = obj[call[c].i]]
        BY PreparedPersistMoves
      <3> QED BY <3>1, <3>2, <3>3, RecordsPersist DEF Records
    <2>4. Removals'
      BY <2>1, PreparedPersistMoves DEF Becomes, Types, Removals, RemovedFromMap, Observed, Rewritten, Recorded,
         Refreshed, Marked, LapsedAbandon
    <2> QED BY <2>1, <2>2, <2>3, <2>4 DEF Base
  <1>resolveFlowStep. ASSUME NEW c \in Calls, resolveFlowStep(c) PROVE Base'
    <2> USE <1>resolveFlowStep
    <2> Place(c) /\ call[c] \in CallType BY DEF Places, Types
    <2>1. Types'
      <3>1. call' \in [Calls -> CallType] BY resolveFlowStepMoves DEF Becomes
      <3> QED
        BY <3>1, PlanFacts, FileTypes, Idles DEF resolveFlowStep, At, Goto, Answer, Fails, intents, tree, run,
           exchange, Types, RequestType
    <2>2. Places'
      <3>1. Place(c)'
        BY resolveFlowStepMoves, CallTypes, FileFacts, LabelsAre, OpOf DEF Begins, At, Becomes, Place, Promotes,
           Removing, Registers, Req
      <3> QED BY <3>1, resolveFlowStepMoves, PlacesKept DEF Becomes
    <2>3. Records'
      BY <2>1, resolveFlowStepMoves, CallTypes DEF Becomes, Types, Records, Known, RemovedFromMap, Observed,
         Rewritten, Recorded, Refreshed, Marked, LapsedAbandon
    <2>4. Removals'
      BY <2>1, resolveFlowStepMoves DEF Becomes, Types, Removals, RemovedFromMap, Observed, Rewritten, Recorded,
         Refreshed, Marked, LapsedAbandon
    <2> QED BY <2>1, <2>2, <2>3, <2>4 DEF Base
  <1>PromoteRead. ASSUME NEW c \in Calls, PromoteRead(c) PROVE Base'
    <2> USE <1>PromoteRead
    <2> Place(c) /\ call[c] \in CallType BY DEF Places, Types
    <2>1. Types'
      <3>1. call' \in [Calls -> CallType] BY PromoteReadMoves DEF Becomes
      <3> QED
        BY <3>1, PlanFacts, FileTypes, Idles DEF PromoteRead, At, Goto, Answer, Fails, intents, tree, run, exchange,
           Types, RequestType
    <2>2. Places'
      <3>1. Place(c)'
        BY PromoteReadMoves, CallTypes, FileFacts, LabelsAre, OpOf DEF Begins, At, Becomes, Place, Promotes, Removing,
           Registers, Req
      <3> QED BY <3>1, PromoteReadMoves, PlacesKept DEF Becomes
    <2>3. Records'
      BY <2>1, PromoteReadMoves, CallTypes DEF Becomes, Types, Records, Known, RemovedFromMap, Observed, Rewritten,
         Recorded, Refreshed, Marked, LapsedAbandon
    <2>4. Removals'
      BY <2>1, PromoteReadMoves DEF Becomes, Types, Removals, RemovedFromMap, Observed, Rewritten, Recorded,
         Refreshed, Marked, LapsedAbandon
    <2> QED BY <2>1, <2>2, <2>3, <2>4 DEF Base
  <1>PromoteCopy. ASSUME NEW c \in Calls, PromoteCopy(c) PROVE Base'
    <2> USE <1>PromoteCopy
    <2> Place(c) /\ call[c] \in CallType BY DEF Places, Types
    <2>1. Types'
      <3>1. call' \in [Calls -> CallType] BY PromoteCopyMoves DEF Becomes
      <3>2. stable' \in FileType
        <4>1. call[c].f \in Files /\ work \in FileType /\ stable \in FileType BY CallTypes DEF Types
        <4>2. stable' = NoFiles \/ stable' = [stable EXCEPT ![call[c].f] = work[call[c].f]] BY DEF PromoteCopy
        <4> QED BY <4>1, <4>2, FileTypes
      <3> QED BY <3>1, <3>2 DEF PromoteCopy, intents, run, exchange, Types
    <2>2. Places'
      <3>1. Place(c)'
        BY PromoteCopyMoves, CallTypes, FileFacts, LabelsAre, OpOf DEF Begins, At, Becomes, Place, Promotes, Removing,
           Registers, Req
      <3> QED BY <3>1, PromoteCopyMoves, PlacesKept DEF Becomes
    <2>3. Records'
      BY <2>1, PromoteCopyMoves, CallTypes DEF Becomes, Types, Records, Known, RemovedFromMap, Observed, Rewritten,
         Recorded, Refreshed, Marked, LapsedAbandon
    <2>4. Removals'
      BY <2>1, PromoteCopyMoves DEF Becomes, Types, Removals, RemovedFromMap, Observed, Rewritten, Recorded,
         Refreshed, Marked, LapsedAbandon
    <2> QED BY <2>1, <2>2, <2>3, <2>4 DEF Base
  <1>PromoteUnlink. ASSUME NEW c \in Calls, PromoteUnlink(c) PROVE Base'
    <2> USE <1>PromoteUnlink
    <2> Place(c) /\ call[c] \in CallType BY DEF Places, Types
    <2>1. Types'
      <3>1. call' \in [Calls -> CallType] BY PromoteUnlinkMoves DEF Becomes
      <3> QED
        BY <3>1, PlanFacts, FileTypes, Idles DEF PromoteUnlink, At, Goto, Answer, intents, tree, run, exchange, Types,
           RequestType
    <2>2. Places'
      <3>1. Place(c)'
        BY PromoteUnlinkMoves, CallTypes, FileFacts, LabelsAre, OpOf DEF Begins, At, Becomes, Place, Promotes,
           Removing, Registers, Req
      <3> QED BY <3>1, PromoteUnlinkMoves, PlacesKept DEF Becomes
    <2>3. Records'
      BY <2>1, PromoteUnlinkMoves, CallTypes DEF Becomes, Types, Records, Known, RemovedFromMap, Observed, Rewritten,
         Recorded, Refreshed, Marked, LapsedAbandon
    <2>4. Removals'
      BY <2>1, PromoteUnlinkMoves DEF Becomes, Types, Removals, RemovedFromMap, Observed, Rewritten, Recorded,
         Refreshed, Marked, LapsedAbandon
    <2> QED BY <2>1, <2>2, <2>3, <2>4 DEF Base
  <1>ResolveMemo. ASSUME NEW c \in Calls, ResolveMemo(c) PROVE Base'
    <2> USE <1>ResolveMemo
    <2> Place(c) /\ call[c] \in CallType BY DEF Places, Types
    <2>1. Types'
      <3>1. call' \in [Calls -> CallType] BY ResolveMemoMoves DEF Becomes
      <3> QED
        BY <3>1, PlanFacts, FileTypes, Idles DEF ResolveMemo, At, Goto, Answer, intents, tree, run, exchange, Types,
           RequestType
    <2>2. Places'
      <3>1. Place(c)'
        BY ResolveMemoMoves, CallTypes, FileFacts, LabelsAre, OpOf DEF Begins, At, Becomes, Place, Promotes, Removing,
           Registers, Req
      <3> QED BY <3>1, ResolveMemoMoves, PlacesKept DEF Becomes
    <2>3. Records'
      BY <2>1, ResolveMemoMoves, CallTypes DEF Becomes, Types, Records, Known, RemovedFromMap, Observed, Rewritten,
         Recorded, Refreshed, Marked, LapsedAbandon
    <2>4. Removals'
      BY <2>1, ResolveMemoMoves DEF Becomes, Types, Removals, RemovedFromMap, Observed, Rewritten, Recorded,
         Refreshed, Marked, LapsedAbandon
    <2> QED BY <2>1, <2>2, <2>3, <2>4 DEF Base
  <1>ResolveExec. ASSUME NEW c \in Calls, ResolveExec(c) PROVE Base'
    <2> USE <1>ResolveExec
    <2> Place(c) /\ call[c] \in CallType BY DEF Places, Types
    <2>1. Types'
      <3>1. call' \in [Calls -> CallType] BY ResolveExecMoves DEF Becomes
      <3>2. bag' \in Listings BY CallTypes DEF ResolveExec
      <3> QED BY <3>1, <3>2 DEF ResolveExec, intents, tree, exchange, Types
    <2>2. Places'
      <3>1. Place(c)'
        BY ResolveExecMoves, CallTypes, FileFacts, LabelsAre, OpOf DEF Begins, At, Becomes, Place, Promotes, Removing,
           Registers, Req
      <3> QED BY <3>1, ResolveExecMoves, PlacesKept DEF Becomes
    <2>3. Records'
      BY <2>1, ResolveExecMoves, CallTypes DEF Becomes, Types, Records, Known, RemovedFromMap, Observed, Rewritten,
         Recorded, Refreshed, Marked, LapsedAbandon
    <2>4. Removals'
      BY <2>1, ResolveExecMoves DEF Becomes, Types, Removals, RemovedFromMap, Observed, Rewritten, Recorded,
         Refreshed, Marked, LapsedAbandon
    <2> QED BY <2>1, <2>2, <2>3, <2>4 DEF Base
  <1>DispatchBegin. ASSUME NEW c \in Calls, DispatchBegin(c) PROVE Base'
    <2> USE <1>DispatchBegin
    <2> Place(c) /\ call[c] \in CallType BY DEF Places, Types
    <2>1. Types'
      <3>1. call' \in [Calls -> CallType] BY DispatchBeginMoves DEF Becomes
      <3> QED
        BY <3>1, PlanFacts, FileTypes, Idles DEF DispatchBegin, At, Goto, Answer, Begins, intents, tree, run,
           exchange, Types, RequestType
    <2>2. Places'
      <3>1. Place(c)'
        BY DispatchBeginMoves, CallTypes, FileFacts, LabelsAre, OpOf DEF Begins, At, Becomes, Place, Promotes,
           Removing, Registers, Req
      <3> QED BY <3>1, DispatchBeginMoves, PlacesKept DEF Becomes
    <2>3. Records'
      BY <2>1, DispatchBeginMoves, CallTypes DEF Becomes, Types, Records, Known, RemovedFromMap, Observed, Rewritten,
         Recorded, Refreshed, Marked, LapsedAbandon
    <2>4. Removals'
      BY <2>1, DispatchBeginMoves DEF Becomes, Types, Removals, RemovedFromMap, Observed, Rewritten, Recorded,
         Refreshed, Marked, LapsedAbandon
    <2> QED BY <2>1, <2>2, <2>3, <2>4 DEF Base
  <1>materializeConsumerCopy. ASSUME NEW c \in Calls, materializeConsumerCopy(c) PROVE Base'
    <2> USE <1>materializeConsumerCopy
    <2> Place(c) /\ call[c] \in CallType BY DEF Places, Types
    <2>1. Types'
      <3>1. call' \in [Calls -> CallType] BY materializeConsumerCopyMoves DEF Becomes
      <3>2. inputs' \in FileType
        <4>1. call[c].todo \subseteq call[c].arts /\ call[c].arts \in Listings /\ inputs \in FileType
          BY materializeConsumerCopyMoves, OpOf, CallTypes DEF Place, Types
        <4>2. PICK e \in call[c].todo : inputs' = NoFiles \/ inputs' = [inputs EXCEPT ![e[1]] = e[2]]
          BY materializeConsumerCopyMoves
        <4>3. e \in Files \X (Contents \union {None}) BY <4>1, <4>2 DEF Listings
        <4>4. e[1] \in Files /\ e[2] \in Contents \union {None} BY <4>3
        <4> QED BY <4>1, <4>2, <4>4, FileTypes
      <3> QED BY <3>1, <3>2 DEF materializeConsumerCopy, intents, run, exchange, Types
    <2>2. Places'
      <3>1. Place(c)'
        BY materializeConsumerCopyMoves, CallTypes, FileFacts, LabelsAre, OpOf DEF Begins, At, Becomes, Place,
           Promotes, Removing, Registers, Req
      <3> QED BY <3>1, materializeConsumerCopyMoves, PlacesKept DEF Becomes
    <2>3. Records'
      BY <2>1, materializeConsumerCopyMoves, CallTypes DEF Becomes, Types, Records, Known, RemovedFromMap, Observed,
         Rewritten, Recorded, Refreshed, Marked, LapsedAbandon
    <2>4. Removals'
      BY <2>1, materializeConsumerCopyMoves DEF Becomes, Types, Removals, RemovedFromMap, Observed, Rewritten,
         Recorded, Refreshed, Marked, LapsedAbandon
    <2> QED BY <2>1, <2>2, <2>3, <2>4 DEF Base
  <1>DispatchSpawn. ASSUME NEW c \in Calls, DispatchSpawn(c) PROVE Base'
    <2> USE <1>DispatchSpawn
    <2> Place(c) /\ call[c] \in CallType BY DEF Places, Types
    <2>1. Types'
      <3>1. call' \in [Calls -> CallType] BY DispatchSpawnMoves DEF Becomes
      <3> QED
        BY <3>1, PlanFacts, FileTypes, Idles DEF DispatchSpawn, At, Goto, Answer, intents, tree, run, exchange, Types,
           RequestType
    <2>2. Places'
      <3>1. Place(c)'
        BY DispatchSpawnMoves, CallTypes, FileFacts, LabelsAre, OpOf DEF Begins, At, Becomes, Place, Promotes,
           Removing, Registers, Req
      <3> QED BY <3>1, DispatchSpawnMoves, PlacesKept DEF Becomes
    <2>3. Records'
      BY <2>1, DispatchSpawnMoves, CallTypes DEF Becomes, Types, Records, Known, RemovedFromMap, Observed, Rewritten,
         Recorded, Refreshed, Marked, LapsedAbandon
    <2>4. Removals'
      BY <2>1, DispatchSpawnMoves DEF Becomes, Types, Removals, RemovedFromMap, Observed, Rewritten, Recorded,
         Refreshed, Marked, LapsedAbandon
    <2> QED BY <2>1, <2>2, <2>3, <2>4 DEF Base
  <1>StoreBegin. ASSUME NEW c \in Calls, StoreBegin(c) PROVE Base'
    <2> USE <1>StoreBegin
    <2> Place(c) /\ call[c] \in CallType BY DEF Places, Types
    <2>1. Types'
      <3>1. call' \in [Calls -> CallType] BY StoreBeginMoves DEF Becomes
      <3> QED
        BY <3>1, PlanFacts, FileTypes, Idles DEF StoreBegin, At, Goto, Answer, Begins, intents, tree, run, exchange,
           Types, RequestType
    <2>2. Places'
      <3>1. Place(c)'
        BY StoreBeginMoves, CallTypes, FileFacts, LabelsAre, OpOf DEF Begins, At, Becomes, Place, Promotes, Removing,
           Registers, Req
      <3> QED BY <3>1, StoreBeginMoves, PlacesKept DEF Becomes
    <2>3. Records'
      BY <2>1, StoreBeginMoves, CallTypes DEF Becomes, Types, Records, Known, RemovedFromMap, Observed, Rewritten,
         Recorded, Refreshed, Marked, LapsedAbandon
    <2>4. Removals'
      BY <2>1, StoreBeginMoves DEF Becomes, Types, Removals, RemovedFromMap, Observed, Rewritten, Recorded, Refreshed,
         Marked, LapsedAbandon
    <2> QED BY <2>1, <2>2, <2>3, <2>4 DEF Base
  <1>PutFind. ASSUME NEW c \in Calls, PutFind(c) PROVE Base'
    <2> USE <1>PutFind
    <2> Place(c) /\ call[c] \in CallType BY DEF Places, Types
    <2>1. Types'
      <3>1. call' \in [Calls -> CallType] BY PutFindMoves DEF Becomes
      <3> QED
        BY <3>1, PlanFacts, FileTypes, Idles DEF PutFind, At, Goto, Answer, Registered, intents, tree, run, exchange,
           Types, RequestType
    <2>2. Places'
      <3>1. Place(c)'
        BY PutFindMoves, CallTypes, FileFacts, LabelsAre, OpOf DEF Begins, At, Becomes, Place, Promotes, Removing,
           Registers, Req
      <3> QED BY <3>1, PutFindMoves, PlacesKept DEF Becomes
    <2>3. Records'
      BY <2>1, PutFindMoves, CallTypes DEF Becomes, Types, Records, Known, RemovedFromMap, Observed, Rewritten,
         Recorded, Refreshed, Marked, LapsedAbandon
    <2>4. Removals'
      BY <2>1, PutFindMoves DEF Becomes, Types, Removals, RemovedFromMap, Observed, Rewritten, Recorded, Refreshed,
         Marked, LapsedAbandon
    <2> QED BY <2>1, <2>2, <2>3, <2>4 DEF Base
  <1>PutBytes. ASSUME NEW c \in Calls, PutBytes(c) PROVE Base'
    <2> USE <1>PutBytes
    <2> Place(c) /\ call[c] \in CallType BY DEF Places, Types
    <2>1. Types'
      <3>1. call' \in [Calls -> CallType] BY PutBytesMoves DEF Becomes
      <3>2. bytes' \in [Transfers -> Contents \union {None}]
        <4>1. call[c].t \in Transfers /\ Digest(c) \in Contents \union {None}
          BY PutBytesMoves, CallTypes, FileTypes DEF Place, Digest
        <4> QED BY <4>1 DEF PutBytes, Types
      <3>3. history' \in [gone : SUBSET Intents, undead : BOOLEAN, cut : BOOLEAN, overlap : BOOLEAN,
                          raced : BOOLEAN, reput : BOOLEAN, broken : BOOLEAN]
        <4>1. history' = [history EXCEPT !.reput = @ \/ Occupied(c)] BY DEF PutBytes, Occupied
        <4> QED BY <4>1 DEF Types
      <3> QED BY <3>1, <3>2, <3>3 DEF PutBytes, intents, tree, run, Types
    <2>2. Places'
      <3>1. Place(c)'
        BY PutBytesMoves, CallTypes, FileFacts, LabelsAre, OpOf DEF Begins, At, Becomes, Place, Promotes, Removing,
           Registers, Req
      <3> QED BY <3>1, PutBytesMoves, PlacesKept DEF Becomes
    <2>3. Records'
      BY <2>1, PutBytesMoves, CallTypes DEF Becomes, Types, Records, Known, RemovedFromMap, Observed, Rewritten,
         Recorded, Refreshed, Marked, LapsedAbandon
    <2>4. Removals'
      BY <2>1, PutBytesMoves DEF Becomes, Types, Removals, RemovedFromMap, Observed, Rewritten, Recorded, Refreshed,
         Marked, LapsedAbandon
    <2> QED BY <2>1, <2>2, <2>3, <2>4 DEF Base
  <1>PutRow. ASSUME NEW c \in Calls, PutRow(c) PROVE Base'
    <2> USE <1>PutRow
    <2> Place(c) /\ call[c] \in CallType BY DEF Places, Types
    <2>1. Types'
      <3>1. call' \in [Calls -> CallType] BY PutRowMoves DEF Becomes
      <3>2. rows' \in [Transfers -> RowType]
        <4>1. call[c].t \in Transfers /\ Digest(c) \in Contents \union {None}
          BY PutRowMoves, CallTypes, FileTypes DEF Place, Digest
        <4>2. [digest |-> Digest(c), expired |-> FALSE] \in RowType BY <4>1 DEF RowType
        <4>3. rows' = rows \/ rows' = [rows EXCEPT ![call[c].t] = [digest |-> Digest(c), expired |-> FALSE]]
          BY DEF PutRow
        <4> QED BY <4>2, <4>3 DEF Types
      <3> QED BY <3>1, <3>2 DEF PutRow, intents, tree, run, Types
    <2>2. Places'
      <3>1. Place(c)'
        <4>1. Req(c).op \in {"resolve", "store"} /\ (Req(c).op = "resolve" => call[c].todo # {})
          BY PutRowMoves, OpOf DEF Place, Promotes, Registers
        <4>2. /\ Req(c)' = Req(c) /\ call'[c].i = call[c].i /\ call'[c].todo = call[c].todo
              /\ call'[c].at = "done" \/ (Req(c).op # "store" /\ call'[c].at \in {"unlink", "copy"})
          BY PutRowMoves DEF Becomes, Req
        <4> QED BY <4>1, <4>2, LabelsAre DEF Place, Promotes, Removing, Registers
      <3> QED BY <3>1, PutRowMoves, PlacesKept DEF Becomes
    <2>3. Records'
      <3>1. \A d \in Calls : call'[d].i # 0 => Known(call'[d].i) BY PutRowMoves, CallKnown DEF Becomes
      <3>2. UNCHANGED <<live, idem, obj, disk, reap>> /\ history'.gone = history.gone
        BY PutRowMoves DEF Observed
      <3> QED BY <3>1, <3>2, RecordsFrame DEF Records
    <2>4. Removals'
      BY <2>1, PutRowMoves, Zenon DEF Becomes, Types, Removals, RemovedFromMap, Observed, Rewritten, Recorded, Refreshed,
         Marked, LapsedAbandon
    <2> QED BY <2>1, <2>2, <2>3, <2>4 DEF Base
  <1>GcList. ASSUME NEW c \in Calls, GcList(c) PROVE Base'
    <2> USE <1>GcList
    <2> Place(c) /\ call[c] \in CallType BY DEF Places, Types
    <2>1. Types'
      <3>1. call' \in [Calls -> CallType] BY GcListMoves DEF Becomes
      <3> QED
        BY <3>1, PlanFacts, FileTypes, Idles DEF GcList, At, Goto, Answer, Begins, intents, tree, run, exchange,
           Types, RequestType
    <2>2. Places'
      <3>1. Place(c)'
        <4>1. Req(c).op = "gc" /\ Req(c)' = Req(c) /\ call'[c].at = "gc" /\ call'[c].todo = Lapsed
          BY GcListMoves DEF Becomes, Req, Begins
        <4> QED BY <4>1, LabelsAre DEF Place, Promotes, Removing, Registers, Lapsed
      <3> QED BY <3>1, GcListMoves, PlacesKept DEF Becomes
    <2>3. Records'
      BY <2>1, GcListMoves, CallTypes DEF Becomes, Types, Records, Known, RemovedFromMap, Observed, Rewritten,
         Recorded, Refreshed, Marked, LapsedAbandon
    <2>4. Removals'
      BY <2>1, GcListMoves DEF Becomes, Types, Removals, RemovedFromMap, Observed, Rewritten, Recorded, Refreshed,
         Marked, LapsedAbandon
    <2> QED BY <2>1, <2>2, <2>3, <2>4 DEF Base
  <1>GcBytes. ASSUME NEW c \in Calls, GcBytes(c) PROVE Base'
    <2> USE <1>GcBytes
    <2> Place(c) /\ call[c] \in CallType BY DEF Places, Types
    <2>1. Types'
      <3>1. call' \in [Calls -> CallType] BY GcBytesMoves DEF Becomes
      <3> QED
        BY <3>1, PlanFacts, FileTypes, Idles, Zenon DEF GcBytes, At, Goto, Answer, intents, tree, run, exchange, Types,
           RequestType
    <2>2. Places'
      <3>1. Place(c)'
        <4>1. Req(c).op = "gc" /\ call[c].todo \subseteq Transfers BY GcBytesMoves, OpOf DEF Place
        <4>2. /\ Req(c)' = Req(c) /\ call'[c].todo = call[c].todo
              /\ call'[c].at = "done" \/ (call'[c].at = "gcrow" /\ call[c].todo # {} /\ call'[c].t = Min(call[c].todo))
          BY GcBytesMoves DEF Becomes, Req
        <4>3. call'[c].at = "gcrow" => call'[c].t \in call[c].todo BY <4>1, <4>2, LeastIsIn, FileFacts
        <4> QED BY <4>1, <4>2, <4>3, LabelsAre DEF Place, Promotes, Removing, Registers
      <3> QED BY <3>1, GcBytesMoves, PlacesKept DEF Becomes
    <2>3. Records'
      BY <2>1, GcBytesMoves, CallTypes DEF Becomes, Types, Records, Known, RemovedFromMap, Observed, Rewritten,
         Recorded, Refreshed, Marked, LapsedAbandon
    <2>4. Removals'
      BY <2>1, GcBytesMoves DEF Becomes, Types, Removals, RemovedFromMap, Observed, Rewritten, Recorded, Refreshed,
         Marked, LapsedAbandon
    <2> QED BY <2>1, <2>2, <2>3, <2>4 DEF Base
  <1>GcRow. ASSUME NEW c \in Calls, GcRow(c) PROVE Base'
    <2> USE <1>GcRow
    <2> Place(c) /\ call[c] \in CallType BY DEF Places, Types
    <2>1. Types'
      <3>1. call' \in [Calls -> CallType] BY GcRowMoves DEF Becomes
      <3> QED
        BY <3>1, PlanFacts, FileTypes, Idles DEF GcRow, At, Goto, Answer, intents, tree, run, exchange, Types,
           RequestType
    <2>2. Places'
      <3>1. Place(c)'
        BY GcRowMoves, CallTypes, FileFacts, LabelsAre, OpOf DEF Begins, At, Becomes, Place, Promotes, Removing,
           Registers, Req
      <3> QED BY <3>1, GcRowMoves, PlacesKept DEF Becomes
    <2>3. Records'
      BY <2>1, GcRowMoves, CallTypes DEF Becomes, Types, Records, Known, RemovedFromMap, Observed, Rewritten,
         Recorded, Refreshed, Marked, LapsedAbandon
    <2>4. Removals'
      BY <2>1, GcRowMoves DEF Becomes, Types, Removals, RemovedFromMap, Observed, Rewritten, Recorded, Refreshed,
         Marked, LapsedAbandon
    <2> QED BY <2>1, <2>2, <2>3, <2>4 DEF Base
  <1>LoadBytes. ASSUME NEW c \in Calls, LoadBytes(c) PROVE Base'
    <2> USE <1>LoadBytes
    <2> Place(c) /\ call[c] \in CallType BY DEF Places, Types
    <2>1. Types'
      <3>1. call' \in [Calls -> CallType] BY LoadBytesMoves DEF Becomes
      <3>2. history' \in [gone : SUBSET Intents, undead : BOOLEAN, cut : BOOLEAN, overlap : BOOLEAN,
                          raced : BOOLEAN, reput : BOOLEAN, broken : BOOLEAN]
        <4>1. history' = history \/ history' = [history EXCEPT !.broken = @ \/ bytes[call[c].t] # Digest(c)]
          BY DEF LoadBytes
        <4> QED BY <4>1 DEF Types
      <3> QED BY <3>1, <3>2 DEF LoadBytes, intents, tree, run, exchange, Types
    <2>2. Places'
      <3>1. Place(c)'
        BY LoadBytesMoves, CallTypes, FileFacts, LabelsAre, OpOf DEF Begins, At, Becomes, Place, Promotes, Removing,
           Registers, Req
      <3> QED BY <3>1, LoadBytesMoves, PlacesKept DEF Becomes
    <2>3. Records'
      BY <2>1, LoadBytesMoves, CallTypes DEF Becomes, Types, Records, Known, RemovedFromMap, Observed, Rewritten,
         Recorded, Refreshed, Marked, LapsedAbandon
    <2>4. Removals'
      BY <2>1, LoadBytesMoves DEF Becomes, Types, Removals, RemovedFromMap, Observed, Rewritten, Recorded, Refreshed,
         Marked, LapsedAbandon
    <2> QED BY <2>1, <2>2, <2>3, <2>4 DEF Base
  <1>LoadRow. ASSUME NEW c \in Calls, NEW t \in Transfers, LoadRow(c, t) PROVE Base'
    <2> USE <1>LoadRow
    <2> Place(c) /\ call[c] \in CallType BY DEF Places, Types
    <2>1. Types'
      <3>1. call' \in [Calls -> CallType] BY LoadRowMoves DEF Becomes
      <3> QED
        BY <3>1, PlanFacts, FileTypes, Idles DEF LoadRow, At, Goto, Answer, Begins, intents, tree, run, exchange,
           Types, RequestType
    <2>2. Places'
      <3>1. Place(c)'
        <4>1. Req(c).op = "load" /\ Req(c)' = Req(c) /\ (call'[c].at = "done" \/ (call'[c].at = "load" /\ call'[c].t = t))
          BY LoadRowMoves DEF Becomes, Req, Begins
        <4> QED BY <4>1, LabelsAre DEF Place, Promotes, Removing, Registers
      <3> QED BY <3>1, LoadRowMoves, PlacesKept DEF Becomes
    <2>3. Records'
      <3>1. \A d \in Calls : call'[d].i # 0 => Known(call'[d].i) BY LoadRowMoves, CallKnown DEF Becomes
      <3>2. UNCHANGED <<live, idem, obj, disk, reap>> /\ history'.gone = history.gone
        BY LoadRowMoves DEF Observed
      <3> QED BY <3>1, <3>2, RecordsFrame DEF Records
    <2>4. Removals'
      BY <2>1, LoadRowMoves, Zenon DEF Becomes, Types, Removals, RemovedFromMap, Observed, Rewritten, Recorded, Refreshed,
         Marked, LapsedAbandon
    <2> QED BY <2>1, <2>2, <2>3, <2>4 DEF Base
  <1>LeaseLapses. ASSUME NEW i \in Intents, LeaseLapses(i) PROVE Base'
    <2> USE <1>LeaseLapses
    <2>1. Types'
      <3>1. obj' = [obj EXCEPT ![i].stale = TRUE] /\ obj \in [Intents -> RecType] /\ obj[i] \in RecType
        BY DEF LeaseLapses, Types
      <3>2. obj' = [obj EXCEPT ![i] = [obj[i] EXCEPT !.stale = TRUE]] /\ [obj[i] EXCEPT !.stale = TRUE] \in RecType
        BY <3>1 DEF RecType
      <3>3. obj' \in [Intents -> RecType] BY <3>1, <3>2
      <3> QED BY <3>3 DEF LeaseLapses, tree, run, exchange, Types
    <2>2. Places' BY DEF LeaseLapses, Places, Place, Req
    <2>3. Records'
      <3>1. Known(i) /\ \A d \in Calls : call'[d].i # 0 => call'[d].i \in Intents /\ Known(call'[d].i)
        BY LeaseLapsesMoves, CallTypes DEF Records, Types
      <3>2. Rewritten(i, obj[i].key, obj[i].state, obj[i].uploaded) /\ UNCHANGED <<live, idem, disk, history, reap>>
        BY LeaseLapsesMoves DEF Refreshed
      <3> QED BY <3>1, <3>2, RecordsWrite DEF Records, Known
    <2>4. Removals'
      BY <2>1, LeaseLapsesMoves DEF Types, Removals, RemovedFromMap, Observed, Rewritten, Recorded, Refreshed, Marked,
         LapsedAbandon
    <2> QED BY <2>1, <2>2, <2>3, <2>4 DEF Base
  <1>sweepExpired. ASSUME NEW i \in Intents, sweepExpired(i) PROVE Base'
    <2> USE <1>sweepExpired
    <2>1. Types'
      BY PlanFacts, FileTypes, Idles DEF sweepExpired, At, Goto, Answer, intents, tree, run, exchange, Types
    <2>2. Places' BY DEF sweepExpired, Places, Place, Req
    <2>3. Records'
      BY <2>1, sweepExpiredMoves DEF Types, Records, Known, RemovedFromMap, Observed, Rewritten, Recorded, Refreshed,
         Marked, LapsedAbandon
    <2>4. Removals'
      BY <2>1, sweepExpiredMoves DEF Types, Removals, RemovedFromMap, Observed, Rewritten, Recorded, Refreshed,
         Marked, LapsedAbandon
    <2> QED BY <2>1, <2>2, <2>3, <2>4 DEF Base
  <1>ReapStaged. ASSUME NEW i \in Intents, ReapStaged(i) PROVE Base'
    <2> USE <1>ReapStaged
    <2>1. Types'
      BY PlanFacts, FileTypes, Idles DEF ReapStaged, At, Goto, Answer, AbandonStaged, intents, tree, run, exchange,
         Types
    <2>2. Places' BY DEF ReapStaged, Places, Place, Req
    <2>3. Records'
      <3>1. \A d \in Calls : call'[d].i # 0 => Known(call'[d].i) BY ReapStagedMoves DEF Records
      <3>2. UNCHANGED <<live, idem, obj, disk>> /\ history'.gone = history.gone BY ReapStagedMoves
      <3>3. \A j \in Intents : reap'[j] # None => Known(j) BY ReapStagedMoves DEF Records, Types, None
      <3> QED BY <3>1, <3>2, <3>3, RecordsFrame
    <2>4. Removals'
      BY <2>1, ReapStagedMoves DEF Types, Removals, RemovedFromMap, Observed, Rewritten, Recorded, Refreshed, Marked,
         LapsedAbandon
    <2> QED BY <2>1, <2>2, <2>3, <2>4 DEF Base
  <1>ReapMap. ASSUME NEW i \in Intents, ReapMap(i) PROVE Base'
    <2> USE <1>ReapMap
    <2>1. Types'
      BY PlanFacts, FileTypes, Idles, Zenon DEF ReapMap, At, Goto, Answer, removeMap, intents, tree, run, exchange, Types
    <2>2. Places' BY DEF ReapMap, Places, Place, Req
    <2>3. Records'
      <3>1. Known(i) /\ \A d \in Calls : call'[d].i # 0 => Known(call'[d].i) BY ReapMapMoves DEF Records, None
      <3>2. UNCHANGED <<obj, disk>> /\ RemovedFromMap(i) BY ReapMapMoves
      <3>3. \A j \in Intents : reap'[j] # None => Known(j) BY <3>1, ReapMapMoves DEF Records, Types
      <3> QED BY <3>1, <3>2, <3>3, RecordsRemoveMap
    <2>4. Removals'
      BY <2>1, ReapMapMoves DEF Types, Removals, RemovedFromMap, Observed, Rewritten, Recorded, Refreshed, Marked,
         LapsedAbandon
    <2> QED BY <2>1, <2>2, <2>3, <2>4 DEF Base
  <1>ReapDir. ASSUME NEW i \in Intents, ReapDir(i) PROVE Base'
    <2> USE <1>ReapDir
    <2>1. Types'
      BY PlanFacts, FileTypes, Idles DEF ReapDir, At, Goto, Answer, removeDir, intents, tree, run, exchange, Types
    <2>2. Places' BY DEF ReapDir, Places, Place, Req
    <2>3. Records'
      <3>1. Known(i) /\ \A d \in Calls : call'[d].i # 0 => Known(call'[d].i) BY ReapDirMoves DEF Records, None
      <3>2. UNCHANGED <<live, idem, obj, history>> /\ disk' = [disk EXCEPT ![i] = NoRec] BY ReapDirMoves
      <3>3. \A j \in Intents : reap'[j] # None => Known(j) BY <3>1, ReapDirMoves DEF Records, Types
      <3> QED BY <3>1, <3>2, <3>3, RecordsPersist
    <2>4. Removals'
      BY <2>1, ReapDirMoves DEF Types, Removals, RemovedFromMap, Observed, Rewritten, Recorded, Refreshed, Marked,
         LapsedAbandon
    <2> QED BY <2>1, <2>2, <2>3, <2>4 DEF Base
  <1>Expires. ASSUME NEW t \in Transfers, Expires(t) PROVE Base'
    <2> USE <1>Expires
    <2>1. Types'
      <3>1. rows' = [rows EXCEPT ![t] = [rows[t] EXCEPT !.expired = TRUE]] /\ [rows[t] EXCEPT !.expired = TRUE] \in RowType
        <4>1. rows \in [Transfers -> RowType] /\ rows[t] \in RowType BY DEF Types
        <4>2. rows' = [rows EXCEPT ![t].expired = TRUE] BY DEF Expires
        <4> QED BY <4>1, <4>2 DEF RowType
      <3>2. rows' \in [Transfers -> RowType] BY <3>1 DEF Types
      <3> QED BY <3>2 DEF Expires, intents, tree, run, Types
    <2>2. Places' BY DEF Expires, Places, Place, Req
    <2>3. Records'
      BY <2>1, ExpiresMoves DEF Types, Records, Known, RemovedFromMap, Observed, Rewritten, Recorded, Refreshed,
         Marked, LapsedAbandon
    <2>4. Removals'
      BY <2>1, ExpiresMoves DEF Types, Removals, RemovedFromMap, Observed, Rewritten, Recorded, Refreshed, Marked,
         LapsedAbandon
    <2> QED BY <2>1, <2>2, <2>3, <2>4 DEF Base
  <1>Crash. ASSUME Crash PROVE Base'
    <2> USE <1>Crash
    <2>1. Types' BY CrashMoves
    <2>2. \A c \in Calls : \/ call'[c] = call[c] /\ call[c].at \in {"idle", "done", "lost"}
                           \/ /\ call'[c].at = "lost" /\ call'[c].i = 0 /\ call'[c].todo = {} /\ call'[c].arts = {}
      BY CrashMoves DEF Idle
    <2>3. Places'
      <3> SUFFICES ASSUME NEW c \in Calls PROVE Place(c)' BY DEF Places
      <3>1. Place(c) /\ Req(c)' = Req(c) BY CrashMoves DEF Places, Req
      <3> QED BY <2>2, <3>1, OpOf DEF Place, Promotes, Removing, Registers
    <2>4. Records'
      <3>1. \A i \in Intents : (i \in live' => obj'[i] = disk[i] /\ disk'[i] = disk[i] /\ disk[i].state # None)
                               /\ (i \notin live' => obj'[i] = obj[i] /\ disk'[i].state = None /\ disk'[i] = NoRec)
        BY CrashMoves, Idles DEF Records
      <3>2. live' \subseteq Intents /\ history'.gone = history.gone \union ({i \in Intents : Known(i)} \ live')
        BY <2>1, CrashMoves, IssuedAre DEF Observed, Types
      <3>3. \A i \in Intents : Known(i)' <=> Known(i) BY <3>1 DEF Records, Known
      <3>4. \A i \in Intents : Known(i) => obj'[i].key = obj[i].key BY <3>1 DEF Records
      <3>5. \A k \in Keys : idem'[k] # 0 => idem'[k] \in live' /\ obj'[idem'[k]].key = k
        <4> SUFFICES ASSUME NEW k \in Keys, idem'[k] # 0 PROVE idem'[k] \in live' /\ obj'[idem'[k]].key = k
          OBVIOUS
        <4> DEFINE S == {i \in live' : disk[i].key = k}
        <4>1. idem'[k] = Max(S \union {0}) /\ S \subseteq Intents BY <3>2, CrashMoves
        <4>2. idem'[k] \in S
          <5> HIDE DEF S
          <5> QED BY <4>1, GreatestIsIn
        <4> QED BY <3>1, <3>2, <4>2
      <3>6. \A i \in Intents : reap'[i] = None BY CrashMoves
      <3>7. \A i \in Intents : (~Known(i)' => obj'[i] = NoRec) /\ (disk'[i].state = None => disk'[i] = NoRec)
        BY <3>1, <3>3 DEF Records, Known
      <3>8. \A i \in Intents : Known(i)' => obj'[i].key \in Keys BY <3>3, <3>4 DEF Records
      <3>9. \A i \in Intents : disk'[i].state # None => Known(i)' /\ disk'[i].key = obj'[i].key
        BY <3>1 DEF Known
      <3>10. \A i \in live' \union history'.gone : Known(i)'
        <4>1. history.gone \subseteq Intents BY DEF Types
        <4> QED BY <3>1, <3>2, <3>3, <4>1 DEF Records, Known
      <3>11. \A c \in Calls : call'[c].i # 0 => obj'[call'[c].i].state # None
        <4> SUFFICES ASSUME NEW c \in Calls, call'[c].i # 0 PROVE obj'[call'[c].i].state # None
          OBVIOUS
        <4>1. call'[c] = call[c] /\ call[c] \in CallType BY <2>2 DEF Types
        <4>2. call[c].i \in Intents /\ Known(call[c].i) BY <4>1, CallTypes DEF Records
        <4> QED BY <3>3, <4>1, <4>2 DEF Known
      <3>12. \A i \in Intents : Known(i)' => i \in live' \union history'.gone BY <3>2, <3>3
      <3> QED BY <3>5, <3>6, <3>7, <3>8, <3>9, <3>10, <3>11, <3>12 DEF Records, Known
    <2>5. Removals'
      <3>1. ~history'.undead => live' \intersect history'.gone = {} BY CrashMoves DEF Observed
      <3>2. \A i \in Intents : reap'[i] # "dir" BY CrashMoves DEF None
      <3>3. \A c \in Calls : call'[c].at # "dir" BY <2>2
      <3> QED BY <3>1, <3>2, <3>3 DEF Removals
    <2> QED BY <2>1, <2>3, <2>4, <2>5 DEF Base
  <1>1. CASE UNCHANGED vars
    BY <1>1 DEF vars, intents, tree, run, exchange, Base, Types, Places, Place, Req, Records, Known, Removals
  <1>2. ASSUME NEW c \in Calls, IntentStep(c) PROVE Base'
    BY <1>2, <1>IssueRoute, <1>IssueCheck, <1>IssueRecord, <1>IssuePersist, <1>CallStaged, <1>CallMap, <1>CallDir,
       <1>AcceptWrite, <1>AcceptMark, <1>AcceptPersist, <1>Cancel, <1>AcceptCheck DEF IntentStep
  <1>3. ASSUME NEW c \in Calls, ResolveStep(c) PROVE Base'
    BY <1>3, <1>prepareResolve, <1>StageFile, <1>MarkPrepared, <1>PreparedPersist, <1>resolveFlowStep, <1>PromoteRead,
       <1>PromoteCopy, <1>PromoteUnlink, <1>ResolveMemo, <1>ResolveExec, <1>DispatchBegin, <1>materializeConsumerCopy,
       <1>DispatchSpawn DEF ResolveStep
  <1>4. ASSUME NEW c \in Calls, ExchangeStep(c) PROVE Base'
    BY <1>4, <1>StoreBegin, <1>PutFind, <1>PutBytes, <1>PutRow, <1>GcList, <1>GcBytes, <1>GcRow, <1>LoadBytes,
       <1>LoadRow DEF ExchangeStep
  <1>5. ASSUME NEW i \in Intents, LeaseLapses(i) \/ Reap(i) PROVE Base'
    BY <1>5, <1>LeaseLapses, <1>sweepExpired, <1>ReapStaged, <1>ReapMap, <1>ReapDir DEF Reap
  <1>6. ASSUME NEW t \in Transfers, Expires(t) PROVE Base'
    BY <1>6, <1>Expires
  <1>7. ASSUME Crash PROVE Base'
    BY <1>7, <1>Crash
  <1> QED BY <1>1, <1>2, <1>3, <1>4, <1>5, <1>6, <1>7 DEF Next

-----------------------------------------------------------------------------
(* The bytes of the accepted files. *)

HoldsThen(j, rec) ==
    \A f \in rec.uploaded :
        /\ held'[j][f] # None
        /\ ~history'.raced => held'[j][f] = rec.hash[f]
FilesThen ==
    \A j \in Intents \ history'.gone :
        HoldsThen(j, obj'[j]) /\ HoldsThen(j, disk'[j]) /\ disk'[j].uploaded \subseteq obj'[j].uploaded
CallsThen ==
    /\ \A d \in Calls : call'[d].at = "mark" /\ call'[d].i \notin history'.gone =>
          /\ held'[call'[d].i][Req(d)'.file] # None
          /\ ~history'.raced => held'[call'[d].i][Req(d)'.file] = Req(d)'.bytes
    /\ ~history'.raced =>
          /\ \A d \in Calls : Transferring(d)' /\ call'[d].i \notin history'.gone =>
                Req(d)'.file \notin obj'[call'[d].i].uploaded
          /\ \A b, d \in Calls : Transferring(b)' /\ Transferring(d)' /\ call'[b].i = call'[d].i
                                   /\ Req(b)'.file = Req(d)'.file => b = d

LEMMA TransferNext ==
  ASSUME FilesThen, CallsThen
  PROVE  Transfer'
  BY DEF FilesThen, CallsThen, HoldsThen, Accepted, Transfer

LEMMA CallsThenKept ==
  ASSUME Base, Transfer, UNCHANGED plan,
         \A j \in Intents \ history'.gone : held'[j] = held[j] /\ obj'[j].uploaded = obj[j].uploaded,
         history.gone \subseteq history'.gone, history'.raced <=> history.raced,
         \A d \in Calls : call'[d].at \in {"write", "mark"} => call'[d].at = call[d].at /\ call'[d].i = call[d].i
  PROVE  CallsThen
  <1>1. \A d \in Calls : Req(d)' = Req(d) /\ (call[d].at \in {"write", "mark"} => call[d].i \in Intents)
    BY HasIntent DEF Req, Base
  <1>2. \A d \in Calls : Transferring(d)' => Transferring(d) /\ call[d].i \in Intents /\ call'[d].i = call[d].i
    BY <1>1 DEF Transferring
  <1>3. \A d \in Calls : call'[d].at = "mark" /\ call'[d].i \notin history'.gone =>
          /\ held'[call'[d].i][Req(d)'.file] # None
          /\ ~history'.raced => held'[call'[d].i][Req(d)'.file] = Req(d)'.bytes
    BY <1>1 DEF Transfer
  <1>4. ~history'.raced =>
          /\ \A d \in Calls : Transferring(d)' /\ call'[d].i \notin history'.gone =>
                Req(d)'.file \notin obj'[call'[d].i].uploaded
          /\ \A b, d \in Calls : Transferring(b)' /\ Transferring(d)' /\ call'[b].i = call'[d].i
                                   /\ Req(b)'.file = Req(d)'.file => b = d
    BY <1>1, <1>2 DEF Transfer
  <1> QED BY <1>3, <1>4 DEF CallsThen

TransferFrame ==
    /\ \A j \in Intents : obj'[j].uploaded = obj[j].uploaded /\ obj'[j].hash = obj[j].hash
    /\ UNCHANGED <<plan, disk, held>>
    /\ history.gone \subseteq history'.gone /\ (history'.raced <=> history.raced)
    /\ \A d \in Calls : call'[d].at \in {"write", "mark"} => call'[d].at = call[d].at /\ call'[d].i = call[d].i

LEMMA TransferKept ==
  ASSUME Base, Transfer, TransferFrame
  PROVE  Transfer'
  <1>1. CallsThen BY CallsThenKept DEF TransferFrame
  <1>2. FilesThen BY DEF TransferFrame, FilesThen, HoldsThen, Transfer, Accepted
  <1> QED BY <1>1, <1>2, TransferNext

LEMMA TransferStep ==
  ASSUME Base, Transfer, [Next]_vars
  PROVE  Transfer'
  <1> Types /\ Places /\ Records /\ Removals BY DEF Base
  <1>IssueRoute. ASSUME NEW c \in Calls, IssueRoute(c) PROVE Transfer'
    <2> USE <1>IssueRoute
    <2>2. TransferFrame
      BY IssueRouteMoves DEF Becomes, TransferFrame, Refreshed, Rewritten, RemovedFromMap, Observed
    <2> QED BY <2>2, TransferKept
  <1>IssueCheck. ASSUME NEW c \in Calls, IssueCheck(c) PROVE Transfer'
    <2> USE <1>IssueCheck
    <2>2. TransferFrame
      BY IssueCheckMoves DEF Becomes, TransferFrame, Refreshed, Rewritten, RemovedFromMap, Observed
    <2> QED BY <2>2, TransferKept
  <1>IssueRecord. ASSUME NEW c \in Calls, IssueRecord(c) PROVE Transfer'
    <2> USE <1>IssueRecord
    <2>1. \A d \in Calls : call'[d].at \in {"write", "mark"} => call'[d].at = call[d].at /\ call'[d].i = call[d].i
      BY IssueRecordMoves DEF Becomes
    <2>2. UNCHANGED <<plan, held, disk, history>> BY IssueRecordMoves
    <2>3. CASE NoRoom(c) BY <2>1, <2>2, <2>3, IssueRecordMoves, TransferKept DEF TransferFrame
    <2>4. CASE ~NoRoom(c)
      <3> DEFINE i == Min(Intents \ Issued)
      <3>1. i \in Intents /\ ~Known(i) BY <2>4, IssuedAre DEF NoRoom
      <3>2. Recorded(c, i) BY <2>4, IssueRecordMoves
      <3> HIDE DEF i
      <3>3. obj[i] = NoRec /\ disk[i] = NoRec BY <3>1 DEF Records
      <3>4. (\A j \in Intents : j # i => obj'[j] = obj[j]) /\ obj'[i].uploaded = {} /\ obj[i].uploaded = {} /\ disk[i].uploaded = {}
        BY <3>2, <3>3, Idles DEF Recorded, Rewritten
      <3>5. CallsThen BY <2>1, <2>2, <3>4, CallsThenKept
      <3>6. FilesThen BY <2>2, <3>4 DEF FilesThen, HoldsThen, Transfer, Accepted
      <3> QED BY <3>5, <3>6, TransferNext
    <2> QED BY <2>3, <2>4
  <1>IssuePersist. ASSUME NEW c \in Calls, IssuePersist(c) PROVE Transfer'
    <2> USE <1>IssuePersist
    <2>1. call[c].i \in Intents /\ disk' = [disk EXCEPT ![call[c].i] = obj[call[c].i]] /\ UNCHANGED <<plan, obj, held, history>>
      BY IssuePersistMoves, HasIntent DEF Removing
    <2>2. \A d \in Calls : call'[d].at \in {"write", "mark"} => call'[d].at = call[d].at /\ call'[d].i = call[d].i
      BY IssuePersistMoves DEF Becomes
    <2>3. CallsThen BY <2>1, <2>2, CallsThenKept
    <2>4. FilesThen BY <2>1 DEF FilesThen, HoldsThen, Transfer, Accepted, Types
    <2> QED BY <2>3, <2>4, TransferNext
  <1>CallStaged. ASSUME NEW c \in Calls, CallStaged(c) PROVE Transfer'
    <2> USE <1>CallStaged
    <2>2. TransferFrame
      BY CallStagedMoves DEF Becomes, TransferFrame, Refreshed, Rewritten, RemovedFromMap, Observed
    <2> QED BY <2>2, TransferKept
  <1>CallMap. ASSUME NEW c \in Calls, CallMap(c) PROVE Transfer'
    <2> USE <1>CallMap
    <2>2. TransferFrame
      BY CallMapMoves DEF Becomes, TransferFrame, Refreshed, Rewritten, RemovedFromMap, Observed
    <2> QED BY <2>2, TransferKept
  <1>CallDir. ASSUME NEW c \in Calls, CallDir(c) PROVE Transfer'
    <2> USE <1>CallDir
    <2>1. /\ call[c].i \in Intents /\ call[c].i \in history.gone /\ disk' = [disk EXCEPT ![call[c].i] = NoRec]
          /\ held' = [held EXCEPT ![call[c].i] = NoFiles] /\ UNCHANGED <<plan, obj, history>>
      BY CallDirMoves, HasIntent DEF Removing, Removals
    <2>2. \A d \in Calls : call'[d].at \in {"write", "mark"} => call'[d].at = call[d].at /\ call'[d].i = call[d].i
      BY CallDirMoves DEF Becomes
    <2>3. \A j \in Intents \ history.gone : disk'[j] = disk[j] /\ held'[j] = held[j] BY <2>1 DEF Types
    <2>4. CallsThen BY <2>1, <2>2, <2>3, CallsThenKept
    <2>5. FilesThen BY <2>1, <2>3 DEF FilesThen, HoldsThen, Transfer, Accepted
    <2> QED BY <2>4, <2>5, TransferNext
  <1>AcceptWrite. ASSUME NEW c \in Calls, AcceptWrite(c) PROVE Transfer'
    <2> USE <1>AcceptWrite
    <2> DEFINE i == call[c].i
               file == Req(c).file
    <2>1. /\ UNCHANGED <<plan, obj, disk, history>> /\ held' = [held EXCEPT ![i][file] = Req(c).bytes]
          /\ \A d \in Calls : d # c => call'[d] = call[d]
          /\ call'[c].at = "mark" /\ call'[c].i = i /\ call[c].at = "write"
      BY AcceptWriteMoves DEF Becomes
    <2>2. /\ i \in Intents /\ file \in Files /\ Req(c).bytes # None /\ Req(c).op = "put"
          /\ \A d \in Calls : Req(d)' = Req(d) /\ Req(d).file \in Files /\ (call[d].at \in {"write", "mark"} => call[d].i \in Intents)
      <3>1. \A d \in Calls : Req(d) \in RequestType /\ Req(d)' = Req(d) BY <2>1, PlanFacts DEF Req
      <3>2. \A d \in Calls : call[d].at \in {"write", "mark"} => call[d].i \in Intents BY HasIntent
      <3>3. Req(c).op = "put" BY <2>1, OpOf DEF Places
      <3> QED BY <2>1, <3>1, <3>2, <3>3, ArtifactAssumption DEF RequestType
    <2>3. /\ \A j \in Intents : j # i => held'[j] = held[j]
          /\ held'[i][file] = Req(c).bytes
          /\ \A f \in Files : f # file => held'[i][f] = held[i][f]
      BY <2>1, <2>2 DEF Types, FileType
    <2>4. Transferring(c) BY <2>1, <2>2 DEF Transferring
    <2> HIDE DEF i, file
    <2>5. FilesThen
      <3> SUFFICES ASSUME NEW j \in Intents \ history.gone
                   PROVE  HoldsThen(j, obj[j]) /\ HoldsThen(j, disk[j]) /\ disk[j].uploaded \subseteq obj[j].uploaded
        BY <2>1 DEF FilesThen
      <3>1. CASE j # i BY <2>1, <2>3, <3>1 DEF HoldsThen, Transfer, Accepted
      <3>2. CASE j = i
        <4>1. ~history.raced => file \notin obj[i].uploaded BY <2>4, <3>2 DEF Transfer, i, file
        <4>2. obj[i].uploaded \subseteq Files /\ disk[i].uploaded \subseteq Files BY <2>2 DEF Types, RecType
        <4>3. Accepted(i, obj[i]) /\ Accepted(i, disk[i]) /\ disk[i].uploaded \subseteq obj[i].uploaded
          BY <3>2 DEF Transfer
        <4>4. HoldsThen(i, obj[i]) BY <2>1, <2>2, <2>3, <4>1, <4>2, <4>3 DEF HoldsThen, Accepted
        <4>5. HoldsThen(i, disk[i]) BY <2>1, <2>2, <2>3, <4>1, <4>2, <4>3 DEF HoldsThen, Accepted
        <4> QED BY <3>2, <4>3, <4>4, <4>5
      <3> QED BY <3>1, <3>2
    <2>6. CallsThen
      <3>1. \A d \in Calls : Transferring(d)' <=> Transferring(d) BY <2>1, <2>2, <2>4 DEF Transferring
      <3>2. \A d \in Calls : call'[d].i = call[d].i BY <2>1 DEF i
      <3>3. ~history'.raced =>
              /\ \A d \in Calls : Transferring(d)' /\ call'[d].i \notin history'.gone =>
                    Req(d)'.file \notin obj'[call'[d].i].uploaded
              /\ \A b, d \in Calls : Transferring(b)' /\ Transferring(d)' /\ call'[b].i = call'[d].i
                                     /\ Req(b)'.file = Req(d)'.file => b = d
        BY <2>1, <2>2, <3>1, <3>2 DEF Transfer
      <3>4. ASSUME NEW d \in Calls, call'[d].at = "mark", call'[d].i \notin history'.gone
            PROVE  /\ held'[call'[d].i][Req(d)'.file] # None
                   /\ ~history'.raced => held'[call'[d].i][Req(d)'.file] = Req(d)'.bytes
        <4>1. CASE d = c BY <2>1, <2>2, <2>3, <4>1 DEF i, file
        <4>2. CASE d # c
          <5>1. call[d].at = "mark" /\ call[d].i \notin history.gone /\ call'[d].i = call[d].i /\ call[d].i \in Intents
            BY <2>1, <2>2, <3>4, <4>2
          <5>2. /\ held[call[d].i][Req(d).file] # None
                /\ ~history.raced => held[call[d].i][Req(d).file] = Req(d).bytes
            BY <5>1 DEF Transfer
          <5>3. Transferring(d)
            <6>1. Req(d).op = "put" BY <5>1, OpOf DEF Places
            <6> QED BY <5>1, <6>1 DEF Transferring
          <5>4. ~history.raced => ~(call[d].i = i /\ Req(d).file = file)
            BY <2>4, <4>2, <5>3 DEF Transfer, i, file
          <5> QED BY <2>1, <2>2, <2>3, <5>1, <5>2, <5>4
        <4> QED BY <4>1, <4>2
      <3> QED BY <3>3, <3>4 DEF CallsThen
    <2> QED BY <2>5, <2>6, TransferNext
  <1>AcceptMark. ASSUME NEW c \in Calls, AcceptMark(c) PROVE Transfer'
    <2> USE <1>AcceptMark
    <2> DEFINE i == call[c].i
               file == Req(c).file
    <2>1. /\ UNCHANGED <<plan, held, disk, history>> /\ Marked(i, file, Req(c).bytes)
          /\ \A d \in Calls : d # c => call'[d] = call[d]
          /\ call'[c].at = "persist" /\ call[c].at = "mark"
      BY AcceptMarkMoves DEF Becomes
    <2>2. /\ i \in Intents /\ file \in Files /\ Req(c).op = "put"
          /\ \A d \in Calls : Req(d)' = Req(d) /\ (call[d].at \in {"write", "mark"} => call[d].i \in Intents)
      <3>1. \A d \in Calls : Req(d) \in RequestType /\ Req(d)' = Req(d) BY <2>1, PlanFacts DEF Req
      <3>2. \A d \in Calls : call[d].at \in {"write", "mark"} => call[d].i \in Intents BY HasIntent
      <3>3. Req(c).op = "put" BY <2>1, OpOf DEF Places
      <3> QED BY <2>1, <3>1, <3>2, <3>3 DEF RequestType
    <2>3. /\ \A j \in Intents : j # i => obj'[j] = obj[j]
          /\ obj'[i].uploaded = obj[i].uploaded \union {file} /\ obj'[i].hash[file] = Req(c).bytes
          /\ \A f \in Files : f # file => obj'[i].hash[f] = obj[i].hash[f]
      BY <2>1 DEF Marked, Rewritten
    <2>4. Transferring(c) BY <2>1, <2>2 DEF Transferring
    <2> HIDE DEF i, file
    <2>5. FilesThen
      <3> SUFFICES ASSUME NEW j \in Intents \ history.gone
                   PROVE  HoldsThen(j, obj'[j]) /\ HoldsThen(j, disk[j]) /\ disk[j].uploaded \subseteq obj'[j].uploaded
        BY <2>1 DEF FilesThen
      <3>1. HoldsThen(j, disk[j]) BY <2>1 DEF HoldsThen, Transfer, Accepted
      <3>2. CASE j # i BY <2>1, <2>3, <3>1, <3>2 DEF HoldsThen, Transfer, Accepted
      <3>3. CASE j = i
        <4>1. held[i][file] # None /\ (~history.raced => held[i][file] = Req(c).bytes)
          BY <2>1, <3>3 DEF Transfer, i, file
        <4>2. obj[i].uploaded \subseteq Files BY <2>2 DEF Types, RecType
        <4>3. Accepted(i, obj[i]) /\ disk[i].uploaded \subseteq obj[i].uploaded BY <3>3 DEF Transfer
        <4>4. HoldsThen(i, obj'[i]) BY <2>1, <2>2, <2>3, <4>1, <4>2, <4>3 DEF HoldsThen, Accepted
        <4> QED BY <2>3, <3>1, <3>3, <4>3, <4>4
      <3> QED BY <3>2, <3>3
    <2>6. CallsThen
      <3>1. \A d \in Calls : Transferring(d)' => d # c /\ Transferring(d) /\ call'[d] = call[d]
        BY <2>1, <2>2 DEF Transferring
      <3>2. \A d \in Calls : call'[d].at = "mark" => call[d].at = "mark" /\ call'[d] = call[d] BY <2>1
      <3>3. \A d \in Calls : call'[d].at = "mark" /\ call'[d].i \notin history'.gone =>
                /\ held'[call'[d].i][Req(d)'.file] # None
                /\ ~history'.raced => held'[call'[d].i][Req(d)'.file] = Req(d)'.bytes
        BY <2>1, <2>2, <3>2 DEF Transfer
      <3>4. ASSUME ~history.raced, NEW d \in Calls, Transferring(d), d # c, call[d].i \notin history.gone
            PROVE  Req(d).file \notin obj'[call[d].i].uploaded
        <4>1. Req(d).file \notin obj[call[d].i].uploaded /\ call[d].i \in Intents
          BY <2>2, <3>4 DEF Transfer, Transferring
        <4>2. call[d].i = i => Req(d).file # file BY <2>4, <3>4 DEF Transfer, i, file
        <4> QED BY <2>2, <2>3, <4>1, <4>2
      <3>5. ~history'.raced =>
              /\ \A d \in Calls : Transferring(d)' /\ call'[d].i \notin history'.gone =>
                    Req(d)'.file \notin obj'[call'[d].i].uploaded
              /\ \A b, d \in Calls : Transferring(b)' /\ Transferring(d)' /\ call'[b].i = call'[d].i
                                     /\ Req(b)'.file = Req(d)'.file => b = d
        BY <2>1, <2>2, <3>1, <3>4 DEF Transfer
      <3> QED BY <3>3, <3>5 DEF CallsThen
    <2> QED BY <2>5, <2>6, TransferNext
  <1>AcceptPersist. ASSUME NEW c \in Calls, AcceptPersist(c) PROVE Transfer'
    <2> USE <1>AcceptPersist
    <2>1. call[c].i \in Intents /\ disk' = [disk EXCEPT ![call[c].i] = obj[call[c].i]] /\ UNCHANGED <<plan, obj, held, history>>
      BY AcceptPersistMoves, HasIntent DEF Removing
    <2>2. \A d \in Calls : call'[d].at \in {"write", "mark"} => call'[d].at = call[d].at /\ call'[d].i = call[d].i
      BY AcceptPersistMoves DEF Becomes
    <2>3. CallsThen BY <2>1, <2>2, CallsThenKept
    <2>4. FilesThen BY <2>1 DEF FilesThen, HoldsThen, Transfer, Accepted, Types
    <2> QED BY <2>3, <2>4, TransferNext
  <1>Cancel. ASSUME NEW c \in Calls, NEW i \in Intents, Cancel(c, i) PROVE Transfer'
    <2> USE <1>Cancel
    <2>2. TransferFrame
      BY CancelMoves DEF Becomes, TransferFrame, Refreshed, Rewritten, RemovedFromMap, Observed
    <2> QED BY <2>2, TransferKept
  <1>AcceptCheck. ASSUME NEW c \in Calls, NEW i \in Intents, AcceptCheck(c, i) PROVE Transfer'
    <2> USE <1>AcceptCheck
    <2>1. /\ UNCHANGED <<plan, held, disk>> /\ history'.gone = history.gone
          /\ \A j \in Intents : obj'[j].uploaded = obj[j].uploaded /\ obj'[j].hash = obj[j].hash
          /\ \A d \in Calls : d # c => call'[d] = call[d]
          /\ history.raced => history'.raced
      BY AcceptCheckMoves DEF Becomes, Refreshed, Rewritten, Observed
    <2>2. CASE call'[c].at # "write"
      <3>1. call'[c].at \notin {"write", "mark"} /\ (history'.raced <=> history.raced)
        BY <2>2, AcceptCheckMoves DEF Becomes, Observed
      <3> QED BY <2>1, <3>1, TransferKept DEF TransferFrame
    <2>3. CASE call'[c].at = "write"
      <3>1. /\ call'[c].i = i /\ Req(c).file \notin obj[i].uploaded
            /\ history'.raced <=> (history.raced \/ Racing(i, Req(c).file))
        BY <2>3, AcceptCheckMoves DEF Becomes, Observed
      <3>2. FilesThen BY <2>1 DEF FilesThen, HoldsThen, Transfer, Accepted
      <3>3. \A d \in Calls : Req(d)' = Req(d) /\ (call[d].at \in {"write", "mark"} => call[d].i \in Intents)
        BY <2>1, HasIntent DEF Req
      <3>4. \A d \in Calls : d # c => (Transferring(d)' <=> Transferring(d)) BY <2>1, <3>3 DEF Transferring
      <3>5. CallsThen
        <4>1. \A d \in Calls : call'[d].at = "mark" => d # c BY <2>3
        <4>2. \A d \in Calls : call'[d].at = "mark" /\ call'[d].i \notin history'.gone =>
                /\ held'[call'[d].i][Req(d)'.file] # None
                /\ ~history'.raced => held'[call'[d].i][Req(d)'.file] = Req(d)'.bytes
          BY <2>1, <3>3, <4>1 DEF Transfer
        <4>3. ASSUME ~history'.raced
              PROVE  /\ \A d \in Calls : Transferring(d)' /\ call'[d].i \notin history'.gone =>
                           Req(d)'.file \notin obj'[call'[d].i].uploaded
                     /\ \A b, d \in Calls : Transferring(b)' /\ Transferring(d)' /\ call'[b].i = call'[d].i
                                              /\ Req(b)'.file = Req(d)'.file => b = d
          <5>1. ~history.raced /\ ~Racing(i, Req(c).file) BY <2>1, <3>1, <4>3
          <5>2. \A d \in Calls : d # c /\ Transferring(d) => ~(call[d].i = i /\ Req(d).file = Req(c).file)
            BY <5>1 DEF Racing
          <5>3. \A d \in Calls : Transferring(d) => call[d].i \in Intents BY <3>3 DEF Transferring
          <5>4. \A d \in Calls : Transferring(d)' /\ call'[d].i \notin history'.gone =>
                           Req(d)'.file \notin obj'[call'[d].i].uploaded
            BY <2>1, <3>1, <3>3, <3>4, <5>1, <5>3 DEF Transfer
          <5>5. \A b, d \in Calls : Transferring(b)' /\ Transferring(d)' /\ call'[b].i = call'[d].i
                                              /\ Req(b)'.file = Req(d)'.file => b = d
            BY <2>1, <3>1, <3>3, <3>4, <5>1, <5>2 DEF Transfer
          <5> QED BY <5>4, <5>5
        <4> QED BY <4>2, <4>3 DEF CallsThen
      <3> QED BY <3>2, <3>5, TransferNext
    <2> QED BY <2>2, <2>3
  <1>prepareResolve. ASSUME NEW c \in Calls, NEW i \in Intents, prepareResolve(c, i) PROVE Transfer'
    <2> USE <1>prepareResolve
    <2>2. TransferFrame
      BY prepareResolveMoves DEF Becomes, TransferFrame, Refreshed, Rewritten, RemovedFromMap, Observed
    <2> QED BY <2>2, TransferKept
  <1>StageFile. ASSUME NEW c \in Calls, StageFile(c) PROVE Transfer'
    <2> USE <1>StageFile
    <2>2. TransferFrame
      BY StageFileMoves DEF Becomes, TransferFrame, Refreshed, Rewritten, RemovedFromMap, Observed
    <2> QED BY <2>2, TransferKept
  <1>MarkPrepared. ASSUME NEW c \in Calls, MarkPrepared(c) PROVE Transfer'
    <2> USE <1>MarkPrepared
    <2>2. TransferFrame
      BY MarkPreparedMoves DEF Becomes, TransferFrame, Refreshed, Rewritten, RemovedFromMap, Observed
    <2> QED BY <2>2, TransferKept
  <1>PreparedPersist. ASSUME NEW c \in Calls, PreparedPersist(c) PROVE Transfer'
    <2> USE <1>PreparedPersist
    <2>1. call[c].i \in Intents /\ disk' = [disk EXCEPT ![call[c].i] = obj[call[c].i]] /\ UNCHANGED <<plan, obj, held, history>>
      BY PreparedPersistMoves, HasIntent DEF Removing
    <2>2. \A d \in Calls : call'[d].at \in {"write", "mark"} => call'[d].at = call[d].at /\ call'[d].i = call[d].i
      BY PreparedPersistMoves DEF Becomes
    <2>3. CallsThen BY <2>1, <2>2, CallsThenKept
    <2>4. FilesThen BY <2>1 DEF FilesThen, HoldsThen, Transfer, Accepted, Types
    <2> QED BY <2>3, <2>4, TransferNext
  <1>resolveFlowStep. ASSUME NEW c \in Calls, resolveFlowStep(c) PROVE Transfer'
    <2> USE <1>resolveFlowStep
    <2>2. TransferFrame
      BY resolveFlowStepMoves DEF Becomes, TransferFrame, Refreshed, Rewritten, RemovedFromMap, Observed
    <2> QED BY <2>2, TransferKept
  <1>PromoteRead. ASSUME NEW c \in Calls, PromoteRead(c) PROVE Transfer'
    <2> USE <1>PromoteRead
    <2>2. TransferFrame
      BY PromoteReadMoves DEF Becomes, TransferFrame, Refreshed, Rewritten, RemovedFromMap, Observed
    <2> QED BY <2>2, TransferKept
  <1>PromoteCopy. ASSUME NEW c \in Calls, PromoteCopy(c) PROVE Transfer'
    <2> USE <1>PromoteCopy
    <2>2. TransferFrame
      BY PromoteCopyMoves DEF Becomes, TransferFrame, Refreshed, Rewritten, RemovedFromMap, Observed
    <2> QED BY <2>2, TransferKept
  <1>PromoteUnlink. ASSUME NEW c \in Calls, PromoteUnlink(c) PROVE Transfer'
    <2> USE <1>PromoteUnlink
    <2>2. TransferFrame
      BY PromoteUnlinkMoves DEF Becomes, TransferFrame, Refreshed, Rewritten, RemovedFromMap, Observed
    <2> QED BY <2>2, TransferKept
  <1>ResolveMemo. ASSUME NEW c \in Calls, ResolveMemo(c) PROVE Transfer'
    <2> USE <1>ResolveMemo
    <2>2. TransferFrame
      BY ResolveMemoMoves DEF Becomes, TransferFrame, Refreshed, Rewritten, RemovedFromMap, Observed
    <2> QED BY <2>2, TransferKept
  <1>ResolveExec. ASSUME NEW c \in Calls, ResolveExec(c) PROVE Transfer'
    <2> USE <1>ResolveExec
    <2>2. TransferFrame
      BY ResolveExecMoves DEF Becomes, TransferFrame, Refreshed, Rewritten, RemovedFromMap, Observed
    <2> QED BY <2>2, TransferKept
  <1>DispatchBegin. ASSUME NEW c \in Calls, DispatchBegin(c) PROVE Transfer'
    <2> USE <1>DispatchBegin
    <2>2. TransferFrame
      BY DispatchBeginMoves DEF Becomes, TransferFrame, Refreshed, Rewritten, RemovedFromMap, Observed
    <2> QED BY <2>2, TransferKept
  <1>materializeConsumerCopy. ASSUME NEW c \in Calls, materializeConsumerCopy(c) PROVE Transfer'
    <2> USE <1>materializeConsumerCopy
    <2>2. TransferFrame
      BY materializeConsumerCopyMoves DEF Becomes, TransferFrame, Refreshed, Rewritten, RemovedFromMap, Observed
    <2> QED BY <2>2, TransferKept
  <1>DispatchSpawn. ASSUME NEW c \in Calls, DispatchSpawn(c) PROVE Transfer'
    <2> USE <1>DispatchSpawn
    <2>2. TransferFrame
      BY DispatchSpawnMoves DEF Becomes, TransferFrame, Refreshed, Rewritten, RemovedFromMap, Observed
    <2> QED BY <2>2, TransferKept
  <1>StoreBegin. ASSUME NEW c \in Calls, StoreBegin(c) PROVE Transfer'
    <2> USE <1>StoreBegin
    <2>2. TransferFrame
      BY StoreBeginMoves DEF Becomes, TransferFrame, Refreshed, Rewritten, RemovedFromMap, Observed
    <2> QED BY <2>2, TransferKept
  <1>PutFind. ASSUME NEW c \in Calls, PutFind(c) PROVE Transfer'
    <2> USE <1>PutFind
    <2>2. TransferFrame
      BY PutFindMoves DEF Becomes, TransferFrame, Refreshed, Rewritten, RemovedFromMap, Observed
    <2> QED BY <2>2, TransferKept
  <1>PutBytes. ASSUME NEW c \in Calls, PutBytes(c) PROVE Transfer'
    <2> USE <1>PutBytes
    <2>2. TransferFrame
      BY PutBytesMoves DEF Becomes, TransferFrame, Refreshed, Rewritten, RemovedFromMap, Observed
    <2> QED BY <2>2, TransferKept
  <1>PutRow. ASSUME NEW c \in Calls, PutRow(c) PROVE Transfer'
    <2> USE <1>PutRow
    <2>2. TransferFrame
      BY PutRowMoves DEF Becomes, TransferFrame, Refreshed, Rewritten, RemovedFromMap, Observed
    <2> QED BY <2>2, TransferKept
  <1>GcList. ASSUME NEW c \in Calls, GcList(c) PROVE Transfer'
    <2> USE <1>GcList
    <2>2. TransferFrame
      BY GcListMoves DEF Becomes, TransferFrame, Refreshed, Rewritten, RemovedFromMap, Observed
    <2> QED BY <2>2, TransferKept
  <1>GcBytes. ASSUME NEW c \in Calls, GcBytes(c) PROVE Transfer'
    <2> USE <1>GcBytes
    <2>2. TransferFrame
      BY GcBytesMoves DEF Becomes, TransferFrame, Refreshed, Rewritten, RemovedFromMap, Observed
    <2> QED BY <2>2, TransferKept
  <1>GcRow. ASSUME NEW c \in Calls, GcRow(c) PROVE Transfer'
    <2> USE <1>GcRow
    <2>2. TransferFrame
      BY GcRowMoves DEF Becomes, TransferFrame, Refreshed, Rewritten, RemovedFromMap, Observed
    <2> QED BY <2>2, TransferKept
  <1>LoadBytes. ASSUME NEW c \in Calls, LoadBytes(c) PROVE Transfer'
    <2> USE <1>LoadBytes
    <2>2. TransferFrame
      BY LoadBytesMoves DEF Becomes, TransferFrame, Refreshed, Rewritten, RemovedFromMap, Observed
    <2> QED BY <2>2, TransferKept
  <1>LoadRow. ASSUME NEW c \in Calls, NEW t \in Transfers, LoadRow(c, t) PROVE Transfer'
    <2> USE <1>LoadRow
    <2>2. TransferFrame
      BY LoadRowMoves DEF Becomes, TransferFrame, Refreshed, Rewritten, RemovedFromMap, Observed
    <2> QED BY <2>2, TransferKept
  <1>LeaseLapses. ASSUME NEW i \in Intents, LeaseLapses(i) PROVE Transfer'
    <2> USE <1>LeaseLapses
    <2>2. TransferFrame
      BY LeaseLapsesMoves DEF Becomes, TransferFrame, Refreshed, Rewritten, RemovedFromMap, Observed
    <2> QED BY <2>2, TransferKept
  <1>sweepExpired. ASSUME NEW i \in Intents, sweepExpired(i) PROVE Transfer'
    <2> USE <1>sweepExpired
    <2>2. TransferFrame
      BY sweepExpiredMoves DEF Becomes, TransferFrame, Refreshed, Rewritten, RemovedFromMap, Observed
    <2> QED BY <2>2, TransferKept
  <1>ReapStaged. ASSUME NEW i \in Intents, ReapStaged(i) PROVE Transfer'
    <2> USE <1>ReapStaged
    <2>2. TransferFrame
      BY ReapStagedMoves DEF Becomes, TransferFrame, Refreshed, Rewritten, RemovedFromMap, Observed
    <2> QED BY <2>2, TransferKept
  <1>ReapMap. ASSUME NEW i \in Intents, ReapMap(i) PROVE Transfer'
    <2> USE <1>ReapMap
    <2>2. TransferFrame
      BY ReapMapMoves DEF Becomes, TransferFrame, Refreshed, Rewritten, RemovedFromMap, Observed
    <2> QED BY <2>2, TransferKept
  <1>ReapDir. ASSUME NEW i \in Intents, ReapDir(i) PROVE Transfer'
    <2> USE <1>ReapDir
    <2>1. /\ i \in Intents /\ i \in history.gone /\ disk' = [disk EXCEPT ![i] = NoRec]
          /\ held' = [held EXCEPT ![i] = NoFiles] /\ UNCHANGED <<plan, obj, history>>
      BY ReapDirMoves DEF Removals
    <2>2. \A d \in Calls : call'[d].at \in {"write", "mark"} => call'[d].at = call[d].at /\ call'[d].i = call[d].i
      BY ReapDirMoves DEF Becomes
    <2>3. \A j \in Intents \ history.gone : disk'[j] = disk[j] /\ held'[j] = held[j] BY <2>1 DEF Types
    <2>4. CallsThen BY <2>1, <2>2, <2>3, CallsThenKept
    <2>5. FilesThen BY <2>1, <2>3 DEF FilesThen, HoldsThen, Transfer, Accepted
    <2> QED BY <2>4, <2>5, TransferNext
  <1>Expires. ASSUME NEW t \in Transfers, Expires(t) PROVE Transfer'
    <2> USE <1>Expires
    <2>2. TransferFrame
      BY ExpiresMoves DEF Becomes, TransferFrame, Refreshed, Rewritten, RemovedFromMap, Observed
    <2> QED BY <2>2, TransferKept
  <1>Crash. ASSUME Crash PROVE Transfer'
    <2> USE <1>Crash
    <2>1. /\ \A i \in Intents : disk'[i] \in {NoRec, disk[i]}
          /\ live' = {i \in Intents : disk'[i].state # None}
          /\ \A i \in live' : disk'[i] = disk[i]
          /\ \A i \in Intents : obj'[i] = IF i \in live' THEN disk[i] ELSE obj[i]
          /\ \A i \in Intents : i \in live' => held'[i] = held[i]
          /\ history'.gone = history.gone \union (Issued \ live') /\ (history'.raced <=> history.raced)
      BY CrashMoves DEF Observed
    <2>2. \A d \in Calls : call'[d].at \notin {"write", "mark"}
      <3>1. [Idle EXCEPT !.at = "lost"].at = "lost" BY DEF Idle
      <3>2. \A d \in Calls : \/ call'[d] = call[d] /\ call[d].at \in {"idle", "done", "lost"}
                             \/ call'[d] = [Idle EXCEPT !.at = "lost"]
        BY CrashMoves
      <3> QED BY <3>1, <3>2
    <2>3. CallsThen BY <2>2 DEF CallsThen, Transferring
    <2>4. ASSUME NEW j \in Intents \ history'.gone
          PROVE  HoldsThen(j, obj'[j]) /\ HoldsThen(j, disk'[j]) /\ disk'[j].uploaded \subseteq obj'[j].uploaded
      <3>1. CASE j \in live' BY <2>1, <3>1 DEF HoldsThen, Transfer, Accepted
      <3>2. CASE j \notin live'
        <4>1. obj[j] = NoRec /\ obj'[j] = NoRec BY <2>1, <3>2 DEF Issued
        <4>2. disk[j] = NoRec /\ disk'[j] = NoRec BY <2>1, <4>1, Idles DEF Records, Known
        <4> QED BY <4>1, <4>2, Idles DEF HoldsThen
      <3> QED BY <3>1, <3>2
    <2> QED BY <2>3, <2>4, TransferNext DEF FilesThen
  <1>1. CASE UNCHANGED vars BY <1>1, TransferKept DEF vars, intents, tree, run, exchange, TransferFrame
  <1>2. ASSUME NEW c \in Calls, IntentStep(c) PROVE Transfer'
    BY <1>2, <1>IssueRoute, <1>IssueCheck, <1>IssueRecord, <1>IssuePersist, <1>CallStaged, <1>CallMap, <1>CallDir,
       <1>AcceptWrite, <1>AcceptMark, <1>AcceptPersist, <1>Cancel, <1>AcceptCheck DEF IntentStep
  <1>3. ASSUME NEW c \in Calls, ResolveStep(c) PROVE Transfer'
    BY <1>3, <1>prepareResolve, <1>StageFile, <1>MarkPrepared, <1>PreparedPersist, <1>resolveFlowStep, <1>PromoteRead,
       <1>PromoteCopy, <1>PromoteUnlink, <1>ResolveMemo, <1>ResolveExec, <1>DispatchBegin, <1>materializeConsumerCopy,
       <1>DispatchSpawn DEF ResolveStep
  <1>4. ASSUME NEW c \in Calls, ExchangeStep(c) PROVE Transfer'
    BY <1>4, <1>StoreBegin, <1>PutFind, <1>PutBytes, <1>PutRow, <1>GcList, <1>GcBytes, <1>GcRow, <1>LoadBytes,
       <1>LoadRow DEF ExchangeStep
  <1>5. ASSUME NEW i \in Intents, LeaseLapses(i) \/ Reap(i) PROVE Transfer'
    BY <1>5, <1>LeaseLapses, <1>sweepExpired, <1>ReapStaged, <1>ReapMap, <1>ReapDir DEF Reap
  <1>6. ASSUME NEW t \in Transfers, Expires(t) PROVE Transfer'
    BY <1>6, <1>Expires
  <1>7. ASSUME Crash PROVE Transfer'
    BY <1>7, <1>Crash
  <1> QED BY <1>1, <1>2, <1>3, <1>4, <1>5, <1>6, <1>7 DEF Next

-----------------------------------------------------------------------------
(* The reservations of a set of intents. *)

LEMMA ReservedGrows ==
  ASSUME NEW S, NEW T, S \subseteq T, T \subseteq Intents
  PROVE  Reserved(S) \in Nat /\ Reserved(T) \in Nat /\ Reserved(S) =< Reserved(T)
  <1>1. IsFiniteSet(T) BY FileFacts, FS_Subset
  <1>2. IsFiniteSet(S) /\ Cardinality(S) \in Nat /\ Cardinality(T) \in Nat /\ Cardinality(S) =< Cardinality(T)
    BY <1>1, FS_Subset, FS_CardinalityType
  <1>3. \A k, m, n \in Nat : m =< n => k * m =< k * n
    OBVIOUS
  <1>4. Size \in Nat BY FileFacts
  <1> QED BY <1>2, <1>3, <1>4, ReservedTypes DEF Reserved

LEMMA ReservedAdds ==
  ASSUME NEW S, S \subseteq Intents, NEW i \in Intents, i \notin S
  PROVE  Reserved(S \union {i}) = Reserved(S) + Size
  <1>1. IsFiniteSet(S) BY FileFacts, FS_Subset
  <1>2. Cardinality(S) \in Nat /\ Cardinality(S \union {i}) = Cardinality(S) + 1
    BY <1>1, FS_AddElement, FS_CardinalityType
  <1>3. \A k, n \in Nat : k * (n + 1) = k * n + k
    OBVIOUS
  <1>4. Size \in Nat BY FileFacts
  <1> QED BY <1>2, <1>3, <1>4 DEF Reserved

LEMMA ReservedLess ==
  ASSUME NEW S, NEW T, S \subseteq T, T \subseteq Intents, NEW i \in T, i \notin S
  PROVE  Reserved(S) + Size =< Reserved(T)
  <1>1. S \union {i} \subseteq T /\ S \subseteq Intents /\ i \in Intents
    OBVIOUS
  <1>2. Reserved(S \union {i}) = Reserved(S) + Size BY <1>1, ReservedAdds
  <1>3. Reserved(S \union {i}) =< Reserved(T) BY <1>1, ReservedGrows
  <1> QED BY <1>2, <1>3

LEMMA PresentFits ==
  ASSUME NEW dir
  PROVE  /\ Cardinality(Present(dir)) \in Nat /\ Cardinality(Present(dir)) =< Size
         /\ (\A f \in Files : dir[f] = None) => Cardinality(Present(dir)) = 0
  <1>1. Present(dir) \subseteq Files BY DEF Present
  <1>2. IsFiniteSet(Files) BY FileFacts
  <1>3. Cardinality(Present(dir)) \in Nat /\ Cardinality(Present(dir)) =< Size
    BY <1>1, <1>2, FS_Subset, FS_CardinalityType DEF Size
  <1>4. (\A f \in Files : dir[f] = None) => Present(dir) = {} BY DEF Present
  <1> QED BY <1>3, <1>4, FS_EmptySet

LEMMA CrashCalls ==
  ASSUME Types, Places, Records, Crash
  PROVE  \A d \in Calls : \/ call'[d] = call[d] /\ call[d].at \in {"idle", "done", "lost"}
                          \/ /\ call'[d].at = "lost" /\ call'[d].i = 0 /\ call'[d].t = 0 /\ call'[d].res = None
                             /\ call'[d].todo = {} /\ call'[d].arts = {}
  <1>1. /\ [Idle EXCEPT !.at = "lost"].at = "lost" /\ [Idle EXCEPT !.at = "lost"].i = 0
        /\ [Idle EXCEPT !.at = "lost"].t = 0 /\ [Idle EXCEPT !.at = "lost"].res = None
        /\ [Idle EXCEPT !.at = "lost"].todo = {} /\ [Idle EXCEPT !.at = "lost"].arts = {}
    BY DEF Idle
  <1> QED BY <1>1, CrashMoves

(* What a restart loads, when no intent comes back. *)
LEMMA CrashLoads ==
  ASSUME Base, Crash, ~history'.undead
  PROVE  /\ ~history.undead /\ live' \subseteq live /\ live \subseteq Intents
         /\ \A i \in live' : /\ disk'[i] = disk[i] /\ obj'[i] = disk[i]
                             /\ disk[i].key = obj[i].key /\ obj[i].key \in Keys
  <1>0. Types /\ Places /\ Records BY DEF Base
  <1>1. /\ \A i \in live' : disk'[i] = disk[i] /\ disk[i].state # None
        /\ \A i \in Intents : obj'[i] = IF i \in live' THEN disk[i] ELSE obj[i]
        /\ live' \subseteq Intents /\ live \subseteq Intents
        /\ history'.undead <=> (history.undead \/ live' \intersect history.gone # {})
    BY <1>0, CrashMoves DEF Observed, Types
  <1>2. \A i \in live' : i \notin history.gone BY <1>1
  <1> QED BY <1>0, <1>1, <1>2 DEF Records

-----------------------------------------------------------------------------
(* The lock of the issues and the reservations. *)

IssuesFrame ==
    /\ UNCHANGED <<plan, lock, live, idem>> /\ (history'.undead <=> history.undead)
    /\ \A j \in Intents : obj'[j].key = obj[j].key
    /\ \A d \in Calls : /\ call'[d].at = "issue" => call[d].at = "issue" /\ call'[d].reserved = call[d].reserved
                        /\ call'[d].at = "persist" /\ Req(d).op = "issue" => call[d].at = "persist"

LEMMA IssuesKept ==
  ASSUME Base, Issues, IssuesFrame
  PROVE  Issues'
  <1>1. \A d \in Calls : Req(d)' = Req(d) BY DEF IssuesFrame, Req
  <1>2. live \subseteq Intents BY DEF Base, Types
  <1>3. Reserved(live)' = Reserved(live) BY DEF IssuesFrame, Reserved, Size
  <1> QED BY <1>1, <1>2, <1>3 DEF Issues, IssuesFrame

LEMMA IssuesRemoveMap ==
  ASSUME Base, Issues, NEW i \in Intents, RemovedFromMap(i), UNCHANGED <<plan, lock, obj>>,
         \A d \in Calls : /\ call'[d].at = "issue" => call[d].at = "issue" /\ call'[d].reserved = call[d].reserved
                          /\ call'[d].at = "persist" /\ Req(d).op = "issue" => call[d].at = "persist"
  PROVE  Issues'
  <1>0. Types /\ Places /\ Records BY DEF Base
  <1>1. \A d \in Calls : Req(d)' = Req(d) /\ (call[d].at = "issue" => Req(d).key \in Keys)
    <2>1. \A d \in Calls : call[d].at = "issue" => Req(d).op = "issue" BY <1>0, OpOf DEF Places
    <2> QED BY <1>0, <2>1, PlanFacts DEF Req
  <1>2. live' = live \ {i} /\ live \subseteq Intents /\ (history'.undead <=> history.undead)
        /\ \A k \in Keys : idem'[k] = IF i \in live /\ obj[i].key = k THEN 0 ELSE idem[k]
    BY <1>0 DEF RemovedFromMap, Observed, Types
  <1>3. Reserved(live') =< Reserved(live) /\ Reserved(live') \in Nat /\ Reserved(live) \in Nat
    BY <1>2, ReservedGrows
  <1>4. \A d \in Calls : call[d].reserved \in Nat BY <1>0, CallTypes DEF Types
  <1>5. \A d \in Calls : call'[d].at = "issue" => idem'[Req(d)'.key] = 0 /\ Reserved(live') =< call'[d].reserved
    BY <1>1, <1>2, <1>3, <1>4 DEF Issues
  <1>6. ~history'.undead => \A j \in live' : idem'[obj'[j].key] = j
    <2>1. \A j \in live : j \in Intents /\ obj[j].key \in Keys BY <1>0, <1>2 DEF Records
    <2> QED BY <1>2, <2>1 DEF Issues
  <1>7. Reserved(live)' = Reserved(live') BY DEF Reserved, Size
  <1>8. \A d \in Calls : call'[d].at = "issue" \/ (call'[d].at = "persist" /\ Req(d)'.op = "issue") => lock' = d
    BY <1>1 DEF Issues
  <1> QED BY <1>5, <1>6, <1>7, <1>8 DEF Issues

-----------------------------------------------------------------------------
(* The ceiling. *)

PromotingStill(d) ==
    /\ Promoting(d) /\ call'[d].i = call[d].i
    /\ call'[d].at = "persist" => call[d].at = "persist"
    /\ call'[d].at \in Promotes \union {"flow"} => call[d].at \in Promotes \union {"flow"}
RoomFrame ==
    /\ UNCHANGED <<plan, live, disk, stable>>
    /\ (history'.cut <=> history.cut) /\ (history'.undead <=> history.undead)
    /\ \A j \in Intents : obj'[j].state = obj[j].state
    /\ \A d \in Calls : Promoting(d)' => PromotingStill(d)

(* The conjuncts of Room in the next state. *)
CallsRoom ==
    \A d \in Calls : Promoting(d)' =>
        /\ call'[d].i \in live'
        /\ call'[d].at = "persist" => obj'[call'[d].i].state = "prepared"
        /\ call'[d].at \in Promotes \union {"flow"} => disk'[call'[d].i].state = "prepared"
StatesRoom == \A j \in live' : disk'[j].state = "prepared" => obj'[j].state = "prepared"
OwingThen == {j \in live' : disk'[j].state # "prepared"}
SpaceRoom ==
    /\ Cardinality(Present(stable')) + Reserved(OwingThen) =< plan.ceiling
    /\ live' # OwingThen => Size + Reserved(OwingThen) =< plan.ceiling

LEMMA RoomNext ==
  ASSUME UNCHANGED plan, ~history'.cut /\ ~history'.undead => CallsRoom /\ StatesRoom /\ SpaceRoom
  PROVE  Room'
  <1>1. Owing' = OwingThen /\ Reserved(Owing)' = Reserved(OwingThen) /\ Present(stable)' = Present(stable') /\ plan'.ceiling = plan.ceiling /\ Size' = Size
    BY DEF Owing, OwingThen, Reserved, Size, Present
  <1>2. SpaceRoom => /\ Cardinality(Present(stable))' + Reserved(Owing)' =< plan'.ceiling
                     /\ live' # Owing' => Size' + Reserved(Owing)' =< plan'.ceiling
    BY <1>1 DEF SpaceRoom
  <1> QED BY <1>2 DEF Room, CallsRoom, StatesRoom

(* What is stored does not grow, and intents stop owing. *)
LEMMA SpaceKept ==
  ASSUME Types, Room, ~history.cut, ~history.undead, stable' = stable \/ stable' = NoFiles,
         OwingThen \subseteq Owing, live' # OwingThen => live # Owing \/ (\E j \in Owing : j \notin OwingThen)
  PROVE  SpaceRoom
  <1>1. Owing \subseteq Intents BY DEF Owing, Types
  <1>2. /\ Cardinality(Present(stable)) + Reserved(Owing) =< plan.ceiling
        /\ live # Owing => Size + Reserved(Owing) =< plan.ceiling
    BY DEF Room
  <1>3. /\ Reserved(OwingThen) \in Nat /\ Reserved(Owing) \in Nat /\ Reserved(OwingThen) =< Reserved(Owing)
        /\ plan.ceiling \in Nat /\ Size \in Nat
    BY <1>1, ReservedGrows, PlanFacts, FileFacts
  <1>4. /\ Cardinality(Present(stable)) \in Nat /\ Cardinality(Present(stable')) \in Nat
        /\ Cardinality(Present(stable')) =< Cardinality(Present(stable))
    <2>1. Cardinality(Present(stable)) \in Nat /\ Cardinality(Present(NoFiles)) = 0 BY PresentFits DEF NoFiles
    <2> QED BY <2>1
  <1>5. ASSUME NEW j \in Owing, j \notin OwingThen PROVE Size + Reserved(OwingThen) =< plan.ceiling
    <2>1. Reserved(OwingThen) + Size =< Reserved(Owing) BY <1>1, <1>5, ReservedLess
    <2> QED BY <1>2, <1>3, <1>4, <2>1
  <1>6. live # Owing => Size + Reserved(OwingThen) =< plan.ceiling BY <1>2, <1>3
  <1>7. Cardinality(Present(stable')) + Reserved(OwingThen) =< plan.ceiling BY <1>2, <1>3, <1>4
  <1> QED BY <1>5, <1>6, <1>7 DEF SpaceRoom

LEMMA RoomKept ==
  ASSUME Base, Room, RoomFrame
  PROVE  Room'
  <1>1. Types /\ live \subseteq Intents /\ UNCHANGED plan BY DEF Base, Types, RoomFrame
  <1>2. OwingThen = Owing /\ live' = live /\ stable' = stable BY DEF OwingThen, Owing, RoomFrame
  <1>3. (~history'.cut /\ ~history'.undead) => ~history.cut /\ ~history.undead BY DEF RoomFrame
  <1>4. ~history.cut /\ ~history.undead => CallsRoom /\ StatesRoom
    BY <1>1 DEF Room, RoomFrame, CallsRoom, StatesRoom, PromotingStill
  <1>5. ~history.cut /\ ~history.undead => SpaceRoom BY <1>1, <1>2, SpaceKept
  <1> QED BY <1>1, <1>3, <1>4, <1>5, RoomNext

(* A record is written to its file. *)
LEMMA RoomPersist ==
  ASSUME Base, Room, NEW i \in Intents, disk' = [disk EXCEPT ![i] = obj[i]],
         UNCHANGED <<plan, live, obj, stable, history>>,
         \A d \in Calls : Promoting(d)' =>
            /\ Promoting(d) /\ call'[d].i = call[d].i
            /\ call'[d].at = "persist" => call[d].at = "persist"
            /\ call'[d].at \in Promotes \union {"flow"} =>
                  \/ call[d].at \in Promotes \union {"flow"}
                  \/ call[d].at = "persist" /\ call[d].i = i
  PROVE  Room'
  <1>1. Types /\ live \subseteq Intents /\ disk \in [Intents -> RecType] BY DEF Base, Types
  <1>2. disk'[i] = obj[i] /\ \A j \in Intents : j # i => disk'[j] = disk[j] BY <1>1
  <1>3. ASSUME ~history.cut, ~history.undead PROVE CallsRoom /\ StatesRoom /\ SpaceRoom
    <2>1. \A j \in live : disk[j].state = "prepared" => obj[j].state = "prepared" BY <1>3 DEF Room
    <2>2. \A j \in live : disk[j].state = "prepared" => disk'[j].state = "prepared" BY <1>1, <1>2, <2>1
    <2>3. CallsRoom BY <1>1, <1>2, <1>3, <2>2 DEF Room, CallsRoom
    <2>4. StatesRoom BY <1>1, <1>2, <2>1 DEF StatesRoom
    <2>5. OwingThen \subseteq Owing BY <2>2 DEF OwingThen, Owing
    <2>6. live' # OwingThen => live # Owing \/ (\E j \in Owing : j \notin OwingThen) BY <2>5
    <2>7. SpaceRoom BY <1>1, <1>3, <2>5, <2>6, SpaceKept
    <2> QED BY <2>3, <2>4, <2>7
  <1> QED BY <1>3, RoomNext

(* An intent leaves the map. *)
LEMMA RoomRemoveMap ==
  ASSUME Base, Room, NEW i \in Intents, RemovedFromMap(i), UNCHANGED <<plan, obj, disk, stable>>,
         \A d \in Calls : Promoting(d)' => PromotingStill(d)
  PROVE  Room'
  <1>1. Types /\ live \subseteq Intents BY DEF Base, Types
  <1>2. /\ live' = live \ {i} /\ (history'.undead <=> history.undead)
        /\ history'.cut <=> (history.cut \/ Cut(i))
    BY DEF RemovedFromMap, Observed
  <1>3. ASSUME ~history'.cut, ~history'.undead PROVE CallsRoom /\ StatesRoom /\ SpaceRoom
    <2>1. ~history.cut /\ ~history.undead /\ \A d \in Calls : Promoting(d) => call[d].i # i
      BY <1>2, <1>3 DEF Cut
    <2>2. CallsRoom BY <1>2, <2>1 DEF CallsRoom, Room, PromotingStill
    <2>3. StatesRoom BY <1>2, <2>1 DEF StatesRoom, Room
    <2>4. OwingThen \subseteq Owing /\ (live' # OwingThen => live # Owing) BY <1>2 DEF OwingThen, Owing
    <2>5. SpaceRoom BY <1>1, <2>1, <2>4, SpaceKept
    <2> QED BY <2>2, <2>3, <2>5
  <1> QED BY <1>3, RoomNext

(* The directory of a removed intent is deleted. *)
LEMMA RoomRemoveDir ==
  ASSUME Base, Room, NEW i \in Intents, i \in history.gone, disk' = [disk EXCEPT ![i] = NoRec],
         UNCHANGED <<plan, live, obj, stable, history>>,
         \A d \in Calls : Promoting(d)' => PromotingStill(d)
  PROVE  Room'
  <1>1. Types /\ live \subseteq Intents /\ disk \in [Intents -> RecType] BY DEF Base, Types
  <1>2. \A j \in Intents : j # i => disk'[j] = disk[j] BY <1>1
  <1>3. ASSUME ~history.cut, ~history.undead PROVE CallsRoom /\ StatesRoom /\ SpaceRoom
    <2>1. i \notin live BY <1>3 DEF Base, Removals
    <2>2. \A j \in live : disk'[j] = disk[j] BY <1>1, <1>2, <2>1
    <2>3. CallsRoom /\ StatesRoom BY <1>3, <2>2 DEF CallsRoom, StatesRoom, Room, PromotingStill
    <2>4. OwingThen = Owing BY <2>2 DEF OwingThen, Owing
    <2>5. SpaceRoom BY <1>1, <1>3, <2>4, SpaceKept
    <2> QED BY <2>3, <2>5
  <1> QED BY <1>3, RoomNext

LEMMA FreshStep ==
  ASSUME Base, Fresh, [Next]_vars
  PROVE  Fresh'
  <1> Types /\ Places /\ Records /\ Removals BY DEF Base
  <1>IssueRoute. ASSUME NEW c \in Calls, IssueRoute(c) PROVE Fresh'
    <2> USE <1>IssueRoute
    <2> QED BY IssueRouteMoves DEF Becomes, Fresh
  <1>IssueCheck. ASSUME NEW c \in Calls, IssueCheck(c) PROVE Fresh'
    <2> USE <1>IssueCheck
    <2> QED BY IssueCheckMoves DEF Becomes, Fresh
  <1>IssueRecord. ASSUME NEW c \in Calls, IssueRecord(c) PROVE Fresh'
    <2> USE <1>IssueRecord
    <2> QED BY IssueRecordMoves DEF Becomes, Fresh
  <1>IssuePersist. ASSUME NEW c \in Calls, IssuePersist(c) PROVE Fresh'
    <2> USE <1>IssuePersist
    <2> QED BY IssuePersistMoves DEF Becomes, Fresh
  <1>CallStaged. ASSUME NEW c \in Calls, CallStaged(c) PROVE Fresh'
    <2> USE <1>CallStaged
    <2> QED BY CallStagedMoves DEF Becomes, Fresh
  <1>CallMap. ASSUME NEW c \in Calls, CallMap(c) PROVE Fresh'
    <2> USE <1>CallMap
    <2> QED BY CallMapMoves DEF Becomes, Fresh
  <1>CallDir. ASSUME NEW c \in Calls, CallDir(c) PROVE Fresh'
    <2> USE <1>CallDir
    <2> QED BY CallDirMoves DEF Becomes, Fresh
  <1>AcceptWrite. ASSUME NEW c \in Calls, AcceptWrite(c) PROVE Fresh'
    <2> USE <1>AcceptWrite
    <2> QED BY AcceptWriteMoves, Zenon DEF Becomes, Fresh
  <1>AcceptMark. ASSUME NEW c \in Calls, AcceptMark(c) PROVE Fresh'
    <2> USE <1>AcceptMark
    <2> QED BY AcceptMarkMoves DEF Becomes, Fresh
  <1>AcceptPersist. ASSUME NEW c \in Calls, AcceptPersist(c) PROVE Fresh'
    <2> USE <1>AcceptPersist
    <2> QED BY AcceptPersistMoves DEF Becomes, Fresh
  <1>Cancel. ASSUME NEW c \in Calls, NEW i \in Intents, Cancel(c, i) PROVE Fresh'
    <2> USE <1>Cancel
    <2> QED BY CancelMoves DEF Becomes, Fresh
  <1>AcceptCheck. ASSUME NEW c \in Calls, NEW i \in Intents, AcceptCheck(c, i) PROVE Fresh'
    <2> USE <1>AcceptCheck
    <2> QED BY AcceptCheckMoves DEF Becomes, Fresh
  <1>prepareResolve. ASSUME NEW c \in Calls, NEW i \in Intents, prepareResolve(c, i) PROVE Fresh'
    <2> USE <1>prepareResolve
    <2> QED BY prepareResolveMoves DEF Becomes, Fresh
  <1>StageFile. ASSUME NEW c \in Calls, StageFile(c) PROVE Fresh'
    <2> USE <1>StageFile
    <2> QED BY StageFileMoves DEF Becomes, Fresh
  <1>MarkPrepared. ASSUME NEW c \in Calls, MarkPrepared(c) PROVE Fresh'
    <2> USE <1>MarkPrepared
    <2> QED BY MarkPreparedMoves DEF Becomes, Fresh
  <1>PreparedPersist. ASSUME NEW c \in Calls, PreparedPersist(c) PROVE Fresh'
    <2> USE <1>PreparedPersist
    <2> QED BY PreparedPersistMoves DEF Becomes, Fresh
  <1>resolveFlowStep. ASSUME NEW c \in Calls, resolveFlowStep(c) PROVE Fresh'
    <2> USE <1>resolveFlowStep
    <2> QED BY resolveFlowStepMoves DEF Becomes, Fresh
  <1>PromoteRead. ASSUME NEW c \in Calls, PromoteRead(c) PROVE Fresh'
    <2> USE <1>PromoteRead
    <2> QED BY PromoteReadMoves DEF Becomes, Fresh
  <1>PromoteCopy. ASSUME NEW c \in Calls, PromoteCopy(c) PROVE Fresh'
    <2> USE <1>PromoteCopy
    <2> QED BY PromoteCopyMoves DEF Becomes, Fresh
  <1>PromoteUnlink. ASSUME NEW c \in Calls, PromoteUnlink(c) PROVE Fresh'
    <2> USE <1>PromoteUnlink
    <2> QED BY PromoteUnlinkMoves DEF Becomes, Fresh
  <1>ResolveMemo. ASSUME NEW c \in Calls, ResolveMemo(c) PROVE Fresh'
    <2> USE <1>ResolveMemo
    <2> QED BY ResolveMemoMoves DEF Becomes, Fresh
  <1>ResolveExec. ASSUME NEW c \in Calls, ResolveExec(c) PROVE Fresh'
    <2> USE <1>ResolveExec
    <2> QED BY ResolveExecMoves DEF Becomes, Fresh
  <1>DispatchBegin. ASSUME NEW c \in Calls, DispatchBegin(c) PROVE Fresh'
    <2> USE <1>DispatchBegin
    <2> QED BY DispatchBeginMoves DEF Becomes, Fresh
  <1>materializeConsumerCopy. ASSUME NEW c \in Calls, materializeConsumerCopy(c) PROVE Fresh'
    <2> USE <1>materializeConsumerCopy
    <2> QED BY materializeConsumerCopyMoves DEF Becomes, Fresh
  <1>DispatchSpawn. ASSUME NEW c \in Calls, DispatchSpawn(c) PROVE Fresh'
    <2> USE <1>DispatchSpawn
    <2> QED BY DispatchSpawnMoves DEF Becomes, Fresh
  <1>StoreBegin. ASSUME NEW c \in Calls, StoreBegin(c) PROVE Fresh'
    <2> USE <1>StoreBegin
    <2> QED BY StoreBeginMoves DEF Becomes, Fresh
  <1>PutFind. ASSUME NEW c \in Calls, PutFind(c) PROVE Fresh'
    <2> USE <1>PutFind
    <2> QED BY PutFindMoves DEF Becomes, Fresh
  <1>PutBytes. ASSUME NEW c \in Calls, PutBytes(c) PROVE Fresh'
    <2> USE <1>PutBytes
    <2> QED BY PutBytesMoves DEF Becomes, Fresh
  <1>PutRow. ASSUME NEW c \in Calls, PutRow(c) PROVE Fresh'
    <2> USE <1>PutRow
    <2> QED BY PutRowMoves, Zenon DEF Becomes, Fresh
  <1>GcList. ASSUME NEW c \in Calls, GcList(c) PROVE Fresh'
    <2> USE <1>GcList
    <2> QED BY GcListMoves DEF Becomes, Fresh
  <1>GcBytes. ASSUME NEW c \in Calls, GcBytes(c) PROVE Fresh'
    <2> USE <1>GcBytes
    <2> QED BY GcBytesMoves DEF Becomes, Fresh
  <1>GcRow. ASSUME NEW c \in Calls, GcRow(c) PROVE Fresh'
    <2> USE <1>GcRow
    <2> QED BY GcRowMoves DEF Becomes, Fresh
  <1>LoadBytes. ASSUME NEW c \in Calls, LoadBytes(c) PROVE Fresh'
    <2> USE <1>LoadBytes
    <2> QED BY LoadBytesMoves DEF Becomes, Fresh
  <1>LoadRow. ASSUME NEW c \in Calls, NEW t \in Transfers, LoadRow(c, t) PROVE Fresh'
    <2> USE <1>LoadRow
    <2> QED BY LoadRowMoves, Zenon DEF Becomes, Fresh
  <1>LeaseLapses. ASSUME NEW i \in Intents, LeaseLapses(i) PROVE Fresh'
    <2> USE <1>LeaseLapses
    <2> QED BY LeaseLapsesMoves DEF Becomes, Fresh
  <1>sweepExpired. ASSUME NEW i \in Intents, sweepExpired(i) PROVE Fresh'
    <2> USE <1>sweepExpired
    <2> QED BY sweepExpiredMoves DEF Becomes, Fresh
  <1>ReapStaged. ASSUME NEW i \in Intents, ReapStaged(i) PROVE Fresh'
    <2> USE <1>ReapStaged
    <2> QED BY ReapStagedMoves DEF Becomes, Fresh
  <1>ReapMap. ASSUME NEW i \in Intents, ReapMap(i) PROVE Fresh'
    <2> USE <1>ReapMap
    <2> QED BY ReapMapMoves DEF Becomes, Fresh
  <1>ReapDir. ASSUME NEW i \in Intents, ReapDir(i) PROVE Fresh'
    <2> USE <1>ReapDir
    <2> QED BY ReapDirMoves DEF Becomes, Fresh
  <1>Expires. ASSUME NEW t \in Transfers, Expires(t) PROVE Fresh'
    <2> USE <1>Expires
    <2> QED BY ExpiresMoves DEF Becomes, Fresh
  <1>Crash. ASSUME Crash PROVE Fresh'
    <2> USE <1>Crash
    <2>1. \A d \in Calls : call'[d] = call[d] \/ call'[d].at = "lost" BY CrashCalls DEF Base
    <2> QED BY <2>1 DEF Fresh
  <1>1. CASE UNCHANGED vars BY <1>1 DEF vars, intents, tree, run, exchange, Fresh
  <1>2. ASSUME NEW c \in Calls, IntentStep(c) PROVE Fresh'
    BY <1>2, <1>IssueRoute, <1>IssueCheck, <1>IssueRecord, <1>IssuePersist, <1>CallStaged, <1>CallMap, <1>CallDir,
       <1>AcceptWrite, <1>AcceptMark, <1>AcceptPersist, <1>Cancel, <1>AcceptCheck DEF IntentStep
  <1>3. ASSUME NEW c \in Calls, ResolveStep(c) PROVE Fresh'
    BY <1>3, <1>prepareResolve, <1>StageFile, <1>MarkPrepared, <1>PreparedPersist, <1>resolveFlowStep, <1>PromoteRead,
       <1>PromoteCopy, <1>PromoteUnlink, <1>ResolveMemo, <1>ResolveExec, <1>DispatchBegin, <1>materializeConsumerCopy,
       <1>DispatchSpawn DEF ResolveStep
  <1>4. ASSUME NEW c \in Calls, ExchangeStep(c) PROVE Fresh'
    BY <1>4, <1>StoreBegin, <1>PutFind, <1>PutBytes, <1>PutRow, <1>GcList, <1>GcBytes, <1>GcRow, <1>LoadBytes,
       <1>LoadRow DEF ExchangeStep
  <1>5. ASSUME NEW i \in Intents, LeaseLapses(i) \/ Reap(i) PROVE Fresh'
    BY <1>5, <1>LeaseLapses, <1>sweepExpired, <1>ReapStaged, <1>ReapMap, <1>ReapDir DEF Reap
  <1>6. ASSUME NEW t \in Transfers, Expires(t) PROVE Fresh'
    BY <1>6, <1>Expires
  <1>7. ASSUME Crash PROVE Fresh'
    BY <1>7, <1>Crash
  <1> QED BY <1>1, <1>2, <1>3, <1>4, <1>5, <1>6, <1>7 DEF Next

LEMMA IssuesStep ==
  ASSUME Base, Issues, [Next]_vars
  PROVE  Issues'
  <1> Types /\ Places /\ Records /\ Removals BY DEF Base
  <1>IssueRoute. ASSUME NEW c \in Calls, IssueRoute(c) PROVE Issues'
    <2> USE <1>IssueRoute
    <2>2. IssuesFrame
      BY IssueRouteMoves DEF Becomes, Types, IssuesFrame, Refreshed, Marked, Rewritten, Observed
    <2> QED BY <2>2, IssuesKept
  <1>IssueCheck. ASSUME NEW c \in Calls, IssueCheck(c) PROVE Issues'
    <2> USE <1>IssueCheck
    <2>1. \A d \in Calls : Req(d)' = Req(d) BY IssueCheckMoves DEF Req
    <2>2. CASE call'[c].at # "issue"
      <3>1. IssuesFrame BY <2>2, IssueCheckMoves DEF Becomes, IssuesFrame
      <3> QED BY <3>1, IssuesKept
    <2>3. CASE call'[c].at = "issue"
      <3>1. /\ idem[Req(c).key] = 0 /\ lock = None /\ lock' = c /\ call'[c].reserved = Reserved(live)
            /\ UNCHANGED <<plan, live, idem, obj, history>>
            /\ \A d \in Calls : d # c => call'[d] = call[d]
        BY <2>3, IssueCheckMoves DEF Becomes
      <3>2. \A d \in Calls : d # c => ~(call'[d].at = "issue" \/ (call'[d].at = "persist" /\ Req(d)'.op = "issue"))
        BY <2>1, <3>1, ArtifactAssumption DEF Issues
      <3>3. Reserved(live)' = Reserved(live) /\ Reserved(live) \in Nat
        BY <3>1, ReservedTypes DEF Reserved, Size, Types
      <3> QED BY <2>1, <2>3, <3>1, <3>2, <3>3 DEF Issues
    <2> QED BY <2>2, <2>3
  <1>IssueRecord. ASSUME NEW c \in Calls, IssueRecord(c) PROVE Issues'
    <2> USE <1>IssueRecord
    <2>1. \A d \in Calls : Req(d)' = Req(d) BY IssueRecordMoves DEF Req
    <2>2. /\ call[c].at = "issue" /\ \A d \in Calls : d # c => call'[d] = call[d]
          /\ call'[c].at # "issue" /\ UNCHANGED history
      BY IssueRecordMoves DEF Becomes
    <2>3. \A d \in Calls : d # c => ~(call'[d].at = "issue" \/ (call'[d].at = "persist" /\ Req(d)'.op = "issue"))
      BY <2>1, <2>2 DEF Issues
    <2>4. CASE NoRoom(c)
      <3>1. call'[c].at = "done" /\ UNCHANGED <<live, idem, obj>> BY <2>4, IssueRecordMoves DEF Becomes
      <3> QED BY <2>1, <2>2, <2>3, <3>1 DEF Issues
    <2>5. CASE ~NoRoom(c)
      <3> DEFINE i == Min(Intents \ Issued)
      <3>1. i \in Intents /\ ~Known(i) BY <2>5, IssuedAre DEF NoRoom
      <3>2. Recorded(c, i) /\ UNCHANGED lock /\ Req(c).key \in Keys
        BY <2>5, IssueRecordMoves, OpOf, PlanFacts DEF Places
      <3> HIDE DEF i
      <3>3. /\ live' = live \union {i} /\ idem' = [idem EXCEPT ![Req(c).key] = i]
            /\ (\A j \in Intents : j # i => obj'[j] = obj[j]) /\ obj'[i].key = Req(c).key
        BY <3>2 DEF Recorded, Rewritten
      <3>4. idem[Req(c).key] = 0 /\ lock = c BY <2>2 DEF Issues
      <3>5. \A j \in live : j \in Intents /\ j # 0 /\ obj[j].key \in Keys /\ j # i
        BY <3>1, FileFacts DEF Records, Types
      <3>6. ~history'.undead => \A j \in live' : idem'[obj'[j].key] = j
        BY <2>2, <3>2, <3>3, <3>4, <3>5 DEF Issues, Types
      <3>7. \A d \in Calls : call'[d].at # "issue" BY <2>2, <2>3
      <3> QED BY <2>1, <2>3, <3>2, <3>4, <3>6, <3>7 DEF Issues
    <2> QED BY <2>4, <2>5
  <1>IssuePersist. ASSUME NEW c \in Calls, IssuePersist(c) PROVE Issues'
    <2> USE <1>IssuePersist
    <2>1. \A d \in Calls : Req(d)' = Req(d) BY IssuePersistMoves DEF Req
    <2>2. /\ call[c].at = "persist" /\ Req(c).op = "issue" /\ \A d \in Calls : d # c => call'[d] = call[d]
          /\ call'[c].at = "done" /\ UNCHANGED <<live, idem, obj, history>>
      BY IssuePersistMoves DEF Becomes
    <2>3. \A d \in Calls : ~(call'[d].at = "issue" \/ (call'[d].at = "persist" /\ Req(d)'.op = "issue"))
      BY <2>1, <2>2 DEF Issues
    <2> QED BY <2>2, <2>3 DEF Issues
  <1>CallStaged. ASSUME NEW c \in Calls, CallStaged(c) PROVE Issues'
    <2> USE <1>CallStaged
    <2>2. IssuesFrame
      BY CallStagedMoves DEF Becomes, Types, IssuesFrame, Refreshed, Marked, Rewritten, Observed
    <2> QED BY <2>2, IssuesKept
  <1>CallMap. ASSUME NEW c \in Calls, CallMap(c) PROVE Issues'
    <2> USE <1>CallMap
    <2>1. call[c].i \in Intents /\ RemovedFromMap(call[c].i) /\ UNCHANGED <<plan, lock, obj>>
      BY CallMapMoves, HasIntent DEF Removing
    <2>2. \A d \in Calls : /\ call'[d].at = "issue" => call[d].at = "issue" /\ call'[d].reserved = call[d].reserved
                           /\ call'[d].at = "persist" /\ Req(d).op = "issue" => call[d].at = "persist"
      BY CallMapMoves DEF Becomes
    <2> QED BY <2>1, <2>2, IssuesRemoveMap
  <1>CallDir. ASSUME NEW c \in Calls, CallDir(c) PROVE Issues'
    <2> USE <1>CallDir
    <2>2. IssuesFrame BY CallDirMoves DEF Becomes, Types, IssuesFrame, Refreshed, Marked, Rewritten, Observed
    <2> QED BY <2>2, IssuesKept
  <1>AcceptWrite. ASSUME NEW c \in Calls, AcceptWrite(c) PROVE Issues'
    <2> USE <1>AcceptWrite
    <2>2. IssuesFrame
      BY AcceptWriteMoves DEF Becomes, Types, IssuesFrame, Refreshed, Marked, Rewritten, Observed
    <2> QED BY <2>2, IssuesKept
  <1>AcceptMark. ASSUME NEW c \in Calls, AcceptMark(c) PROVE Issues'
    <2> USE <1>AcceptMark
    <2> Place(c) BY DEF Places
    <2>2. Req(c).op # "issue" BY AcceptMarkMoves, OpOf DEF Begins
    <2>3. IssuesFrame
      BY <2>2, AcceptMarkMoves DEF Becomes, IssuesFrame, Refreshed, Marked, Rewritten, Observed
    <2> QED BY <2>3, IssuesKept
  <1>AcceptPersist. ASSUME NEW c \in Calls, AcceptPersist(c) PROVE Issues'
    <2> USE <1>AcceptPersist
    <2>2. IssuesFrame
      BY AcceptPersistMoves DEF Becomes, Types, IssuesFrame, Refreshed, Marked, Rewritten, Observed
    <2> QED BY <2>2, IssuesKept
  <1>Cancel. ASSUME NEW c \in Calls, NEW i \in Intents, Cancel(c, i) PROVE Issues'
    <2> USE <1>Cancel
    <2>2. IssuesFrame BY CancelMoves DEF Becomes, Types, IssuesFrame, Refreshed, Marked, Rewritten, Observed
    <2> QED BY <2>2, IssuesKept
  <1>AcceptCheck. ASSUME NEW c \in Calls, NEW i \in Intents, AcceptCheck(c, i) PROVE Issues'
    <2> USE <1>AcceptCheck
    <2> Place(c) BY DEF Places
    <2>2. Req(c).op # "issue" BY AcceptCheckMoves, OpOf DEF Begins
    <2>3. IssuesFrame
      BY <2>2, AcceptCheckMoves DEF Becomes, IssuesFrame, Refreshed, Marked, Rewritten, Observed
    <2> QED BY <2>3, IssuesKept
  <1>prepareResolve. ASSUME NEW c \in Calls, NEW i \in Intents, prepareResolve(c, i) PROVE Issues'
    <2> USE <1>prepareResolve
    <2>2. IssuesFrame
      BY prepareResolveMoves DEF Becomes, Types, IssuesFrame, Refreshed, Marked, Rewritten, Observed
    <2> QED BY <2>2, IssuesKept
  <1>StageFile. ASSUME NEW c \in Calls, StageFile(c) PROVE Issues'
    <2> USE <1>StageFile
    <2>2. IssuesFrame
      BY StageFileMoves DEF Becomes, Types, IssuesFrame, Refreshed, Marked, Rewritten, Observed
    <2> QED BY <2>2, IssuesKept
  <1>MarkPrepared. ASSUME NEW c \in Calls, MarkPrepared(c) PROVE Issues'
    <2> USE <1>MarkPrepared
    <2> Place(c) BY DEF Places
    <2>2. Req(c).op # "issue" BY MarkPreparedMoves, OpOf DEF Begins
    <2>3. IssuesFrame
      BY <2>2, MarkPreparedMoves DEF Becomes, IssuesFrame, Refreshed, Marked, Rewritten, Observed
    <2> QED BY <2>3, IssuesKept
  <1>PreparedPersist. ASSUME NEW c \in Calls, PreparedPersist(c) PROVE Issues'
    <2> USE <1>PreparedPersist
    <2>2. IssuesFrame
      BY PreparedPersistMoves DEF Becomes, Types, IssuesFrame, Refreshed, Marked, Rewritten, Observed
    <2> QED BY <2>2, IssuesKept
  <1>resolveFlowStep. ASSUME NEW c \in Calls, resolveFlowStep(c) PROVE Issues'
    <2> USE <1>resolveFlowStep
    <2>2. IssuesFrame
      BY resolveFlowStepMoves DEF Becomes, Types, IssuesFrame, Refreshed, Marked, Rewritten, Observed
    <2> QED BY <2>2, IssuesKept
  <1>PromoteRead. ASSUME NEW c \in Calls, PromoteRead(c) PROVE Issues'
    <2> USE <1>PromoteRead
    <2>2. IssuesFrame
      BY PromoteReadMoves DEF Becomes, Types, IssuesFrame, Refreshed, Marked, Rewritten, Observed
    <2> QED BY <2>2, IssuesKept
  <1>PromoteCopy. ASSUME NEW c \in Calls, PromoteCopy(c) PROVE Issues'
    <2> USE <1>PromoteCopy
    <2>2. IssuesFrame
      BY PromoteCopyMoves DEF Becomes, Types, IssuesFrame, Refreshed, Marked, Rewritten, Observed
    <2> QED BY <2>2, IssuesKept
  <1>PromoteUnlink. ASSUME NEW c \in Calls, PromoteUnlink(c) PROVE Issues'
    <2> USE <1>PromoteUnlink
    <2>2. IssuesFrame
      BY PromoteUnlinkMoves DEF Becomes, Types, IssuesFrame, Refreshed, Marked, Rewritten, Observed
    <2> QED BY <2>2, IssuesKept
  <1>ResolveMemo. ASSUME NEW c \in Calls, ResolveMemo(c) PROVE Issues'
    <2> USE <1>ResolveMemo
    <2>2. IssuesFrame
      BY ResolveMemoMoves DEF Becomes, Types, IssuesFrame, Refreshed, Marked, Rewritten, Observed
    <2> QED BY <2>2, IssuesKept
  <1>ResolveExec. ASSUME NEW c \in Calls, ResolveExec(c) PROVE Issues'
    <2> USE <1>ResolveExec
    <2>2. IssuesFrame
      BY ResolveExecMoves DEF Becomes, Types, IssuesFrame, Refreshed, Marked, Rewritten, Observed
    <2> QED BY <2>2, IssuesKept
  <1>DispatchBegin. ASSUME NEW c \in Calls, DispatchBegin(c) PROVE Issues'
    <2> USE <1>DispatchBegin
    <2>2. IssuesFrame
      BY DispatchBeginMoves DEF Becomes, Types, IssuesFrame, Refreshed, Marked, Rewritten, Observed
    <2> QED BY <2>2, IssuesKept
  <1>materializeConsumerCopy. ASSUME NEW c \in Calls, materializeConsumerCopy(c) PROVE Issues'
    <2> USE <1>materializeConsumerCopy
    <2>2. IssuesFrame
      BY materializeConsumerCopyMoves DEF Becomes, Types, IssuesFrame, Refreshed, Marked, Rewritten, Observed
    <2> QED BY <2>2, IssuesKept
  <1>DispatchSpawn. ASSUME NEW c \in Calls, DispatchSpawn(c) PROVE Issues'
    <2> USE <1>DispatchSpawn
    <2>2. IssuesFrame
      BY DispatchSpawnMoves DEF Becomes, Types, IssuesFrame, Refreshed, Marked, Rewritten, Observed
    <2> QED BY <2>2, IssuesKept
  <1>StoreBegin. ASSUME NEW c \in Calls, StoreBegin(c) PROVE Issues'
    <2> USE <1>StoreBegin
    <2>2. IssuesFrame
      BY StoreBeginMoves DEF Becomes, Types, IssuesFrame, Refreshed, Marked, Rewritten, Observed
    <2> QED BY <2>2, IssuesKept
  <1>PutFind. ASSUME NEW c \in Calls, PutFind(c) PROVE Issues'
    <2> USE <1>PutFind
    <2>2. IssuesFrame BY PutFindMoves DEF Becomes, Types, IssuesFrame, Refreshed, Marked, Rewritten, Observed
    <2> QED BY <2>2, IssuesKept
  <1>PutBytes. ASSUME NEW c \in Calls, PutBytes(c) PROVE Issues'
    <2> USE <1>PutBytes
    <2>2. IssuesFrame BY PutBytesMoves DEF Becomes, Types, IssuesFrame, Refreshed, Marked, Rewritten, Observed
    <2> QED BY <2>2, IssuesKept
  <1>PutRow. ASSUME NEW c \in Calls, PutRow(c) PROVE Issues'
    <2> USE <1>PutRow
    <2>2. IssuesFrame BY PutRowMoves DEF Becomes, Types, IssuesFrame, Refreshed, Marked, Rewritten, Observed
    <2> QED BY <2>2, IssuesKept
  <1>GcList. ASSUME NEW c \in Calls, GcList(c) PROVE Issues'
    <2> USE <1>GcList
    <2>2. IssuesFrame BY GcListMoves DEF Becomes, Types, IssuesFrame, Refreshed, Marked, Rewritten, Observed
    <2> QED BY <2>2, IssuesKept
  <1>GcBytes. ASSUME NEW c \in Calls, GcBytes(c) PROVE Issues'
    <2> USE <1>GcBytes
    <2>2. IssuesFrame BY GcBytesMoves DEF Becomes, Types, IssuesFrame, Refreshed, Marked, Rewritten, Observed
    <2> QED BY <2>2, IssuesKept
  <1>GcRow. ASSUME NEW c \in Calls, GcRow(c) PROVE Issues'
    <2> USE <1>GcRow
    <2>2. IssuesFrame BY GcRowMoves DEF Becomes, Types, IssuesFrame, Refreshed, Marked, Rewritten, Observed
    <2> QED BY <2>2, IssuesKept
  <1>LoadBytes. ASSUME NEW c \in Calls, LoadBytes(c) PROVE Issues'
    <2> USE <1>LoadBytes
    <2>2. IssuesFrame
      BY LoadBytesMoves DEF Becomes, Types, IssuesFrame, Refreshed, Marked, Rewritten, Observed
    <2> QED BY <2>2, IssuesKept
  <1>LoadRow. ASSUME NEW c \in Calls, NEW t \in Transfers, LoadRow(c, t) PROVE Issues'
    <2> USE <1>LoadRow
    <2>2. IssuesFrame BY LoadRowMoves, Zenon DEF Becomes, Types, IssuesFrame, Refreshed, Marked, Rewritten, Observed
    <2> QED BY <2>2, IssuesKept
  <1>LeaseLapses. ASSUME NEW i \in Intents, LeaseLapses(i) PROVE Issues'
    <2> USE <1>LeaseLapses
    <2>2. IssuesFrame
      BY LeaseLapsesMoves DEF Becomes, Types, IssuesFrame, Refreshed, Marked, Rewritten, Observed
    <2> QED BY <2>2, IssuesKept
  <1>sweepExpired. ASSUME NEW i \in Intents, sweepExpired(i) PROVE Issues'
    <2> USE <1>sweepExpired
    <2>2. IssuesFrame
      BY sweepExpiredMoves DEF Becomes, Types, IssuesFrame, Refreshed, Marked, Rewritten, Observed
    <2> QED BY <2>2, IssuesKept
  <1>ReapStaged. ASSUME NEW i \in Intents, ReapStaged(i) PROVE Issues'
    <2> USE <1>ReapStaged
    <2>2. IssuesFrame
      BY ReapStagedMoves DEF Becomes, Types, IssuesFrame, Refreshed, Marked, Rewritten, Observed
    <2> QED BY <2>2, IssuesKept
  <1>ReapMap. ASSUME NEW i \in Intents, ReapMap(i) PROVE Issues'
    <2> USE <1>ReapMap
    <2>1. RemovedFromMap(i) /\ UNCHANGED <<plan, call, lock, obj>> BY ReapMapMoves
    <2> QED BY <2>1, IssuesRemoveMap
  <1>ReapDir. ASSUME NEW i \in Intents, ReapDir(i) PROVE Issues'
    <2> USE <1>ReapDir
    <2>2. IssuesFrame BY ReapDirMoves DEF Becomes, Types, IssuesFrame, Refreshed, Marked, Rewritten, Observed
    <2> QED BY <2>2, IssuesKept
  <1>Expires. ASSUME NEW t \in Transfers, Expires(t) PROVE Issues'
    <2> USE <1>Expires
    <2>2. IssuesFrame BY ExpiresMoves DEF Becomes, Types, IssuesFrame, Refreshed, Marked, Rewritten, Observed
    <2> QED BY <2>2, IssuesKept
  <1>Crash. ASSUME Crash PROVE Issues'
    <2> USE <1>Crash
    <2>1. \A d \in Calls : ~(call'[d].at = "issue" \/ call'[d].at = "persist") BY CrashCalls
    <2>2. ASSUME ~history'.undead, NEW i \in live'
          PROVE  idem'[obj'[i].key] = i
      <3>1. /\ ~history.undead /\ i \in live /\ live' \subseteq live /\ live \subseteq Intents
            /\ obj'[i] = disk[i] /\ disk[i].key = obj[i].key /\ obj[i].key \in Keys
            /\ \A j \in live' : disk[j].key = obj[j].key
        BY <2>2, CrashLoads
      <3> DEFINE k == obj[i].key
                 B == {j \in live' : disk[j].key = k}
      <3>2. B = {i} BY <2>2, <3>1 DEF Issues
      <3>3. B \subseteq Intents BY <3>1
      <3>4. idem'[k] = Max(B \union {0}) BY <3>1, CrashMoves
      <3>5. Max(B \union {0}) \in B
        <4> HIDE DEF B
        <4>1. B # {} BY <3>2
        <4> QED BY <3>3, <4>1, GreatestIsIn
      <3> QED BY <3>1, <3>2, <3>4, <3>5
    <2> QED BY <2>1, <2>2 DEF Issues
  <1>1. CASE UNCHANGED vars BY <1>1, IssuesKept DEF vars, intents, tree, run, exchange, IssuesFrame
  <1>2. ASSUME NEW c \in Calls, IntentStep(c) PROVE Issues'
    BY <1>2, <1>IssueRoute, <1>IssueCheck, <1>IssueRecord, <1>IssuePersist, <1>CallStaged, <1>CallMap, <1>CallDir,
       <1>AcceptWrite, <1>AcceptMark, <1>AcceptPersist, <1>Cancel, <1>AcceptCheck DEF IntentStep
  <1>3. ASSUME NEW c \in Calls, ResolveStep(c) PROVE Issues'
    BY <1>3, <1>prepareResolve, <1>StageFile, <1>MarkPrepared, <1>PreparedPersist, <1>resolveFlowStep, <1>PromoteRead,
       <1>PromoteCopy, <1>PromoteUnlink, <1>ResolveMemo, <1>ResolveExec, <1>DispatchBegin, <1>materializeConsumerCopy,
       <1>DispatchSpawn DEF ResolveStep
  <1>4. ASSUME NEW c \in Calls, ExchangeStep(c) PROVE Issues'
    BY <1>4, <1>StoreBegin, <1>PutFind, <1>PutBytes, <1>PutRow, <1>GcList, <1>GcBytes, <1>GcRow, <1>LoadBytes,
       <1>LoadRow DEF ExchangeStep
  <1>5. ASSUME NEW i \in Intents, LeaseLapses(i) \/ Reap(i) PROVE Issues'
    BY <1>5, <1>LeaseLapses, <1>sweepExpired, <1>ReapStaged, <1>ReapMap, <1>ReapDir DEF Reap
  <1>6. ASSUME NEW t \in Transfers, Expires(t) PROVE Issues'
    BY <1>6, <1>Expires
  <1>7. ASSUME Crash PROVE Issues'
    BY <1>7, <1>Crash
  <1> QED BY <1>1, <1>2, <1>3, <1>4, <1>5, <1>6, <1>7 DEF Next

LEMMA RoomStep ==
  ASSUME Base, Fresh, Issues, Room, [Next]_vars
  PROVE  Room'
  <1> Types /\ Places /\ Records /\ Removals BY DEF Base
  <1>IssueRoute. ASSUME NEW c \in Calls, IssueRoute(c) PROVE Room'
    <2> USE <1>IssueRoute
    <2> Place(c) BY DEF Places
    <2>2. Promoting(c)' => PromotingStill(c)
      BY IssueRouteMoves, OpOf DEF Becomes, Begins, At, Promoting, PromotingStill, Promotes, Registers, Place, Req
    <2>3. RoomFrame
      BY <2>2, IssueRouteMoves DEF Becomes, RoomFrame, Promoting, PromotingStill, Req, Refreshed, Marked, Rewritten,
         Observed
    <2> QED BY <2>3, RoomKept
  <1>IssueCheck. ASSUME NEW c \in Calls, IssueCheck(c) PROVE Room'
    <2> USE <1>IssueCheck
    <2> Place(c) BY DEF Places
    <2>2. Promoting(c)' => PromotingStill(c)
      BY IssueCheckMoves, OpOf DEF Becomes, Begins, At, Promoting, PromotingStill, Promotes, Registers, Place, Req
    <2>3. RoomFrame
      BY <2>2, IssueCheckMoves DEF Becomes, RoomFrame, Promoting, PromotingStill, Req, Refreshed, Marked, Rewritten,
         Observed
    <2> QED BY <2>3, RoomKept
  <1>IssueRecord. ASSUME NEW c \in Calls, IssueRecord(c) PROVE Room'
    <2> USE <1>IssueRecord
    <2>1. /\ call[c].at = "issue" /\ UNCHANGED <<plan, disk, stable, history>>
          /\ \A d \in Calls : d # c => call'[d] = call[d]
          /\ call'[c].at \in {"done", "persist"}
      BY IssueRecordMoves DEF Becomes
    <2>2. Req(c).op = "issue" BY <2>1, OpOf DEF Places
    <2>3. \A d \in Calls : Promoting(d)' => d # c /\ Promoting(d) /\ call'[d] = call[d]
      BY <2>1, <2>2 DEF Promoting, Req
    <2>4. CASE NoRoom(c)
      <3>1. RoomFrame BY <2>1, <2>3, <2>4, IssueRecordMoves DEF RoomFrame, PromotingStill
      <3> QED BY <3>1, RoomKept
    <2>5. CASE ~NoRoom(c)
      <3> DEFINE i == Min(Intents \ Issued)
      <3>1. i \in Intents /\ ~Known(i) BY <2>5, IssuedAre DEF NoRoom
      <3>2. Recorded(c, i) BY <2>5, IssueRecordMoves
      <3> HIDE DEF i
      <3>3. /\ live' = live \union {i} /\ (\A j \in Intents : j # i => obj'[j] = obj[j]) /\ i \notin live
            /\ disk[i].state # "prepared" /\ live \subseteq Intents
        BY <3>1, <3>2 DEF Recorded, Rewritten, Records, Types, Known, None
      <3>4. ASSUME ~history.cut, ~history.undead
            PROVE  CallsRoom /\ StatesRoom /\ SpaceRoom
        <4>1. CallsRoom
          <5>1. \A d \in Calls : Promoting(d) => call[d].i \in live /\ call[d].i # i /\ call[d].i \in Intents
            BY <3>3, <3>4 DEF Room
          <5> QED BY <2>1, <2>3, <3>3, <3>4, <5>1 DEF CallsRoom, Room
        <4>2. StatesRoom BY <2>1, <3>3, <3>4 DEF StatesRoom, Room
        <4>3. OwingThen = Owing \union {i} /\ i \notin Owing /\ Owing \subseteq live /\ stable' = stable
          BY <2>1, <3>3 DEF OwingThen, Owing
        <4>4. Reserved(OwingThen) = Reserved(Owing) + Size BY <3>1, <3>3, <4>3, ReservedAdds
        <4>5. Reserved(Owing) =< Reserved(live) /\ Reserved(Owing) \in Nat /\ Reserved(live) \in Nat
          BY <3>3, <4>3, ReservedGrows
        <4>6. live # Owing => Reserved(Owing) + Size =< Reserved(live)
          <5>1. live # Owing => \E j \in live : j \notin Owing BY <4>3
          <5> QED BY <3>3, <4>3, <5>1, ReservedLess
        <4>7. Reserved(live) =< call[c].reserved /\ call[c].reserved \in Nat
          BY <2>1, CallTypes DEF Issues, Types
        <4>8. /\ Cardinality(Present(work)) \in Nat /\ Cardinality(Present(stable)) \in Nat
              /\ Cardinality(Present(inputs)) \in Nat /\ Size \in Nat /\ plan.ceiling \in Nat
          BY PresentFits, FileFacts, PlanFacts
        <4>9. Cardinality(Present(stable)) + call[c].reserved + Size =< plan.ceiling
          <5>1. ~(Stored + call[c].reserved + Size > plan.ceiling) BY <2>5 DEF NoRoom
          <5> QED BY <4>7, <4>8, <5>1 DEF Stored
        <4>10. Cardinality(Present(stable')) + Reserved(OwingThen) =< plan.ceiling
          BY <4>3, <4>4, <4>5, <4>7, <4>8, <4>9
        <4>11. live' # OwingThen => live # Owing BY <3>3, <4>3
        <4>12. live # Owing => Size + Reserved(OwingThen) =< plan.ceiling
          BY <4>4, <4>5, <4>6, <4>7, <4>8, <4>9
        <4> QED BY <4>1, <4>2, <4>10, <4>11, <4>12 DEF SpaceRoom
      <3> QED BY <2>1, <3>4, RoomNext
    <2> QED BY <2>4, <2>5
  <1>IssuePersist. ASSUME NEW c \in Calls, IssuePersist(c) PROVE Room'
    <2> USE <1>IssuePersist
    <2>1. call[c].i \in Intents /\ disk' = [disk EXCEPT ![call[c].i] = obj[call[c].i]] /\ UNCHANGED <<plan, live, obj, stable, history>>
      BY IssuePersistMoves, HasIntent DEF Removing
    <2>2. \A d \in Calls : d # c => call'[d] = call[d] /\ (Promoting(d)' <=> Promoting(d))
      BY <2>1, IssuePersistMoves DEF Becomes, Promoting, Req
    <2>3. call'[c].at = "done" BY IssuePersistMoves DEF Becomes
    <2>4. ~Promoting(c)' BY <2>3 DEF Promoting
    <2> QED BY <2>1, <2>2, <2>4, RoomPersist
  <1>CallStaged. ASSUME NEW c \in Calls, CallStaged(c) PROVE Room'
    <2> USE <1>CallStaged
    <2> Place(c) BY DEF Places
    <2>2. Promoting(c)' => PromotingStill(c)
      BY CallStagedMoves, OpOf DEF Becomes, Begins, At, Promoting, PromotingStill, Promotes, Registers, Place, Req
    <2>3. RoomFrame
      BY <2>2, CallStagedMoves DEF Becomes, RoomFrame, Promoting, PromotingStill, Req, Refreshed, Marked, Rewritten,
         Observed
    <2> QED BY <2>3, RoomKept
  <1>CallMap. ASSUME NEW c \in Calls, CallMap(c) PROVE Room'
    <2> USE <1>CallMap
    <2>1. call[c].i \in Intents /\ RemovedFromMap(call[c].i) /\ UNCHANGED <<plan, obj, disk, stable>>
      BY CallMapMoves, HasIntent DEF Removing
    <2>2. Promoting(c)' => PromotingStill(c)
      BY CallMapMoves, OpOf DEF Becomes, Begins, At, Promoting, PromotingStill, Promotes, Registers, Place, Places,
         Req
    <2>3. \A d \in Calls : Promoting(d)' => PromotingStill(d)
      BY <2>2, CallMapMoves DEF Becomes, Promoting, PromotingStill, Req
    <2> QED BY <2>1, <2>3, RoomRemoveMap
  <1>CallDir. ASSUME NEW c \in Calls, CallDir(c) PROVE Room'
    <2> USE <1>CallDir
    <2>1. /\ call[c].i \in Intents /\ call[c].i \in history.gone /\ disk' = [disk EXCEPT ![call[c].i] = NoRec]
          /\ UNCHANGED <<plan, live, obj, stable, history>>
      BY CallDirMoves, HasIntent DEF Removing, Removals
    <2>2. Promoting(c)' => PromotingStill(c)
      BY CallDirMoves, OpOf DEF Becomes, Begins, At, Promoting, PromotingStill, Promotes, Registers, Place, Places,
         Req
    <2>3. \A d \in Calls : Promoting(d)' => PromotingStill(d)
      BY <2>2, CallDirMoves DEF Becomes, Promoting, PromotingStill, Req
    <2> QED BY <2>1, <2>3, RoomRemoveDir
  <1>AcceptWrite. ASSUME NEW c \in Calls, AcceptWrite(c) PROVE Room'
    <2> USE <1>AcceptWrite
    <2> Place(c) BY DEF Places
    <2>2. Promoting(c)' => PromotingStill(c)
      BY AcceptWriteMoves, OpOf DEF Becomes, Begins, At, Promoting, PromotingStill, Promotes, Registers, Place, Req
    <2>3. RoomFrame
      BY <2>2, AcceptWriteMoves, Zenon DEF Becomes, RoomFrame, Promoting, PromotingStill, Req, Refreshed, Marked, Rewritten,
         Observed
    <2> QED BY <2>3, RoomKept
  <1>AcceptMark. ASSUME NEW c \in Calls, AcceptMark(c) PROVE Room'
    <2> USE <1>AcceptMark
    <2> Place(c) BY DEF Places
    <2>2. Promoting(c)' => PromotingStill(c)
      BY AcceptMarkMoves, OpOf DEF Becomes, Begins, At, Promoting, PromotingStill, Promotes, Registers, Place, Req
    <2>3. RoomFrame
      BY <2>2, AcceptMarkMoves DEF Becomes, RoomFrame, Promoting, PromotingStill, Req, Refreshed, Marked, Rewritten,
         Observed
    <2> QED BY <2>3, RoomKept
  <1>AcceptPersist. ASSUME NEW c \in Calls, AcceptPersist(c) PROVE Room'
    <2> USE <1>AcceptPersist
    <2>1. call[c].i \in Intents /\ disk' = [disk EXCEPT ![call[c].i] = obj[call[c].i]] /\ UNCHANGED <<plan, live, obj, stable, history>>
      BY AcceptPersistMoves, HasIntent DEF Removing
    <2>2. \A d \in Calls : d # c => call'[d] = call[d] /\ (Promoting(d)' <=> Promoting(d))
      BY <2>1, AcceptPersistMoves DEF Becomes, Promoting, Req
    <2>3. call'[c].at = "done" BY AcceptPersistMoves DEF Becomes
    <2>4. ~Promoting(c)' BY <2>3 DEF Promoting
    <2> QED BY <2>1, <2>2, <2>4, RoomPersist
  <1>Cancel. ASSUME NEW c \in Calls, NEW i \in Intents, Cancel(c, i) PROVE Room'
    <2> USE <1>Cancel
    <2> Place(c) BY DEF Places
    <2>2. Promoting(c)' => PromotingStill(c)
      BY CancelMoves, OpOf DEF Becomes, Begins, At, Promoting, PromotingStill, Promotes, Registers, Place, Req
    <2>3. RoomFrame
      BY <2>2, CancelMoves DEF Becomes, RoomFrame, Promoting, PromotingStill, Req, Refreshed, Marked, Rewritten,
         Observed
    <2> QED BY <2>3, RoomKept
  <1>AcceptCheck. ASSUME NEW c \in Calls, NEW i \in Intents, AcceptCheck(c, i) PROVE Room'
    <2> USE <1>AcceptCheck
    <2> Place(c) BY DEF Places
    <2>2. Promoting(c)' => PromotingStill(c)
      BY AcceptCheckMoves, OpOf DEF Becomes, Begins, At, Promoting, PromotingStill, Promotes, Registers, Place, Req
    <2>3. RoomFrame
      BY <2>2, AcceptCheckMoves DEF Becomes, RoomFrame, Promoting, PromotingStill, Req, Refreshed, Marked, Rewritten,
         Observed
    <2> QED BY <2>3, RoomKept
  <1>prepareResolve. ASSUME NEW c \in Calls, NEW i \in Intents, prepareResolve(c, i) PROVE Room'
    <2> USE <1>prepareResolve
    <2>1. /\ call[c].at = "idle" /\ Req(c).op = "resolve" /\ UNCHANGED <<plan, live, obj, disk, stable>>
          /\ \A d \in Calls : d # c => call'[d] = call[d]
          /\ (history'.cut <=> history.cut) /\ (history'.undead <=> history.undead)
      BY prepareResolveMoves DEF Becomes, Begins, At, Observed
    <2>2. call[c].todo = {} BY <2>1 DEF Fresh, Idle
    <2>3. Promoting(c)' => call'[c].at = "stage" /\ call'[c].i = i /\ i \in live
      <3>1. call'[c].todo = {} BY <2>2, prepareResolveMoves DEF Becomes
      <3>2. call'[c].at \in {"flow", "done"} \/ (call'[c].at = "stage" /\ call'[c].i = i /\ i \in live)
        BY prepareResolveMoves DEF Becomes
      <3> QED BY <3>1, <3>2 DEF Promoting
    <2>4. \A d \in Calls : d # c => (Promoting(d)' <=> Promoting(d)) BY <2>1 DEF Promoting, Req
    <2>5. ASSUME ~history.cut, ~history.undead
          PROVE  CallsRoom /\ StatesRoom /\ SpaceRoom
      <3>1. CallsRoom BY <2>1, <2>3, <2>4, <2>5 DEF CallsRoom, Room, Promotes, Registers
      <3>2. StatesRoom BY <2>1, <2>5 DEF StatesRoom, Room
      <3>3. OwingThen = Owing BY <2>1 DEF OwingThen, Owing
      <3>4. SpaceRoom BY <2>1, <2>5, <3>3, SpaceKept
      <3> QED BY <3>1, <3>2, <3>4
    <2> QED BY <2>1, <2>5, RoomNext
  <1>StageFile. ASSUME NEW c \in Calls, StageFile(c) PROVE Room'
    <2> USE <1>StageFile
    <2> Place(c) BY DEF Places
    <2>2. Promoting(c)' => PromotingStill(c)
      BY StageFileMoves, OpOf DEF Becomes, Begins, At, Promoting, PromotingStill, Promotes, Registers, Place, Req
    <2>3. RoomFrame
      BY <2>2, StageFileMoves DEF Becomes, RoomFrame, Promoting, PromotingStill, Req, Refreshed, Marked, Rewritten,
         Observed
    <2> QED BY <2>3, RoomKept
  <1>MarkPrepared. ASSUME NEW c \in Calls, MarkPrepared(c) PROVE Room'
    <2> USE <1>MarkPrepared
    <2>1. /\ call[c].at = "prepared" /\ UNCHANGED <<plan, live, disk, stable, history>>
          /\ Refreshed(call[c].i, "prepared") /\ \A d \in Calls : d # c => call'[d] = call[d]
          /\ call'[c].at = "persist" /\ call'[c].i = call[c].i
      BY MarkPreparedMoves DEF Becomes
    <2>2. call[c].i \in Intents /\ Promoting(c) BY <2>1, HasIntent, OpOf DEF Promoting, Places
    <2>3. obj'[call[c].i].state = "prepared" /\ \A j \in Intents : j # call[c].i => obj'[j] = obj[j]
      BY <2>1 DEF Refreshed, Rewritten
    <2>4. \A d \in Calls : d # c => (Promoting(d)' <=> Promoting(d)) BY <2>1 DEF Promoting, Req
    <2>5. ASSUME ~history.cut, ~history.undead
          PROVE  CallsRoom /\ StatesRoom /\ SpaceRoom
      <3>1. \A j \in live : j \in Intents BY DEF Types
      <3>2. CallsRoom BY <2>1, <2>2, <2>3, <2>4, <2>5, <3>1 DEF CallsRoom, Room, Promotes, Registers
      <3>3. StatesRoom BY <2>1, <2>3, <2>5, <3>1 DEF StatesRoom, Room
      <3>4. OwingThen = Owing BY <2>1 DEF OwingThen, Owing
      <3>5. SpaceRoom BY <2>1, <2>5, <3>4, SpaceKept
      <3> QED BY <3>2, <3>3, <3>5
    <2> QED BY <2>1, <2>5, RoomNext
  <1>PreparedPersist. ASSUME NEW c \in Calls, PreparedPersist(c) PROVE Room'
    <2> USE <1>PreparedPersist
    <2>1. call[c].i \in Intents /\ disk' = [disk EXCEPT ![call[c].i] = obj[call[c].i]] /\ UNCHANGED <<plan, live, obj, stable, history>>
      BY PreparedPersistMoves, HasIntent DEF Removing
    <2>2. \A d \in Calls : d # c => call'[d] = call[d] /\ (Promoting(d)' <=> Promoting(d))
      BY <2>1, PreparedPersistMoves DEF Becomes, Promoting, Req
    <2>3. call[c].at = "persist" /\ call'[c].at = "flow" /\ call'[c].i = call[c].i /\ Promoting(c)
      BY PreparedPersistMoves DEF Becomes, Promoting, Places, Place
    <2> QED BY <2>1, <2>2, <2>3, RoomPersist
  <1>resolveFlowStep. ASSUME NEW c \in Calls, resolveFlowStep(c) PROVE Room'
    <2> USE <1>resolveFlowStep
    <2> Place(c) BY DEF Places
    <2>2. Promoting(c)' => PromotingStill(c)
      BY resolveFlowStepMoves, OpOf DEF Becomes, Begins, At, Promoting, PromotingStill, Promotes, Registers, Place,
         Req
    <2>3. RoomFrame
      BY <2>2, resolveFlowStepMoves DEF Becomes, RoomFrame, Promoting, PromotingStill, Req, Refreshed, Marked,
         Rewritten, Observed
    <2> QED BY <2>3, RoomKept
  <1>PromoteRead. ASSUME NEW c \in Calls, PromoteRead(c) PROVE Room'
    <2> USE <1>PromoteRead
    <2> Place(c) BY DEF Places
    <2>2. Promoting(c)' => PromotingStill(c)
      BY PromoteReadMoves, OpOf DEF Becomes, Begins, At, Promoting, PromotingStill, Promotes, Registers, Place, Req
    <2>3. RoomFrame
      BY <2>2, PromoteReadMoves DEF Becomes, RoomFrame, Promoting, PromotingStill, Req, Refreshed, Marked, Rewritten,
         Observed
    <2> QED BY <2>3, RoomKept
  <1>PromoteCopy. ASSUME NEW c \in Calls, PromoteCopy(c) PROVE Room'
    <2> USE <1>PromoteCopy
    <2>1. /\ call[c].at = "copy" /\ UNCHANGED <<plan, live, obj, disk, history>>
          /\ \A d \in Calls : d # c => call'[d] = call[d]
      BY PromoteCopyMoves DEF Becomes
    <2>2. Promoting(c)' => PromotingStill(c)
      BY PromoteCopyMoves, OpOf DEF Becomes, Begins, At, Promoting, PromotingStill, Promotes, Registers, Place,
         Places, Req
    <2>3. \A d \in Calls : Promoting(d)' => PromotingStill(d)
      BY <2>2, PromoteCopyMoves DEF Becomes, Promoting, PromotingStill, Req
    <2>4. Promoting(c) BY <2>1, OpOf DEF Promoting, Places, Place, Promotes
    <2>5. ASSUME ~history.cut, ~history.undead
          PROVE  CallsRoom /\ StatesRoom /\ SpaceRoom
      <3>1. CallsRoom /\ StatesRoom BY <2>1, <2>3, <2>5 DEF CallsRoom, StatesRoom, Room, PromotingStill
      <3>2. OwingThen = Owing /\ live' = live BY <2>1 DEF OwingThen, Owing
      <3>3. call[c].i \in live /\ disk[call[c].i].state = "prepared" BY <2>1, <2>4, <2>5 DEF Room, Promotes
      <3>4. live # Owing BY <3>3 DEF Owing
      <3>5. Size + Reserved(Owing) =< plan.ceiling BY <2>5, <3>4 DEF Room
      <3>6. /\ Cardinality(Present(stable')) \in Nat /\ Cardinality(Present(stable')) =< Size /\ Size \in Nat
            /\ Reserved(Owing) \in Nat /\ plan.ceiling \in Nat
        <4>1. Owing \subseteq Intents BY DEF Owing, Types
        <4> QED BY <4>1, PresentFits, FileFacts, PlanFacts, ReservedTypes
      <3> QED BY <3>1, <3>2, <3>5, <3>6 DEF SpaceRoom
    <2> QED BY <2>1, <2>5, RoomNext
  <1>PromoteUnlink. ASSUME NEW c \in Calls, PromoteUnlink(c) PROVE Room'
    <2> USE <1>PromoteUnlink
    <2> Place(c) BY DEF Places
    <2>2. Promoting(c)' => PromotingStill(c)
      BY PromoteUnlinkMoves, OpOf DEF Becomes, Begins, At, Promoting, PromotingStill, Promotes, Registers, Place, Req
    <2>3. RoomFrame
      BY <2>2, PromoteUnlinkMoves DEF Becomes, RoomFrame, Promoting, PromotingStill, Req, Refreshed, Marked,
         Rewritten, Observed
    <2> QED BY <2>3, RoomKept
  <1>ResolveMemo. ASSUME NEW c \in Calls, ResolveMemo(c) PROVE Room'
    <2> USE <1>ResolveMemo
    <2> Place(c) BY DEF Places
    <2>2. Promoting(c)' => PromotingStill(c)
      BY ResolveMemoMoves, OpOf DEF Becomes, Begins, At, Promoting, PromotingStill, Promotes, Registers, Place, Req
    <2>3. RoomFrame
      BY <2>2, ResolveMemoMoves DEF Becomes, RoomFrame, Promoting, PromotingStill, Req, Refreshed, Marked, Rewritten,
         Observed
    <2> QED BY <2>3, RoomKept
  <1>ResolveExec. ASSUME NEW c \in Calls, ResolveExec(c) PROVE Room'
    <2> USE <1>ResolveExec
    <2> Place(c) BY DEF Places
    <2>2. Promoting(c)' => PromotingStill(c)
      BY ResolveExecMoves, OpOf DEF Becomes, Begins, At, Promoting, PromotingStill, Promotes, Registers, Place, Req
    <2>3. RoomFrame
      BY <2>2, ResolveExecMoves DEF Becomes, RoomFrame, Promoting, PromotingStill, Req, Refreshed, Marked, Rewritten,
         Observed
    <2> QED BY <2>3, RoomKept
  <1>DispatchBegin. ASSUME NEW c \in Calls, DispatchBegin(c) PROVE Room'
    <2> USE <1>DispatchBegin
    <2> Place(c) BY DEF Places
    <2>2. Promoting(c)' => PromotingStill(c)
      BY DispatchBeginMoves, OpOf DEF Becomes, Begins, At, Promoting, PromotingStill, Promotes, Registers, Place, Req
    <2>3. RoomFrame
      BY <2>2, DispatchBeginMoves DEF Becomes, RoomFrame, Promoting, PromotingStill, Req, Refreshed, Marked,
         Rewritten, Observed
    <2> QED BY <2>3, RoomKept
  <1>materializeConsumerCopy. ASSUME NEW c \in Calls, materializeConsumerCopy(c) PROVE Room'
    <2> USE <1>materializeConsumerCopy
    <2> Place(c) BY DEF Places
    <2>2. Promoting(c)' => PromotingStill(c)
      BY materializeConsumerCopyMoves, OpOf DEF Becomes, Begins, At, Promoting, PromotingStill, Promotes, Registers,
         Place, Req
    <2>3. RoomFrame
      BY <2>2, materializeConsumerCopyMoves DEF Becomes, RoomFrame, Promoting, PromotingStill, Req, Refreshed, Marked,
         Rewritten, Observed
    <2> QED BY <2>3, RoomKept
  <1>DispatchSpawn. ASSUME NEW c \in Calls, DispatchSpawn(c) PROVE Room'
    <2> USE <1>DispatchSpawn
    <2> Place(c) BY DEF Places
    <2>2. Promoting(c)' => PromotingStill(c)
      BY DispatchSpawnMoves, OpOf DEF Becomes, Begins, At, Promoting, PromotingStill, Promotes, Registers, Place, Req
    <2>3. RoomFrame
      BY <2>2, DispatchSpawnMoves DEF Becomes, RoomFrame, Promoting, PromotingStill, Req, Refreshed, Marked,
         Rewritten, Observed
    <2> QED BY <2>3, RoomKept
  <1>StoreBegin. ASSUME NEW c \in Calls, StoreBegin(c) PROVE Room'
    <2> USE <1>StoreBegin
    <2> Place(c) BY DEF Places
    <2>2. Promoting(c)' => PromotingStill(c)
      BY StoreBeginMoves, OpOf DEF Becomes, Begins, At, Promoting, PromotingStill, Promotes, Registers, Place, Req
    <2>3. RoomFrame
      BY <2>2, StoreBeginMoves DEF Becomes, RoomFrame, Promoting, PromotingStill, Req, Refreshed, Marked, Rewritten,
         Observed
    <2> QED BY <2>3, RoomKept
  <1>PutFind. ASSUME NEW c \in Calls, PutFind(c) PROVE Room'
    <2> USE <1>PutFind
    <2> Place(c) BY DEF Places
    <2>2. Promoting(c)' => PromotingStill(c)
      BY PutFindMoves, OpOf DEF Becomes, Begins, At, Promoting, PromotingStill, Promotes, Registers, Place, Req
    <2>3. RoomFrame
      BY <2>2, PutFindMoves DEF Becomes, RoomFrame, Promoting, PromotingStill, Req, Refreshed, Marked, Rewritten,
         Observed
    <2> QED BY <2>3, RoomKept
  <1>PutBytes. ASSUME NEW c \in Calls, PutBytes(c) PROVE Room'
    <2> USE <1>PutBytes
    <2> Place(c) BY DEF Places
    <2>2. Promoting(c)' => PromotingStill(c)
      BY PutBytesMoves, OpOf DEF Becomes, Begins, At, Promoting, PromotingStill, Promotes, Registers, Place, Req
    <2>3. RoomFrame
      BY <2>2, PutBytesMoves DEF Becomes, RoomFrame, Promoting, PromotingStill, Req, Refreshed, Marked, Rewritten,
         Observed
    <2> QED BY <2>3, RoomKept
  <1>PutRow. ASSUME NEW c \in Calls, PutRow(c) PROVE Room'
    <2> USE <1>PutRow
    <2> Place(c) BY DEF Places
    <2>2. Promoting(c)' => PromotingStill(c)
      BY PutRowMoves, OpOf DEF Becomes, Begins, At, Promoting, PromotingStill, Promotes, Registers, Place, Req
    <2>3. RoomFrame
      BY <2>2, PutRowMoves, Zenon DEF Becomes, RoomFrame, Promoting, PromotingStill, Req, Refreshed, Marked, Rewritten,
         Observed
    <2> QED BY <2>3, RoomKept
  <1>GcList. ASSUME NEW c \in Calls, GcList(c) PROVE Room'
    <2> USE <1>GcList
    <2> Place(c) BY DEF Places
    <2>2. Promoting(c)' => PromotingStill(c)
      BY GcListMoves, OpOf DEF Becomes, Begins, At, Promoting, PromotingStill, Promotes, Registers, Place, Req
    <2>3. RoomFrame
      BY <2>2, GcListMoves DEF Becomes, RoomFrame, Promoting, PromotingStill, Req, Refreshed, Marked, Rewritten,
         Observed
    <2> QED BY <2>3, RoomKept
  <1>GcBytes. ASSUME NEW c \in Calls, GcBytes(c) PROVE Room'
    <2> USE <1>GcBytes
    <2> Place(c) BY DEF Places
    <2>2. Promoting(c)' => PromotingStill(c)
      BY GcBytesMoves, OpOf DEF Becomes, Begins, At, Promoting, PromotingStill, Promotes, Registers, Place, Req
    <2>3. RoomFrame
      BY <2>2, GcBytesMoves DEF Becomes, RoomFrame, Promoting, PromotingStill, Req, Refreshed, Marked, Rewritten,
         Observed
    <2> QED BY <2>3, RoomKept
  <1>GcRow. ASSUME NEW c \in Calls, GcRow(c) PROVE Room'
    <2> USE <1>GcRow
    <2> Place(c) BY DEF Places
    <2>2. Promoting(c)' => PromotingStill(c)
      BY GcRowMoves, OpOf DEF Becomes, Begins, At, Promoting, PromotingStill, Promotes, Registers, Place, Req
    <2>3. RoomFrame
      BY <2>2, GcRowMoves DEF Becomes, RoomFrame, Promoting, PromotingStill, Req, Refreshed, Marked, Rewritten,
         Observed
    <2> QED BY <2>3, RoomKept
  <1>LoadBytes. ASSUME NEW c \in Calls, LoadBytes(c) PROVE Room'
    <2> USE <1>LoadBytes
    <2> Place(c) BY DEF Places
    <2>2. Promoting(c)' => PromotingStill(c)
      BY LoadBytesMoves, OpOf DEF Becomes, Begins, At, Promoting, PromotingStill, Promotes, Registers, Place, Req
    <2>3. RoomFrame
      BY <2>2, LoadBytesMoves DEF Becomes, RoomFrame, Promoting, PromotingStill, Req, Refreshed, Marked, Rewritten,
         Observed
    <2> QED BY <2>3, RoomKept
  <1>LoadRow. ASSUME NEW c \in Calls, NEW t \in Transfers, LoadRow(c, t) PROVE Room'
    <2> USE <1>LoadRow
    <2> Place(c) BY DEF Places
    <2>2. Promoting(c)' => PromotingStill(c)
      BY LoadRowMoves, OpOf DEF Becomes, Begins, At, Promoting, PromotingStill, Promotes, Registers, Place, Req
    <2>3. RoomFrame
      BY <2>2, LoadRowMoves, Zenon DEF Becomes, RoomFrame, Promoting, PromotingStill, Req, Refreshed, Marked, Rewritten,
         Observed
    <2> QED BY <2>3, RoomKept
  <1>LeaseLapses. ASSUME NEW i \in Intents, LeaseLapses(i) PROVE Room'
    <2> USE <1>LeaseLapses
    <2>2. RoomFrame
      BY LeaseLapsesMoves DEF RoomFrame, Promoting, PromotingStill, Req, Refreshed, Marked, Rewritten, Observed
    <2> QED BY <2>2, RoomKept
  <1>sweepExpired. ASSUME NEW i \in Intents, sweepExpired(i) PROVE Room'
    <2> USE <1>sweepExpired
    <2>2. RoomFrame
      BY sweepExpiredMoves DEF RoomFrame, Promoting, PromotingStill, Req, Refreshed, Marked, Rewritten, Observed
    <2> QED BY <2>2, RoomKept
  <1>ReapStaged. ASSUME NEW i \in Intents, ReapStaged(i) PROVE Room'
    <2> USE <1>ReapStaged
    <2>2. RoomFrame
      BY ReapStagedMoves DEF RoomFrame, Promoting, PromotingStill, Req, Refreshed, Marked, Rewritten, Observed
    <2> QED BY <2>2, RoomKept
  <1>ReapMap. ASSUME NEW i \in Intents, ReapMap(i) PROVE Room'
    <2> USE <1>ReapMap
    <2>1. RemovedFromMap(i) /\ UNCHANGED <<plan, call, obj, disk, stable>> BY ReapMapMoves
    <2>2. \A d \in Calls : Promoting(d)' => PromotingStill(d) BY <2>1 DEF Promoting, PromotingStill, Req
    <2> QED BY <2>1, <2>2, RoomRemoveMap
  <1>ReapDir. ASSUME NEW i \in Intents, ReapDir(i) PROVE Room'
    <2> USE <1>ReapDir
    <2>1. i \in history.gone /\ disk' = [disk EXCEPT ![i] = NoRec] /\ UNCHANGED <<plan, call, live, obj, stable, history>>
      BY ReapDirMoves DEF Removals
    <2>2. \A d \in Calls : Promoting(d)' => PromotingStill(d) BY <2>1 DEF Promoting, PromotingStill, Req
    <2> QED BY <2>1, <2>2, RoomRemoveDir
  <1>Expires. ASSUME NEW t \in Transfers, Expires(t) PROVE Room'
    <2> USE <1>Expires
    <2>2. RoomFrame
      BY ExpiresMoves DEF RoomFrame, Promoting, PromotingStill, Req, Refreshed, Marked, Rewritten, Observed
    <2> QED BY <2>2, RoomKept
  <1>Crash. ASSUME Crash PROVE Room'
    <2> USE <1>Crash
    <2>1. UNCHANGED <<plan, stable>> /\ (history'.cut <=> history.cut) BY CrashMoves DEF Observed
    <2>2. \A d \in Calls : ~Promoting(d)' BY CrashCalls DEF Promoting
    <2>3. ASSUME ~history'.cut, ~history'.undead
          PROVE  CallsRoom /\ StatesRoom /\ SpaceRoom
      <3>1. /\ ~history.cut /\ ~history.undead /\ live' \subseteq live /\ live \subseteq Intents
            /\ \A i \in live' : disk'[i] = disk[i] /\ obj'[i] = disk[i]
        BY <2>1, <2>3, CrashLoads
      <3>2. CallsRoom /\ StatesRoom BY <2>2, <3>1 DEF CallsRoom, StatesRoom
      <3>3. OwingThen \subseteq Owing /\ (live' # OwingThen => live # Owing) BY <3>1 DEF OwingThen, Owing
      <3>4. SpaceRoom BY <2>1, <3>1, <3>3, SpaceKept
      <3> QED BY <3>2, <3>4
    <2> QED BY <2>1, <2>3, RoomNext
  <1>1. CASE UNCHANGED vars
    BY <1>1, RoomKept DEF vars, intents, tree, run, exchange, RoomFrame, PromotingStill, Promoting, Req
  <1>2. ASSUME NEW c \in Calls, IntentStep(c) PROVE Room'
    BY <1>2, <1>IssueRoute, <1>IssueCheck, <1>IssueRecord, <1>IssuePersist, <1>CallStaged, <1>CallMap, <1>CallDir,
       <1>AcceptWrite, <1>AcceptMark, <1>AcceptPersist, <1>Cancel, <1>AcceptCheck DEF IntentStep
  <1>3. ASSUME NEW c \in Calls, ResolveStep(c) PROVE Room'
    BY <1>3, <1>prepareResolve, <1>StageFile, <1>MarkPrepared, <1>PreparedPersist, <1>resolveFlowStep, <1>PromoteRead,
       <1>PromoteCopy, <1>PromoteUnlink, <1>ResolveMemo, <1>ResolveExec, <1>DispatchBegin, <1>materializeConsumerCopy,
       <1>DispatchSpawn DEF ResolveStep
  <1>4. ASSUME NEW c \in Calls, ExchangeStep(c) PROVE Room'
    BY <1>4, <1>StoreBegin, <1>PutFind, <1>PutBytes, <1>PutRow, <1>GcList, <1>GcBytes, <1>GcRow, <1>LoadBytes,
       <1>LoadRow DEF ExchangeStep
  <1>5. ASSUME NEW i \in Intents, LeaseLapses(i) \/ Reap(i) PROVE Room'
    BY <1>5, <1>LeaseLapses, <1>sweepExpired, <1>ReapStaged, <1>ReapMap, <1>ReapDir DEF Reap
  <1>6. ASSUME NEW t \in Transfers, Expires(t) PROVE Room'
    BY <1>6, <1>Expires
  <1>7. ASSUME Crash PROVE Room'
    BY <1>7, <1>Crash
  <1> QED BY <1>1, <1>2, <1>3, <1>4, <1>5, <1>6, <1>7 DEF Next

-----------------------------------------------------------------------------
(* What a resolve promotes, lists and answers. *)

StillServes(d) ==
    /\ call'[d].res = "ok" => call[d].res = "ok"
    /\ Resolving(d)' => Resolving(d)
    /\ call'[d].at \in Active =>
          /\ call'[d].arts = call[d].arts /\ call'[d].sent = call[d].sent /\ call'[d].f = call[d].f
          /\ call'[d].at = call[d].at \/ (call'[d].at \in Registers /\ call[d].at \in Registers)
    /\ call[d].at = "exec" => call'[d].at = "exec"
ServeFrame ==
    /\ UNCHANGED <<plan, memo, bag, stable, crashes>> /\ work' \in {work, NoFiles}
    /\ (history'.overlap <=> history.overlap)
    /\ \A d \in Calls : Req(d).op = "resolve" => StillServes(d)

LEMMA ActiveAre ==
  /\ Active = {"read", "copy", "unlink", "find", "bytes", "row", "memo", "exec"}
  /\ Promotes = {"read", "copy", "unlink", "find", "bytes", "row"} /\ Registers = {"find", "bytes", "row"}
  BY DEF Active, Promotes, Registers

LEMMA ServeKept ==
  ASSUME Base, Serve, ServeFrame
  PROVE  Serve'
  <1>0. Lists /\ Promotion /\ ListedIsStored /\ Answered /\ Places /\ Types BY DEF Serve, Base
  <1>1. UNCHANGED <<plan, memo, bag, stable, crashes>> /\ (history'.overlap <=> history.overlap)
        /\ \A d \in Calls : Req(d)' = Req(d)
    BY DEF ServeFrame, Req
  <1>2. \A d \in Calls : Req(d).op = "resolve" => StillServes(d) BY DEF ServeFrame
  <1>3. Lists' BY <1>0, <1>1, <1>2, ActiveAre DEF Lists, StillServes, Functional
  <1>4. Promotion'
    <2>1. \A d \in Calls : Resolving(d)' => Resolving(d) BY <1>1, <1>2 DEF StillServes, Resolving
    <2>2. ASSUME NEW d \in Calls, Req(d).op = "resolve", Promoted(d)
          PROVE  Promoted(d)'
      <3>1. CASE call'[d].at \notin Active BY <3>1, ActiveAre DEF Promoted
      <3>2. CASE call'[d].at \in Active
        <4>1. /\ call'[d].arts = call[d].arts /\ call'[d].sent = call[d].sent /\ call'[d].f = call[d].f
              /\ call'[d].at = call[d].at \/ (call'[d].at \in Registers /\ call[d].at \in Registers)
          BY <1>2, <2>2, <3>2 DEF StillServes
        <4>2. \A f \in Files : work'[f] = work[f] \/ work'[f] = None BY DEF ServeFrame, NoFiles
        <4>3. Sent(d)' = Sent(d) BY <4>1 DEF Sent
        <4> QED BY <1>1, <2>2, <4>1, <4>2, <4>3, ActiveAre DEF Promoted, Copied
      <3> QED BY <3>1, <3>2
    <2> QED BY <1>0, <1>1, <2>1, <2>2 DEF Promotion
  <1>5. ListedIsStored' BY <1>0, <1>1 DEF ListedIsStored
  <1>6. Answered'
    <2>1. Full' <=> Full BY <1>1 DEF Full
    <2>2. \A d \in Calls : call[d].at = "exec" => Req(d).op = "resolve" BY <1>0, OpOf DEF Places
    <2>3. (\E d \in Calls : call[d].at = "exec") => \E d \in Calls : call'[d].at = "exec"
      BY <1>2, <2>2 DEF StillServes
    <2>4. \A d \in Calls : Req(d).op = "resolve" /\ call'[d].at \in {"memo", "exec"} =>
             call[d].at \in {"memo", "exec"} /\ call'[d].arts = call[d].arts /\ Sent(d)' = Sent(d)
      BY <1>2, ActiveAre DEF StillServes, Sent
    <2> QED BY <1>0, <1>1, <1>2, <2>1, <2>3, <2>4 DEF Answered, StillServes
  <1> QED BY <1>3, <1>4, <1>5, <1>6 DEF Serve

LEMMA OthersRest ==
  ASSUME Promotion, ~history.overlap, NEW c \in Calls, Resolving(c), NEW d \in Calls, d # c, Req(d).op = "resolve"
  PROVE  ~Resolving(d) /\ call[d].at \notin Active
  BY ActiveAre DEF Promotion, Resolving

(* A step of the one resolve that goes on. *)
LEMMA PromotionStep ==
  ASSUME Promotion, NEW c \in Calls, Resolving(c), UNCHANGED plan, history'.overlap <=> history.overlap,
         \A d \in Calls : d # c => call'[d] = call[d],
         ~history.overlap => Promoted(c)'
  PROVE  Promotion'
  <1>1. \A d \in Calls : Req(d)' = Req(d) BY DEF Req
  <1>2. \A d \in Calls : Resolving(d)' => Resolving(d) BY <1>1 DEF Resolving
  <1>3. ASSUME ~history.overlap, NEW d \in Calls, d # c, Req(d).op = "resolve" PROVE Promoted(d)'
    <2>1. call'[d].at \notin Active BY <1>3, OthersRest
    <2> QED BY <2>1, ActiveAre DEF Promoted
  <1> QED BY <1>1, <1>2, <1>3 DEF Promotion

(* The file of a call and the files up to it. *)
LEMMA FilesUpTo ==
  ASSUME NEW n \in Files
  PROVE  /\ n = Size => {f \in Files : f =< n} = Files
         /\ n # Size => n + 1 \in Files /\ {f \in Files : f < n + 1} = {f \in Files : f =< n}
         /\ {f \in Files : f < 1} = {}
  BY FileFacts

(* The next file of a promotion, after a registration. *)
GoesOn(c) ==
    /\ Req(c).op = "resolve" /\ call[c].at \in Registers
    /\ call'[c].arts = call[c].arts /\ call'[c].sent = call[c].sent /\ call'[c].res = call[c].res
    /\ \/ call[c].f = Size /\ call'[c].at = "unlink"
       \/ call[c].f # Size /\ call'[c].at = "copy" /\ call'[c].f = call[c].f + 1

LEMMA RegisteredServe ==
  ASSUME Base, Serve, NEW c \in Calls,
         (Req(c).op = "resolve" => StillServes(c)) \/ GoesOn(c),
         UNCHANGED <<plan, memo, bag, stable, work, crashes, history>>,
         \A d \in Calls : d # c => call'[d] = call[d]
  PROVE  Serve'
  <1>0. Types /\ Places /\ Records /\ Lists /\ Promotion /\ ListedIsStored /\ Answered /\ call[c].f \in Files
    BY CallTypes DEF Base, Serve, Types
  <1>1. CASE Req(c).op = "resolve" => StillServes(c)
    <2>1. \A d \in Calls : Req(d).op = "resolve" => StillServes(d) BY <1>1 DEF StillServes, Resolving, Req
    <2> QED BY <2>1, ServeKept DEF ServeFrame
  <1>2. CASE GoesOn(c)
    <2>1. Resolving(c) /\ Req(c).op = "resolve" /\ \A d \in Calls : Req(d)' = Req(d)
      BY <1>2, ActiveAre DEF GoesOn, Resolving, Req
    <2>2. Lists' BY <1>0, <1>2, <2>1, ActiveAre DEF Lists, GoesOn, Functional
    <2>3. Promotion'
      <3>1. ASSUME ~history.overlap
            PROVE  Promoted(c)'
        <4>1. /\ memo.status = "working" /\ \A f \in Files : work[f] \in {None, call[c].sent[f]}
              /\ Copied(c, {f \in Files : f =< call[c].f})
          BY <1>0, <1>2, <2>1, <3>1, ActiveAre DEF Promotion, Promoted, GoesOn
        <4>2. CASE call'[c].at = "unlink"
          <5>1. {f \in Files : f =< call[c].f} = Files BY <1>0, <1>2, <4>2, FilesUpTo DEF GoesOn
          <5> QED BY <1>2, <4>1, <4>2, <5>1, ActiveAre DEF Promoted, GoesOn, Copied
        <4>3. CASE call'[c].at = "copy"
          <5>1. {f \in Files : f < call'[c].f} = {f \in Files : f =< call[c].f}
            BY <1>0, <1>2, <4>3, FilesUpTo DEF GoesOn
          <5> QED BY <1>2, <4>1, <4>3, <5>1, ActiveAre DEF Promoted, GoesOn, Copied
        <4> QED BY <1>2, <4>2, <4>3 DEF GoesOn
      <3> QED BY <1>0, <2>1, <3>1, PromotionStep
    <2>4. ListedIsStored' BY <1>0 DEF ListedIsStored
    <2>5. Answered'
      <3>1. (Full' <=> Full) /\ \A d \in Calls : d # c => call'[d] = call[d] /\ Sent(d)' = Sent(d)
        BY DEF Full, Sent
      <3>2. call'[c].at \notin {"memo", "exec"} /\ call[c].at # "exec" /\ call'[c].res = call[c].res
        BY <1>2, ActiveAre DEF GoesOn
      <3> QED BY <1>0, <2>1, <3>1, <3>2 DEF Answered
    <2> QED BY <2>2, <2>3, <2>4, <2>5 DEF Serve
  <1> QED BY <1>1, <1>2

LEMMA ServeStep ==
  ASSUME Base, Serve, [Next]_vars
  PROVE  Serve'
  <1> Types /\ Places /\ Records /\ Removals BY DEF Base
  <1>IssueRoute. ASSUME NEW c \in Calls, IssueRoute(c) PROVE Serve'
    <2> USE <1>IssueRoute
    <2> Place(c) BY DEF Places
    <2>2. Req(c).op = "resolve" => StillServes(c)
      BY IssueRouteMoves, OpOf DEF Becomes, Begins, At, StillServes, Active, Promotes, Registers, Place, Req,
         Resolving
    <2>3. ServeFrame
      BY <2>2, IssueRouteMoves DEF Becomes, ServeFrame, StillServes, Req, Resolving, Observed, RemovedFromMap
    <2> QED BY <2>3, ServeKept
  <1>IssueCheck. ASSUME NEW c \in Calls, IssueCheck(c) PROVE Serve'
    <2> USE <1>IssueCheck
    <2> Place(c) BY DEF Places
    <2>2. Req(c).op = "resolve" => StillServes(c)
      BY IssueCheckMoves, OpOf DEF Becomes, Begins, At, StillServes, Active, Promotes, Registers, Place, Req,
         Resolving
    <2>3. ServeFrame
      BY <2>2, IssueCheckMoves DEF Becomes, ServeFrame, StillServes, Req, Resolving, Observed, RemovedFromMap
    <2> QED BY <2>3, ServeKept
  <1>IssueRecord. ASSUME NEW c \in Calls, IssueRecord(c) PROVE Serve'
    <2> USE <1>IssueRecord
    <2> Place(c) BY DEF Places
    <2>2. Req(c).op = "resolve" => StillServes(c)
      BY IssueRecordMoves, OpOf DEF Becomes, Begins, At, StillServes, Active, Promotes, Registers, Place, Req,
         Resolving
    <2>3. ServeFrame
      BY <2>2, IssueRecordMoves DEF Becomes, ServeFrame, StillServes, Req, Resolving, Observed, RemovedFromMap
    <2> QED BY <2>3, ServeKept
  <1>IssuePersist. ASSUME NEW c \in Calls, IssuePersist(c) PROVE Serve'
    <2> USE <1>IssuePersist
    <2> Place(c) BY DEF Places
    <2>2. Req(c).op = "resolve" => StillServes(c)
      BY IssuePersistMoves, OpOf DEF Becomes, Begins, At, StillServes, Active, Promotes, Registers, Place, Req,
         Resolving
    <2>3. ServeFrame
      BY <2>2, IssuePersistMoves DEF Becomes, ServeFrame, StillServes, Req, Resolving, Observed, RemovedFromMap
    <2> QED BY <2>3, ServeKept
  <1>CallStaged. ASSUME NEW c \in Calls, CallStaged(c) PROVE Serve'
    <2> USE <1>CallStaged
    <2> Place(c) BY DEF Places
    <2>2. Req(c).op = "resolve" => StillServes(c)
      BY CallStagedMoves, OpOf DEF Becomes, Begins, At, StillServes, Active, Promotes, Registers, Place, Req,
         Resolving
    <2>3. ServeFrame
      BY <2>2, CallStagedMoves DEF Becomes, ServeFrame, StillServes, Req, Resolving, Observed, RemovedFromMap
    <2> QED BY <2>3, ServeKept
  <1>CallMap. ASSUME NEW c \in Calls, CallMap(c) PROVE Serve'
    <2> USE <1>CallMap
    <2> Place(c) BY DEF Places
    <2>2. Req(c).op = "resolve" => StillServes(c)
      BY CallMapMoves, OpOf DEF Becomes, Begins, At, StillServes, Active, Promotes, Registers, Place, Req, Resolving
    <2>3. ServeFrame
      BY <2>2, CallMapMoves DEF Becomes, ServeFrame, StillServes, Req, Resolving, Observed, RemovedFromMap
    <2> QED BY <2>3, ServeKept
  <1>CallDir. ASSUME NEW c \in Calls, CallDir(c) PROVE Serve'
    <2> USE <1>CallDir
    <2> Place(c) BY DEF Places
    <2>2. Req(c).op = "resolve" => StillServes(c)
      BY CallDirMoves, OpOf DEF Becomes, Begins, At, StillServes, Active, Promotes, Registers, Place, Req, Resolving
    <2>3. ServeFrame
      BY <2>2, CallDirMoves DEF Becomes, ServeFrame, StillServes, Req, Resolving, Observed, RemovedFromMap
    <2> QED BY <2>3, ServeKept
  <1>AcceptWrite. ASSUME NEW c \in Calls, AcceptWrite(c) PROVE Serve'
    <2> USE <1>AcceptWrite
    <2> Place(c) BY DEF Places
    <2>2. Req(c).op = "resolve" => StillServes(c)
      BY AcceptWriteMoves, OpOf DEF Becomes, Begins, At, StillServes, Active, Promotes, Registers, Place, Req,
         Resolving
    <2>3. ServeFrame
      BY <2>2, AcceptWriteMoves DEF Becomes, ServeFrame, StillServes, Req, Resolving, Observed, RemovedFromMap
    <2> QED BY <2>3, ServeKept
  <1>AcceptMark. ASSUME NEW c \in Calls, AcceptMark(c) PROVE Serve'
    <2> USE <1>AcceptMark
    <2> Place(c) BY DEF Places
    <2>2. Req(c).op = "resolve" => StillServes(c)
      BY AcceptMarkMoves, OpOf DEF Becomes, Begins, At, StillServes, Active, Promotes, Registers, Place, Req,
         Resolving
    <2>3. ServeFrame
      BY <2>2, AcceptMarkMoves DEF Becomes, ServeFrame, StillServes, Req, Resolving, Observed, RemovedFromMap
    <2> QED BY <2>3, ServeKept
  <1>AcceptPersist. ASSUME NEW c \in Calls, AcceptPersist(c) PROVE Serve'
    <2> USE <1>AcceptPersist
    <2> Place(c) BY DEF Places
    <2>2. Req(c).op = "resolve" => StillServes(c)
      BY AcceptPersistMoves, OpOf DEF Becomes, Begins, At, StillServes, Active, Promotes, Registers, Place, Req,
         Resolving
    <2>3. ServeFrame
      BY <2>2, AcceptPersistMoves DEF Becomes, ServeFrame, StillServes, Req, Resolving, Observed, RemovedFromMap
    <2> QED BY <2>3, ServeKept
  <1>Cancel. ASSUME NEW c \in Calls, NEW i \in Intents, Cancel(c, i) PROVE Serve'
    <2> USE <1>Cancel
    <2> Place(c) BY DEF Places
    <2>2. Req(c).op = "resolve" => StillServes(c)
      BY CancelMoves, OpOf DEF Becomes, Begins, At, StillServes, Active, Promotes, Registers, Place, Req, Resolving
    <2>3. ServeFrame
      BY <2>2, CancelMoves DEF Becomes, ServeFrame, StillServes, Req, Resolving, Observed, RemovedFromMap
    <2> QED BY <2>3, ServeKept
  <1>AcceptCheck. ASSUME NEW c \in Calls, NEW i \in Intents, AcceptCheck(c, i) PROVE Serve'
    <2> USE <1>AcceptCheck
    <2> Place(c) BY DEF Places
    <2>2. Req(c).op = "resolve" => StillServes(c)
      BY AcceptCheckMoves, OpOf DEF Becomes, Begins, At, StillServes, Active, Promotes, Registers, Place, Req,
         Resolving
    <2>3. ServeFrame
      BY <2>2, AcceptCheckMoves DEF Becomes, ServeFrame, StillServes, Req, Resolving, Observed, RemovedFromMap
    <2> QED BY <2>3, ServeKept
  <1>prepareResolve. ASSUME NEW c \in Calls, NEW i \in Intents, prepareResolve(c, i) PROVE Serve'
    <2> USE <1>prepareResolve
    <2> Lists /\ Promotion /\ ListedIsStored /\ Answered BY DEF Serve
    <2>1. /\ UNCHANGED <<plan, memo, bag, stable, work, crashes>> /\ Req(c).op = "resolve" /\ call[c].at = "idle"
          /\ \A d \in Calls : d # c => call'[d] = call[d]
          /\ call'[c].at \in {"flow", "done", "stage"} /\ call'[c].res \in {"fail", call[c].res}
          /\ history'.overlap <=> (history.overlap \/ Busy)
      BY prepareResolveMoves DEF Becomes, Begins, At, Observed
    <2>2. \A d \in Calls : Req(d)' = Req(d) BY <2>1 DEF Req
    <2>3. Lists' BY <2>1, <2>2, ActiveAre DEF Lists, Functional
    <2>4. Promotion'
      <3> SUFFICES ASSUME ~history'.overlap PROVE Promotion' BY DEF Promotion
      <3>1. ~history.overlap /\ \A d \in Calls : ~Resolving(d) BY <2>1 DEF Busy
      <3>2. \A d \in Calls : Resolving(d)' => d = c BY <2>1, <2>2, <3>1 DEF Resolving
      <3>3. \A d \in Calls : Req(d).op = "resolve" => call'[d].at \notin Active
        BY <2>1, <2>2, <3>2, ActiveAre DEF Resolving
      <3>4. \A d \in Calls : Req(d).op = "resolve" => Promoted(d)' BY <3>3, ActiveAre DEF Promoted
      <3> QED BY <2>2, <3>2, <3>4 DEF Promotion
    <2>5. ListedIsStored' BY <2>1 DEF ListedIsStored
    <2>6. Answered'
      <3>1. Full' <=> Full BY <2>1 DEF Full
      <3>2. \A d \in Calls : call[d].at = "exec" => call'[d].at = "exec" BY <2>1
      <3>3. \A d \in Calls : call'[d].at \in {"memo", "exec"} => call[d].at = call'[d].at /\ call'[d].arts = call[d].arts /\ Sent(d)' = Sent(d)
        BY <2>1 DEF Sent
      <3>4. \A d \in Calls : call'[d].res = "ok" => call[d].res = "ok" BY <2>1
      <3> QED BY <2>1, <2>2, <3>1, <3>2, <3>3, <3>4 DEF Answered
    <2> QED BY <2>3, <2>4, <2>5, <2>6 DEF Serve
  <1>StageFile. ASSUME NEW c \in Calls, StageFile(c) PROVE Serve'
    <2> USE <1>StageFile
    <2> Lists /\ Promotion /\ ListedIsStored /\ Answered BY DEF Serve
    <2>1. /\ UNCHANGED <<plan, memo, bag, stable, crashes, history>> /\ \A d \in Calls : d # c => call'[d] = call[d]
          /\ call[c].at = "stage" /\ call'[c].at \in {"done", "prepared", "stage"} /\ call'[c].res \in {"fail", call[c].res}
      BY StageFileMoves DEF Becomes
    <2>2. Req(c).op = "resolve" /\ Resolving(c) /\ \A d \in Calls : Req(d)' = Req(d)
      BY <2>1, OpOf DEF Req, Places, Resolving
    <2>3. Lists' BY <2>1, <2>2, ActiveAre DEF Lists, Functional
    <2>4. Promotion'
      <3>1. Promoted(c)' BY <2>1, ActiveAre DEF Promoted
      <3> QED BY <2>1, <2>2, <3>1, PromotionStep
    <2>5. ListedIsStored' BY <2>1 DEF ListedIsStored
    <2>6. Answered'
      <3>1. (Full' <=> Full) /\ \A d \in Calls : call[d].at = "exec" => call'[d].at = "exec" BY <2>1 DEF Full
      <3>2. \A d \in Calls : call'[d].at \in {"memo", "exec"} => call[d].at = call'[d].at /\ call'[d].arts = call[d].arts /\ Sent(d)' = Sent(d)
        BY <2>1 DEF Sent
      <3>3. \A d \in Calls : call'[d].res = "ok" => call[d].res = "ok" BY <2>1
      <3> QED BY <2>1, <2>2, <3>1, <3>2, <3>3 DEF Answered
    <2> QED BY <2>3, <2>4, <2>5, <2>6 DEF Serve
  <1>MarkPrepared. ASSUME NEW c \in Calls, MarkPrepared(c) PROVE Serve'
    <2> USE <1>MarkPrepared
    <2> Place(c) BY DEF Places
    <2>2. Req(c).op = "resolve" => StillServes(c)
      BY MarkPreparedMoves, OpOf DEF Becomes, Begins, At, StillServes, Active, Promotes, Registers, Place, Req,
         Resolving
    <2>3. ServeFrame
      BY <2>2, MarkPreparedMoves DEF Becomes, ServeFrame, StillServes, Req, Resolving, Observed, RemovedFromMap
    <2> QED BY <2>3, ServeKept
  <1>PreparedPersist. ASSUME NEW c \in Calls, PreparedPersist(c) PROVE Serve'
    <2> USE <1>PreparedPersist
    <2> Place(c) BY DEF Places
    <2>2. Req(c).op = "resolve" => StillServes(c)
      BY PreparedPersistMoves, OpOf DEF Becomes, Begins, At, StillServes, Active, Promotes, Registers, Place, Req,
         Resolving
    <2>3. ServeFrame
      BY <2>2, PreparedPersistMoves DEF Becomes, ServeFrame, StillServes, Req, Resolving, Observed, RemovedFromMap
    <2> QED BY <2>3, ServeKept
  <1>resolveFlowStep. ASSUME NEW c \in Calls, resolveFlowStep(c) PROVE Serve'
    <2> USE <1>resolveFlowStep
    <2> Lists /\ Promotion /\ ListedIsStored /\ Answered BY DEF Serve
    <2>1. /\ UNCHANGED <<plan, memo, bag, stable, crashes, history>> /\ \A d \in Calls : d # c => call'[d] = call[d]
          /\ call[c].at = "flow" /\ memo.status \in {"working", "completed"}
          /\ \/ call'[c].at \in {"done", "map"} /\ call'[c].res = "ok" /\ memo.status = "completed"
             \/ call'[c].at \in {"done", "staged"} /\ call'[c].res \in {"fail", call[c].res}
             \/ /\ call'[c].at \in {"memo", "read"} /\ call'[c].arts = bag /\ memo.status = "working" /\ call'[c].res = call[c].res
                /\ call'[c].at = "memo" => ~plan.required
      BY resolveFlowStepMoves DEF Becomes, Refused, Types
    <2>2. Req(c).op = "resolve" /\ Resolving(c) /\ \A d \in Calls : Req(d)' = Req(d)
      BY <2>1, OpOf DEF Req, Places, Resolving
    <2>3. Lists' BY <2>1, <2>2, ActiveAre DEF Lists, Functional
    <2>4. Promotion'
      <3>1. call'[c].at \in {"memo", "read"} => call'[c].arts = {} BY <2>1 DEF Lists
      <3>2. Promoted(c)' BY <2>1, <3>1, ActiveAre DEF Promoted
      <3> QED BY <2>1, <2>2, <3>2, PromotionStep
    <2>5. ListedIsStored' BY <2>1 DEF ListedIsStored
    <2>6. Answered'
      <3> SUFFICES ASSUME plan.required, crashes = 0, ~history.overlap PROVE Answered' BY <2>1 DEF Answered
      <3>1. (Full' <=> Full) /\ \A d \in Calls : d # c => call'[d] = call[d] /\ Sent(d)' = Sent(d)
        BY <2>1 DEF Full, Sent
      <3>2. \A d \in Calls : call[d].at # "exec"
        <4>1. \A d \in Calls : call[d].at = "exec" => Req(d).op = "resolve" BY OpOf DEF Places
        <4> QED BY <2>1, <2>2, <4>1, OthersRest, ActiveAre
      <3>3. memo.status = "completed" => Full BY <3>2 DEF Answered
      <3> QED BY <2>1, <2>2, <3>1, <3>3 DEF Answered
    <2> QED BY <2>3, <2>4, <2>5, <2>6 DEF Serve
  <1>PromoteRead. ASSUME NEW c \in Calls, PromoteRead(c) PROVE Serve'
    <2> USE <1>PromoteRead
    <2> Lists /\ Promotion /\ ListedIsStored /\ Answered BY DEF Serve
    <2>1. /\ UNCHANGED <<plan, memo, bag, stable, crashes, history>> /\ \A d \in Calls : d # c => call'[d] = call[d]
          /\ call[c].at = "read" /\ call'[c].res \in {"fail", call[c].res} /\ call'[c].arts = call[c].arts
          /\ call'[c].at \in {"done", "staged"} \/ (call'[c].at = "copy" /\ call'[c].f = 1 /\ call'[c].sent = work)
          /\ UNCHANGED work
      BY PromoteReadMoves DEF Becomes
    <2>2. Req(c).op = "resolve" /\ Resolving(c) /\ \A d \in Calls : Req(d)' = Req(d)
      BY <2>1, OpOf DEF Req, Places, Resolving
    <2>3. Lists' BY <2>1, <2>2, ActiveAre DEF Lists, Functional
    <2>4. Promotion'
      <3>1. ~history.overlap => memo.status = "working" BY <2>1, <2>2, ActiveAre DEF Promotion, Promoted
      <3>2. {f \in Files : f < 1} = {} BY FilesUpTo, FileFacts
      <3>3. ~history.overlap => Promoted(c)' BY <2>1, <3>1, <3>2, ActiveAre DEF Promoted, Copied
      <3> QED BY <2>1, <2>2, <3>3, PromotionStep
    <2>5. ListedIsStored' BY <2>1 DEF ListedIsStored
    <2>6. Answered'
      <3>1. (Full' <=> Full) /\ \A d \in Calls : call[d].at = "exec" => call'[d].at = "exec" BY <2>1 DEF Full
      <3>2. \A d \in Calls : call'[d].at \in {"memo", "exec"} => call[d].at = call'[d].at /\ call'[d].arts = call[d].arts /\ Sent(d)' = Sent(d)
        BY <2>1 DEF Sent
      <3>3. \A d \in Calls : call'[d].res = "ok" => call[d].res = "ok" BY <2>1
      <3> QED BY <2>1, <2>2, <3>1, <3>2, <3>3 DEF Answered
    <2> QED BY <2>3, <2>4, <2>5, <2>6 DEF Serve
  <1>PromoteCopy. ASSUME NEW c \in Calls, PromoteCopy(c) PROVE Serve'
    <2> USE <1>PromoteCopy
    <2> Lists /\ Promotion /\ ListedIsStored /\ Answered BY DEF Serve
    <2>1. /\ UNCHANGED <<plan, memo, bag, crashes, history>> /\ \A d \in Calls : d # c => call'[d] = call[d]
          /\ call[c].at = "copy" /\ call'[c].res \in {"fail", call[c].res} /\ call'[c].arts = call[c].arts
          /\ \/ call'[c].at \in {"done", "staged"} /\ stable' = NoFiles
             \/ /\ call'[c].at = "find" /\ call'[c].f = call[c].f /\ call'[c].sent = call[c].sent
                /\ work[call[c].f] # None /\ stable' = [stable EXCEPT ![call[c].f] = work[call[c].f]]
          /\ UNCHANGED work
      BY PromoteCopyMoves DEF Becomes
    <2>2. Req(c).op = "resolve" /\ Resolving(c) /\ \A d \in Calls : Req(d)' = Req(d)
      BY <2>1, OpOf DEF Req, Places, Resolving
    <2>3. Lists' BY <2>1, <2>2, ActiveAre DEF Lists, Functional
    <2>4. Promotion'
      <3>1. call[c].f \in Files /\ stable \in [Files -> Contents \union {None}] /\ Files \subseteq Nat
        BY CallTypes, FileFacts DEF Types, FileType
      <3>2. ~history.overlap => Promoted(c) BY <2>2 DEF Promotion
      <3>3. CASE call'[c].at # "find"
        <4>1. Promoted(c)' BY <2>1, <3>3, ActiveAre DEF Promoted
        <4> QED BY <2>1, <2>2, <4>1, PromotionStep
      <3>4. CASE call'[c].at = "find"
        <4>1. /\ call'[c].f = call[c].f /\ call'[c].sent = call[c].sent /\ work[call[c].f] # None
              /\ stable'[call[c].f] = work[call[c].f] /\ \A f \in Files : f # call[c].f => stable'[f] = stable[f]
          BY <2>1, <3>1, <3>4
        <4>2. ASSUME ~history.overlap
              PROVE  Promoted(c)'
          <5>1. /\ memo.status = "working" /\ \A f \in Files : work[f] \in {None, call[c].sent[f]}
                /\ \A f \in Files : f < call[c].f => stable[f] = call[c].sent[f]
            BY <2>1, <3>2, <4>2, ActiveAre DEF Promoted, Copied
          <5>2. \A f \in Files : f =< call[c].f => stable'[f] = call[c].sent[f]
            <6>1. stable'[call[c].f] = call[c].sent[call[c].f] BY <3>1, <4>1, <5>1
            <6>2. \A f \in Files : f =< call[c].f => f = call[c].f \/ f < call[c].f
              <7>1. \A m, n \in Nat : m =< n => m = n \/ m < n
                OBVIOUS
              <7>2. \A f \in Files : f \in Nat BY FileFacts
              <7> QED BY <3>1, <7>1, <7>2
            <6>3. \A f \in Files : f < call[c].f => f # call[c].f BY <3>1
            <6> QED BY <4>1, <5>1, <6>1, <6>2, <6>3
          <5> QED BY <2>1, <3>4, <4>1, <5>1, <5>2, ActiveAre DEF Promoted, Copied
        <4> QED BY <2>1, <2>2, <4>2, PromotionStep
      <3> QED BY <3>3, <3>4
    <2>5. ListedIsStored'
      <3>1. ~history.overlap => memo.status = "working" BY <2>1, <2>2, ActiveAre DEF Promotion, Promoted
      <3>2. ~history.overlap => bag' = {} BY <2>1, <3>1 DEF Lists
      <3> QED BY <2>1, <3>2 DEF ListedIsStored
    <2>6. Answered'
      <3>1. (Full' <=> Full) /\ \A d \in Calls : call[d].at = "exec" => call'[d].at = "exec" BY <2>1 DEF Full
      <3>2. \A d \in Calls : call'[d].at \in {"memo", "exec"} => call[d].at = call'[d].at /\ call'[d].arts = call[d].arts /\ Sent(d)' = Sent(d)
        BY <2>1 DEF Sent
      <3>3. \A d \in Calls : call'[d].res = "ok" => call[d].res = "ok" BY <2>1
      <3> QED BY <2>1, <2>2, <3>1, <3>2, <3>3 DEF Answered
    <2> QED BY <2>3, <2>4, <2>5, <2>6 DEF Serve
  <1>PromoteUnlink. ASSUME NEW c \in Calls, PromoteUnlink(c) PROVE Serve'
    <2> USE <1>PromoteUnlink
    <2> Lists /\ Promotion /\ ListedIsStored /\ Answered BY DEF Serve
    <2>1. /\ UNCHANGED <<plan, memo, bag, stable, crashes, history>> /\ \A d \in Calls : d # c => call'[d] = call[d]
          /\ call[c].at = "unlink" /\ call'[c].at = "memo" /\ call'[c].res = call[c].res
          /\ call'[c].arts = call[c].arts \union Sent(c) /\ call'[c].sent = call[c].sent
      BY PromoteUnlinkMoves DEF Becomes
    <2>2. Req(c).op = "resolve" /\ Resolving(c) /\ \A d \in Calls : Req(d)' = Req(d)
      BY <2>1, OpOf DEF Req, Places, Resolving
    <2>7. call'[c].arts = Sent(c) /\ Sent(c)' = Sent(c)
      <3>1. call[c].arts = {} BY <2>1, <2>2, ActiveAre DEF Lists
      <3>2. Sent(c)' = Sent(c) BY <2>1 DEF Sent
      <3> QED BY <2>1, <3>1, <3>2
    <2>8. Functional(Sent(c)) BY DEF Functional, Sent
    <2>3. Lists' BY <2>1, <2>2, <2>7, <2>8, ActiveAre DEF Lists, Functional
    <2>4. Promotion'
      <3>1. ~history.overlap => memo.status = "working" /\ Copied(c, Files)
        BY <2>1, <2>2, ActiveAre DEF Promotion, Promoted
      <3>2. ~history.overlap => Promoted(c)' BY <2>1, <2>7, <3>1, ActiveAre DEF Promoted, Copied
      <3> QED BY <2>1, <2>2, <3>2, PromotionStep
    <2>5. ListedIsStored' BY <2>1 DEF ListedIsStored
    <2>6. Answered'
      <3>1. (Full' <=> Full) /\ \A d \in Calls : call[d].at = "exec" => call'[d].at = "exec" BY <2>1 DEF Full
      <3>2. \A d \in Calls : d # c => call'[d] = call[d] /\ Sent(d)' = Sent(d) BY <2>1 DEF Sent
      <3> QED BY <2>1, <2>2, <2>7, <3>1, <3>2 DEF Answered
    <2> QED BY <2>3, <2>4, <2>5, <2>6 DEF Serve
  <1>ResolveMemo. ASSUME NEW c \in Calls, ResolveMemo(c) PROVE Serve'
    <2> USE <1>ResolveMemo
    <2> Lists /\ Promotion /\ ListedIsStored /\ Answered BY DEF Serve
    <2>1. /\ UNCHANGED <<plan, bag, stable, crashes, history>> /\ \A d \in Calls : d # c => call'[d] = call[d]
          /\ call[c].at = "memo" /\ call'[c].at = "exec" /\ call'[c].res = call[c].res /\ memo'.status = "completed"
          /\ call'[c].arts = call[c].arts /\ call'[c].sent = call[c].sent
      BY ResolveMemoMoves DEF Becomes
    <2>2. Req(c).op = "resolve" /\ Resolving(c) /\ \A d \in Calls : Req(d)' = Req(d)
      BY <2>1, OpOf DEF Req, Places, Resolving
    <2>7. Sent(c)' = Sent(c) BY <2>1 DEF Sent
    <2>3. Lists' BY <2>1, <2>2, ActiveAre DEF Lists, Functional
    <2>4. Promotion'
      <3>1. ~history.overlap => Promoted(c)' BY <2>1, <2>2, <2>7, ActiveAre DEF Promotion, Promoted, Copied
      <3> QED BY <2>1, <2>2, <3>1, PromotionStep
    <2>5. ListedIsStored' BY <2>1 DEF ListedIsStored
    <2>6. Answered'
      <3>1. (Full' <=> Full) /\ \A d \in Calls : d # c => call'[d] = call[d] /\ Sent(d)' = Sent(d)
        BY <2>1 DEF Full, Sent
      <3> QED BY <2>1, <2>2, <2>7, <3>1 DEF Answered
    <2> QED BY <2>3, <2>4, <2>5, <2>6 DEF Serve
  <1>ResolveExec. ASSUME NEW c \in Calls, ResolveExec(c) PROVE Serve'
    <2> USE <1>ResolveExec
    <2> Lists /\ Promotion /\ ListedIsStored /\ Answered BY DEF Serve
    <2>1. /\ UNCHANGED <<plan, memo, stable, crashes, history>> /\ \A d \in Calls : d # c => call'[d] = call[d]
          /\ call[c].at = "exec" /\ call'[c].at \in {"done", "map"} /\ bag' = call[c].arts
      BY ResolveExecMoves DEF Becomes
    <2>2. Req(c).op = "resolve" /\ Resolving(c) /\ \A d \in Calls : Req(d)' = Req(d)
      BY <2>1, OpOf DEF Req, Places, Resolving
    <2>3. Lists' BY <2>1, <2>2, ActiveAre DEF Lists
    <2>4. Promotion'
      <3>1. Promoted(c)' BY <2>1, ActiveAre DEF Promoted
      <3> QED BY <2>1, <2>2, <3>1, PromotionStep
    <2>5. ListedIsStored'
      <3>1. ~history.overlap => call[c].arts = {} \/ (call[c].arts = Sent(c) /\ Copied(c, Files))
        BY <2>1, <2>2, ActiveAre DEF Promotion, Promoted
      <3>2. ASSUME Copied(c, Files), NEW e \in Sent(c)
            PROVE  stable[e[1]] = e[2]
        BY <3>2 DEF Sent, Copied
      <3> QED BY <2>1, <3>1, <3>2 DEF ListedIsStored
    <2>6. Answered'
      <3>1. plan.required /\ crashes = 0 /\ ~history.overlap => call[c].arts = Sent(c)
        BY <2>1, <2>2 DEF Answered
      <3>2. call[c].arts = Sent(c) => Full'
        <4>1. {e[1] : e \in Sent(c)} = Files
          <5>1. \A f \in Files : <<f, call[c].sent[f]>> \in Sent(c) /\ <<f, call[c].sent[f]>>[1] = f
            BY DEF Sent
          <5>2. \A e \in Sent(c) : e[1] \in Files BY DEF Sent
          <5> QED BY <5>1, <5>2
        <4> QED BY <2>1, <4>1 DEF Full
      <3>3. \A d \in Calls : d # c => call'[d] = call[d] /\ Sent(d)' = Sent(d) BY <2>1 DEF Sent
      <3> QED BY <2>1, <2>2, <3>1, <3>2, <3>3 DEF Answered
    <2> QED BY <2>3, <2>4, <2>5, <2>6 DEF Serve
  <1>DispatchBegin. ASSUME NEW c \in Calls, DispatchBegin(c) PROVE Serve'
    <2> USE <1>DispatchBegin
    <2> Place(c) BY DEF Places
    <2>2. Req(c).op = "resolve" => StillServes(c)
      BY DispatchBeginMoves, OpOf DEF Becomes, Begins, At, StillServes, Active, Promotes, Registers, Place, Req,
         Resolving
    <2>3. ServeFrame
      BY <2>2, DispatchBeginMoves DEF Becomes, ServeFrame, StillServes, Req, Resolving, Observed, RemovedFromMap
    <2> QED BY <2>3, ServeKept
  <1>materializeConsumerCopy. ASSUME NEW c \in Calls, materializeConsumerCopy(c) PROVE Serve'
    <2> USE <1>materializeConsumerCopy
    <2> Place(c) BY DEF Places
    <2>2. Req(c).op = "resolve" => StillServes(c)
      BY materializeConsumerCopyMoves, OpOf DEF Becomes, Begins, At, StillServes, Active, Promotes, Registers, Place,
         Req, Resolving
    <2>3. ServeFrame
      BY <2>2, materializeConsumerCopyMoves DEF Becomes, ServeFrame, StillServes, Req, Resolving, Observed,
         RemovedFromMap
    <2> QED BY <2>3, ServeKept
  <1>DispatchSpawn. ASSUME NEW c \in Calls, DispatchSpawn(c) PROVE Serve'
    <2> USE <1>DispatchSpawn
    <2> Place(c) BY DEF Places
    <2>2. Req(c).op = "resolve" => StillServes(c)
      BY DispatchSpawnMoves, OpOf DEF Becomes, Begins, At, StillServes, Active, Promotes, Registers, Place, Req,
         Resolving
    <2>3. ServeFrame
      BY <2>2, DispatchSpawnMoves DEF Becomes, ServeFrame, StillServes, Req, Resolving, Observed, RemovedFromMap
    <2> QED BY <2>3, ServeKept
  <1>StoreBegin. ASSUME NEW c \in Calls, StoreBegin(c) PROVE Serve'
    <2> USE <1>StoreBegin
    <2> Place(c) BY DEF Places
    <2>2. Req(c).op = "resolve" => StillServes(c)
      BY StoreBeginMoves, OpOf DEF Becomes, Begins, At, StillServes, Active, Promotes, Registers, Place, Req,
         Resolving
    <2>3. ServeFrame
      BY <2>2, StoreBeginMoves DEF Becomes, ServeFrame, StillServes, Req, Resolving, Observed, RemovedFromMap
    <2> QED BY <2>3, ServeKept
  <1>PutFind. ASSUME NEW c \in Calls, PutFind(c) PROVE Serve'
    <2> USE <1>PutFind
    <2> Place(c) /\ Lists /\ Promotion /\ call[c].f \in Files BY CallTypes DEF Places, Serve, Types
    <2>2. \/ Req(c).op = "resolve" => StillServes(c)
          \/ GoesOn(c)
      BY PutFindMoves, OpOf DEF Becomes, StillServes, GoesOn, Active, Promotes, Registers, Place, Resolving
    <2>3. UNCHANGED <<plan, memo, bag, stable, work, crashes, history>> /\ \A d \in Calls : d # c => call'[d] = call[d]
      BY PutFindMoves DEF Becomes
    <2> QED BY <2>2, <2>3, RegisteredServe
  <1>PutBytes. ASSUME NEW c \in Calls, PutBytes(c) PROVE Serve'
    <2> USE <1>PutBytes
    <2> Place(c) BY DEF Places
    <2>2. Req(c).op = "resolve" => StillServes(c)
      BY PutBytesMoves, OpOf DEF Becomes, Begins, At, StillServes, Active, Promotes, Registers, Place, Req, Resolving
    <2>3. ServeFrame
      BY <2>2, PutBytesMoves DEF Becomes, ServeFrame, StillServes, Req, Resolving, Observed, RemovedFromMap
    <2> QED BY <2>3, ServeKept
  <1>PutRow. ASSUME NEW c \in Calls, PutRow(c) PROVE Serve'
    <2> USE <1>PutRow
    <2> Place(c) /\ Lists /\ Promotion /\ call[c].f \in Files BY CallTypes DEF Places, Serve, Types
    <2>2. \/ Req(c).op = "resolve" => StillServes(c)
          \/ GoesOn(c)
      BY PutRowMoves, OpOf, Zenon DEF Becomes, StillServes, GoesOn, Active, Promotes, Registers, Place, Resolving
    <2>3. UNCHANGED <<plan, memo, bag, stable, work, crashes, history>> /\ \A d \in Calls : d # c => call'[d] = call[d]
      BY PutRowMoves DEF Becomes
    <2> QED BY <2>2, <2>3, RegisteredServe
  <1>GcList. ASSUME NEW c \in Calls, GcList(c) PROVE Serve'
    <2> USE <1>GcList
    <2> Place(c) BY DEF Places
    <2>2. Req(c).op = "resolve" => StillServes(c)
      BY GcListMoves, OpOf DEF Becomes, Begins, At, StillServes, Active, Promotes, Registers, Place, Req, Resolving
    <2>3. ServeFrame
      BY <2>2, GcListMoves DEF Becomes, ServeFrame, StillServes, Req, Resolving, Observed, RemovedFromMap
    <2> QED BY <2>3, ServeKept
  <1>GcBytes. ASSUME NEW c \in Calls, GcBytes(c) PROVE Serve'
    <2> USE <1>GcBytes
    <2> Place(c) BY DEF Places
    <2>2. Req(c).op = "resolve" => StillServes(c)
      BY GcBytesMoves, OpOf DEF Becomes, Begins, At, StillServes, Active, Promotes, Registers, Place, Req, Resolving
    <2>3. ServeFrame
      BY <2>2, GcBytesMoves DEF Becomes, ServeFrame, StillServes, Req, Resolving, Observed, RemovedFromMap
    <2> QED BY <2>3, ServeKept
  <1>GcRow. ASSUME NEW c \in Calls, GcRow(c) PROVE Serve'
    <2> USE <1>GcRow
    <2> Place(c) BY DEF Places
    <2>2. Req(c).op = "resolve" => StillServes(c)
      BY GcRowMoves, OpOf DEF Becomes, Begins, At, StillServes, Active, Promotes, Registers, Place, Req, Resolving
    <2>3. ServeFrame
      BY <2>2, GcRowMoves DEF Becomes, ServeFrame, StillServes, Req, Resolving, Observed, RemovedFromMap
    <2> QED BY <2>3, ServeKept
  <1>LoadBytes. ASSUME NEW c \in Calls, LoadBytes(c) PROVE Serve'
    <2> USE <1>LoadBytes
    <2> Place(c) BY DEF Places
    <2>2. Req(c).op = "resolve" => StillServes(c)
      BY LoadBytesMoves, OpOf DEF Becomes, Begins, At, StillServes, Active, Promotes, Registers, Place, Req, Resolving
    <2>3. ServeFrame
      BY <2>2, LoadBytesMoves DEF Becomes, ServeFrame, StillServes, Req, Resolving, Observed, RemovedFromMap
    <2> QED BY <2>3, ServeKept
  <1>LoadRow. ASSUME NEW c \in Calls, NEW t \in Transfers, LoadRow(c, t) PROVE Serve'
    <2> USE <1>LoadRow
    <2> Place(c) BY DEF Places
    <2>2. Req(c).op = "resolve" => StillServes(c)
      BY LoadRowMoves, OpOf DEF Becomes, Begins, At, StillServes, Active, Promotes, Registers, Place, Req, Resolving
    <2>3. ServeFrame
      BY <2>2, LoadRowMoves, Zenon DEF Becomes, ServeFrame, StillServes, Req, Resolving, Observed, RemovedFromMap
    <2> QED BY <2>3, ServeKept
  <1>LeaseLapses. ASSUME NEW i \in Intents, LeaseLapses(i) PROVE Serve'
    <2> USE <1>LeaseLapses
    <2>2. ServeFrame BY LeaseLapsesMoves DEF ServeFrame, StillServes, Req, Resolving, Observed, RemovedFromMap
    <2> QED BY <2>2, ServeKept
  <1>sweepExpired. ASSUME NEW i \in Intents, sweepExpired(i) PROVE Serve'
    <2> USE <1>sweepExpired
    <2>2. ServeFrame
      BY sweepExpiredMoves DEF ServeFrame, StillServes, Req, Resolving, Observed, RemovedFromMap
    <2> QED BY <2>2, ServeKept
  <1>ReapStaged. ASSUME NEW i \in Intents, ReapStaged(i) PROVE Serve'
    <2> USE <1>ReapStaged
    <2>2. ServeFrame BY ReapStagedMoves DEF ServeFrame, StillServes, Req, Resolving, Observed, RemovedFromMap
    <2> QED BY <2>2, ServeKept
  <1>ReapMap. ASSUME NEW i \in Intents, ReapMap(i) PROVE Serve'
    <2> USE <1>ReapMap
    <2>2. ServeFrame BY ReapMapMoves DEF ServeFrame, StillServes, Req, Resolving, Observed, RemovedFromMap
    <2> QED BY <2>2, ServeKept
  <1>ReapDir. ASSUME NEW i \in Intents, ReapDir(i) PROVE Serve'
    <2> USE <1>ReapDir
    <2>2. ServeFrame BY ReapDirMoves DEF ServeFrame, StillServes, Req, Resolving, Observed, RemovedFromMap
    <2> QED BY <2>2, ServeKept
  <1>Expires. ASSUME NEW t \in Transfers, Expires(t) PROVE Serve'
    <2> USE <1>Expires
    <2>2. ServeFrame BY ExpiresMoves DEF ServeFrame, StillServes, Req, Resolving, Observed, RemovedFromMap
    <2> QED BY <2>2, ServeKept
  <1>Crash. ASSUME Crash PROVE Serve'
    <2> USE <1>Crash
    <2> Lists /\ Promotion /\ ListedIsStored /\ Answered BY DEF Serve
    <2>1. UNCHANGED <<plan, memo, bag, stable>> /\ crashes' # 0 /\ (history'.overlap <=> history.overlap)
      BY CrashMoves DEF Observed, Types
    <2>2. \A d \in Calls : Req(d)' = Req(d) /\ call'[d].at \in {"idle", "done", "lost"}
      BY <2>1, CrashCalls DEF Req
    <2>3. Lists' BY <2>1, <2>2, ActiveAre DEF Lists, Functional
    <2>4. \A d \in Calls : ~Resolving(d)' /\ Promoted(d)' BY <2>2, ActiveAre DEF Resolving, Promoted
    <2>5. Promotion' /\ ListedIsStored' /\ Answered' BY <2>1, <2>4 DEF Promotion, ListedIsStored, Answered
    <2> QED BY <2>3, <2>5 DEF Serve
  <1>1. CASE UNCHANGED vars
    BY <1>1, ServeKept DEF vars, intents, tree, run, exchange, ServeFrame, StillServes, Resolving, Req
  <1>2. ASSUME NEW c \in Calls, IntentStep(c) PROVE Serve'
    BY <1>2, <1>IssueRoute, <1>IssueCheck, <1>IssueRecord, <1>IssuePersist, <1>CallStaged, <1>CallMap, <1>CallDir,
       <1>AcceptWrite, <1>AcceptMark, <1>AcceptPersist, <1>Cancel, <1>AcceptCheck DEF IntentStep
  <1>3. ASSUME NEW c \in Calls, ResolveStep(c) PROVE Serve'
    BY <1>3, <1>prepareResolve, <1>StageFile, <1>MarkPrepared, <1>PreparedPersist, <1>resolveFlowStep, <1>PromoteRead,
       <1>PromoteCopy, <1>PromoteUnlink, <1>ResolveMemo, <1>ResolveExec, <1>DispatchBegin, <1>materializeConsumerCopy,
       <1>DispatchSpawn DEF ResolveStep
  <1>4. ASSUME NEW c \in Calls, ExchangeStep(c) PROVE Serve'
    BY <1>4, <1>StoreBegin, <1>PutFind, <1>PutBytes, <1>PutRow, <1>GcList, <1>GcBytes, <1>GcRow, <1>LoadBytes,
       <1>LoadRow DEF ExchangeStep
  <1>5. ASSUME NEW i \in Intents, LeaseLapses(i) \/ Reap(i) PROVE Serve'
    BY <1>5, <1>LeaseLapses, <1>sweepExpired, <1>ReapStaged, <1>ReapMap, <1>ReapDir DEF Reap
  <1>6. ASSUME NEW t \in Transfers, Expires(t) PROVE Serve'
    BY <1>6, <1>Expires
  <1>7. ASSUME Crash PROVE Serve'
    BY <1>7, <1>Crash
  <1> QED BY <1>1, <1>2, <1>3, <1>4, <1>5, <1>6, <1>7 DEF Next

-----------------------------------------------------------------------------
(* The consumer's copies. *)

LEMMA GivenKept ==
  ASSUME Given, UNCHANGED <<plan, inputs>>, \A d \in Calls : Req(d).op = "dispatch" => call'[d] = call[d]
  PROVE  Given'
  <1>1. \A d \in Calls : Req(d)' = Req(d) BY DEF Req
  <1> QED BY <1>1 DEF Given, Functional

-----------------------------------------------------------------------------
(* The exchange. *)

Waited ==
    /\ UNCHANGED plan /\ \A d \in Calls : Ended(d) => call'[d] = call[d]
    /\ \A d \in Calls : call'[d].at # "idle" => call[d].at # "idle" \/ \A b \in Req(d).after : Ended(b)
StillCarries(d) ==
    /\ call'[d].at \in Carries => call[d].at \in Carries /\ call'[d].sent = call[d].sent
    /\ call'[d].at \in {"bytes", "row"} => /\ call'[d].at = call[d].at /\ call'[d].t = call[d].t
                                           /\ call'[d].f = call[d].f
    /\ call'[d].at \in {"gc", "gcrow"} => call[d].at \in {"gc", "gcrow"} /\ call'[d].todo \subseteq call[d].todo
    /\ call'[d].t = call[d].t \/ call'[d].t = 0
ExchangeFrame ==
    /\ UNCHANGED <<rows, bytes>> /\ (history'.reput <=> history.reput) /\ (history'.broken <=> history.broken)
    /\ \A d \in Calls : StillCarries(d)

LEMMA CarriesAre == Carries = {"copy", "load", "find", "bytes", "row"}
  BY DEF Carries, Registers

LEMMA WaitedKept ==
  ASSUME Types, Sweeps, Waited
  PROVE  \A d \in Calls : Req(d)'.op = "gc" /\ call'[d].at # "idle" => \A b \in Req(d)'.after : Ended(b)'
  <1>1. \A d \in Calls : Req(d)' = Req(d) /\ Req(d).after \subseteq Calls
    BY PlanFacts DEF Waited, Req, RequestType
  <1>2. \A d \in Calls : Ended(d) => Ended(d)' BY DEF Waited, Ended
  <1> QED BY <1>1, <1>2 DEF Waited, Sweeps

LEMMA ExchangeKept ==
  ASSUME Base, Sweeps, Registering, Waited, ExchangeFrame
  PROVE  Sweeps' /\ Registering'
  <1>0. Types /\ Places BY DEF Base
  <1>1. UNCHANGED <<rows, bytes>> /\ (history'.reput <=> history.reput) /\ (history'.broken <=> history.broken)
        /\ \A d \in Calls : StillCarries(d) /\ Req(d)' = Req(d)
    BY DEF ExchangeFrame, Waited, Req
  <1>2. Sweeps'
    <2>1. \A d \in Calls : call'[d].at \in {"gc", "gcrow"} => \A t \in call'[d].todo : rows'[t].expired
      BY <1>1 DEF Sweeps, StillCarries
    <2> QED BY <1>0, <2>1, WaitedKept DEF Sweeps
  <1>3. \A d \in Calls : call'[d].at \in {"bytes", "row"} =>
           /\ call'[d].at = call[d].at /\ call'[d].t = call[d].t /\ Digest(d)' = Digest(d) /\ call[d].t # 0
    <2>1. \A d \in Calls : call[d].at \in {"bytes", "row"} => call[d].t # 0
      BY <1>0, FileFacts DEF Places, Place
    <2> QED BY <1>1, <2>1, CarriesAre DEF StillCarries, Digest
  <1>4. \A d \in Calls : call'[d].at \in Carries => \A f \in Files : call'[d].sent[f] # None
    BY <1>1 DEF StillCarries, Registering
  <1>5. \A d \in Calls : call'[d].at \in {"bytes", "row"} /\ Req(d).tid = 0 =>
          /\ rows'[call'[d].t] = NoRow
          /\ \A b \in Calls : Req(b).tid # call'[d].t /\ (b # d => call'[b].t # call'[d].t)
    BY <1>1, <1>3 DEF Registering, StillCarries
  <1>6. /\ \A t \in Transfers : rows'[t].digest = None => rows'[t] = NoRow
        /\ \A d \in Calls : call'[d].at = "bytes" /\ Req(d).tid = 0 => bytes'[call'[d].t] = None
    BY <1>1, <1>3 DEF Registering
  <1>7. ~history'.reput =>
          /\ \A d \in Calls : call'[d].at = "row" =>
                /\ rows'[call'[d].t] = NoRow /\ bytes'[call'[d].t] = Digest(d)'
                /\ \A b \in Calls : call'[b].at = "row" /\ call'[b].t = call'[d].t => b = d
          /\ \A t \in Transfers : rows'[t] # NoRow /\ ~rows'[t].expired => bytes'[t] = rows'[t].digest
          /\ ~history'.broken
    BY <1>1, <1>3 DEF Registering
  <1> QED BY <1>1, <1>2, <1>4, <1>5, <1>6, <1>7 DEF Registering

LEMMA GivenStep ==
  ASSUME Base, OneDispatch, Lists, Given, [Next]_vars
  PROVE  Given'
  <1> Types /\ Places /\ Records /\ Removals BY DEF Base
  <1>IssueRoute. ASSUME NEW c \in Calls, IssueRoute(c) PROVE Given'
    <2> USE <1>IssueRoute
    <2> Place(c) BY DEF Places
    <2>2. Req(c).op # "dispatch" BY IssueRouteMoves, OpOf DEF Begins
    <2> QED BY <2>2, IssueRouteMoves, GivenKept DEF Becomes
  <1>IssueCheck. ASSUME NEW c \in Calls, IssueCheck(c) PROVE Given'
    <2> USE <1>IssueCheck
    <2> Place(c) BY DEF Places
    <2>2. Req(c).op # "dispatch" BY IssueCheckMoves, OpOf DEF Begins
    <2> QED BY <2>2, IssueCheckMoves, GivenKept DEF Becomes
  <1>IssueRecord. ASSUME NEW c \in Calls, IssueRecord(c) PROVE Given'
    <2> USE <1>IssueRecord
    <2> Place(c) BY DEF Places
    <2>2. Req(c).op # "dispatch" BY IssueRecordMoves, OpOf DEF Begins
    <2> QED BY <2>2, IssueRecordMoves, GivenKept DEF Becomes
  <1>IssuePersist. ASSUME NEW c \in Calls, IssuePersist(c) PROVE Given'
    <2> USE <1>IssuePersist
    <2> Place(c) BY DEF Places
    <2>2. Req(c).op # "dispatch" BY IssuePersistMoves, OpOf DEF Begins
    <2> QED BY <2>2, IssuePersistMoves, GivenKept DEF Becomes
  <1>CallStaged. ASSUME NEW c \in Calls, CallStaged(c) PROVE Given'
    <2> USE <1>CallStaged
    <2> Place(c) BY DEF Places
    <2>2. Req(c).op # "dispatch" BY CallStagedMoves, OpOf DEF Begins
    <2> QED BY <2>2, CallStagedMoves, GivenKept DEF Becomes
  <1>CallMap. ASSUME NEW c \in Calls, CallMap(c) PROVE Given'
    <2> USE <1>CallMap
    <2> Place(c) BY DEF Places
    <2>2. Req(c).op # "dispatch" BY CallMapMoves, OpOf DEF Begins
    <2> QED BY <2>2, CallMapMoves, GivenKept DEF Becomes
  <1>CallDir. ASSUME NEW c \in Calls, CallDir(c) PROVE Given'
    <2> USE <1>CallDir
    <2> Place(c) BY DEF Places
    <2>2. Req(c).op # "dispatch" BY CallDirMoves, OpOf DEF Begins
    <2> QED BY <2>2, CallDirMoves, GivenKept DEF Becomes
  <1>AcceptWrite. ASSUME NEW c \in Calls, AcceptWrite(c) PROVE Given'
    <2> USE <1>AcceptWrite
    <2> Place(c) BY DEF Places
    <2>2. Req(c).op # "dispatch" BY AcceptWriteMoves, OpOf DEF Begins
    <2> QED BY <2>2, AcceptWriteMoves, GivenKept DEF Becomes
  <1>AcceptMark. ASSUME NEW c \in Calls, AcceptMark(c) PROVE Given'
    <2> USE <1>AcceptMark
    <2> Place(c) BY DEF Places
    <2>2. Req(c).op # "dispatch" BY AcceptMarkMoves, OpOf DEF Begins
    <2> QED BY <2>2, AcceptMarkMoves, GivenKept DEF Becomes
  <1>AcceptPersist. ASSUME NEW c \in Calls, AcceptPersist(c) PROVE Given'
    <2> USE <1>AcceptPersist
    <2> Place(c) BY DEF Places
    <2>2. Req(c).op # "dispatch" BY AcceptPersistMoves, OpOf DEF Begins
    <2> QED BY <2>2, AcceptPersistMoves, GivenKept DEF Becomes
  <1>Cancel. ASSUME NEW c \in Calls, NEW i \in Intents, Cancel(c, i) PROVE Given'
    <2> USE <1>Cancel
    <2> Place(c) BY DEF Places
    <2>2. Req(c).op # "dispatch" BY CancelMoves, OpOf DEF Begins
    <2> QED BY <2>2, CancelMoves, GivenKept DEF Becomes
  <1>AcceptCheck. ASSUME NEW c \in Calls, NEW i \in Intents, AcceptCheck(c, i) PROVE Given'
    <2> USE <1>AcceptCheck
    <2> Place(c) BY DEF Places
    <2>2. Req(c).op # "dispatch" BY AcceptCheckMoves, OpOf DEF Begins
    <2> QED BY <2>2, AcceptCheckMoves, GivenKept DEF Becomes
  <1>prepareResolve. ASSUME NEW c \in Calls, NEW i \in Intents, prepareResolve(c, i) PROVE Given'
    <2> USE <1>prepareResolve
    <2> Place(c) BY DEF Places
    <2>2. Req(c).op # "dispatch" BY prepareResolveMoves, OpOf DEF Begins
    <2> QED BY <2>2, prepareResolveMoves, GivenKept DEF Becomes
  <1>StageFile. ASSUME NEW c \in Calls, StageFile(c) PROVE Given'
    <2> USE <1>StageFile
    <2> Place(c) BY DEF Places
    <2>2. Req(c).op # "dispatch" BY StageFileMoves, OpOf DEF Begins
    <2> QED BY <2>2, StageFileMoves, GivenKept DEF Becomes
  <1>MarkPrepared. ASSUME NEW c \in Calls, MarkPrepared(c) PROVE Given'
    <2> USE <1>MarkPrepared
    <2> Place(c) BY DEF Places
    <2>2. Req(c).op # "dispatch" BY MarkPreparedMoves, OpOf DEF Begins
    <2> QED BY <2>2, MarkPreparedMoves, GivenKept DEF Becomes
  <1>PreparedPersist. ASSUME NEW c \in Calls, PreparedPersist(c) PROVE Given'
    <2> USE <1>PreparedPersist
    <2> Place(c) BY DEF Places
    <2>2. Req(c).op # "dispatch" BY PreparedPersistMoves, OpOf DEF Begins
    <2> QED BY <2>2, PreparedPersistMoves, GivenKept DEF Becomes
  <1>resolveFlowStep. ASSUME NEW c \in Calls, resolveFlowStep(c) PROVE Given'
    <2> USE <1>resolveFlowStep
    <2> Place(c) BY DEF Places
    <2>2. Req(c).op # "dispatch" BY resolveFlowStepMoves, OpOf DEF Begins
    <2> QED BY <2>2, resolveFlowStepMoves, GivenKept DEF Becomes
  <1>PromoteRead. ASSUME NEW c \in Calls, PromoteRead(c) PROVE Given'
    <2> USE <1>PromoteRead
    <2> Place(c) BY DEF Places
    <2>2. Req(c).op # "dispatch" BY PromoteReadMoves, OpOf DEF Begins
    <2> QED BY <2>2, PromoteReadMoves, GivenKept DEF Becomes
  <1>PromoteCopy. ASSUME NEW c \in Calls, PromoteCopy(c) PROVE Given'
    <2> USE <1>PromoteCopy
    <2> Place(c) BY DEF Places
    <2>2. Req(c).op # "dispatch" BY PromoteCopyMoves, OpOf DEF Begins
    <2> QED BY <2>2, PromoteCopyMoves, GivenKept DEF Becomes
  <1>PromoteUnlink. ASSUME NEW c \in Calls, PromoteUnlink(c) PROVE Given'
    <2> USE <1>PromoteUnlink
    <2> Place(c) BY DEF Places
    <2>2. Req(c).op # "dispatch" BY PromoteUnlinkMoves, OpOf DEF Begins
    <2> QED BY <2>2, PromoteUnlinkMoves, GivenKept DEF Becomes
  <1>ResolveMemo. ASSUME NEW c \in Calls, ResolveMemo(c) PROVE Given'
    <2> USE <1>ResolveMemo
    <2> Place(c) BY DEF Places
    <2>2. Req(c).op # "dispatch" BY ResolveMemoMoves, OpOf DEF Begins
    <2> QED BY <2>2, ResolveMemoMoves, GivenKept DEF Becomes
  <1>ResolveExec. ASSUME NEW c \in Calls, ResolveExec(c) PROVE Given'
    <2> USE <1>ResolveExec
    <2> Place(c) BY DEF Places
    <2>2. Req(c).op # "dispatch" BY ResolveExecMoves, OpOf DEF Begins
    <2> QED BY <2>2, ResolveExecMoves, GivenKept DEF Becomes
  <1>DispatchBegin. ASSUME NEW c \in Calls, DispatchBegin(c) PROVE Given'
    <2> USE <1>DispatchBegin
    <2>1. /\ UNCHANGED <<plan, inputs>> /\ Req(c).op = "dispatch" /\ call[c].at = "idle"
          /\ \A d \in Calls : d # c => call'[d] = call[d]
          /\ call'[c].at = "materialize" /\ call'[c].todo = bag /\ call'[c].arts = bag /\ call'[c].res = call[c].res
      BY DispatchBeginMoves DEF Becomes, Begins, At
    <2>2. \A d \in Calls : Req(d)' = Req(d) BY <2>1 DEF Req
    <2>3. call[c].res = None /\ Functional(bag) BY <2>1 DEF Given, Lists
    <2> QED BY <2>1, <2>2, <2>3 DEF Given, Functional, None
  <1>materializeConsumerCopy. ASSUME NEW c \in Calls, materializeConsumerCopy(c) PROVE Given'
    <2> USE <1>materializeConsumerCopy
    <2>1. /\ UNCHANGED plan /\ call[c].at = "materialize" /\ call'[c].arts = call[c].arts
          /\ \E e \in call[c].todo :
                \/ call'[c].at = "done" /\ call'[c].res = "fail"
                \/ /\ inputs' = [inputs EXCEPT ![e[1]] = e[2]] /\ call'[c].at = "materialize"
                   /\ call'[c].todo = call[c].todo \ {e} /\ call'[c].res = call[c].res
      BY materializeConsumerCopyMoves DEF Becomes
    <2>2. Req(c).op = "dispatch" /\ Functional(call[c].arts) /\ call[c].res = None
          /\ \A e \in call[c].arts \ call[c].todo : inputs[e[1]] = e[2]
      <3>1. Req(c).op = "dispatch" BY <2>1, OpOf DEF Places
      <3> QED BY <2>1, <3>1 DEF Given
    <2>3. \A d \in Calls : Req(d)' = Req(d) /\ (Req(d).op = "dispatch" => d = c)
      BY <2>1, <2>2 DEF Req, OneDispatch, Types
    <2>4. CASE call'[c].at = "done" /\ call'[c].res = "fail" BY <2>1, <2>2, <2>3, <2>4 DEF Given, Functional
    <2>5. CASE ~(call'[c].at = "done" /\ call'[c].res = "fail")
      <3>1. PICK e \in call[c].todo :
                /\ inputs' = [inputs EXCEPT ![e[1]] = e[2]] /\ call'[c].at = "materialize"
                /\ call'[c].todo = call[c].todo \ {e} /\ call'[c].res = call[c].res
        BY <2>1, <2>5
      <3>2. call[c].todo \subseteq call[c].arts /\ \A d \in call[c].arts : d[1] \in Files
        <4>1. call[c].todo \subseteq call[c].arts /\ call[c].arts \in Listings
          BY <2>2, CallTypes DEF Places, Place, Types
        <4> QED BY <4>1 DEF Listings
      <3>3. \A f \in Files : inputs'[f] = IF f = e[1] THEN e[2] ELSE inputs[f]
        BY <3>1, <3>2 DEF Types, FileType
      <3>4. ASSUME NEW d \in call'[c].arts \ call'[c].todo
            PROVE  inputs'[d[1]] = d[2]
        <4>1. d \in call[c].arts /\ (d \notin call[c].todo \/ d = e) BY <2>1, <3>1, <3>4
        <4>2. d[1] = e[1] => d = e BY <2>2, <3>2, <4>1 DEF Functional
        <4> QED BY <2>2, <3>2, <3>3, <4>1, <4>2
      <3> QED BY <2>1, <2>2, <2>3, <3>1, <3>4 DEF Given, Functional, None
    <2> QED BY <2>4, <2>5
  <1>DispatchSpawn. ASSUME NEW c \in Calls, DispatchSpawn(c) PROVE Given'
    <2> USE <1>DispatchSpawn
    <2>1. /\ UNCHANGED <<plan, inputs>> /\ call[c].at = "materialize" /\ call[c].todo = {}
          /\ \A d \in Calls : d # c => call'[d] = call[d]
          /\ call'[c].at = "done" /\ call'[c].arts = call[c].arts
      BY DispatchSpawnMoves DEF Becomes
    <2>2. \A d \in Calls : Req(d)' = Req(d) BY <2>1 DEF Req
    <2>3. Req(c).op = "dispatch" BY <2>1, OpOf DEF Places
    <2>4. Functional(call[c].arts) /\ \A e \in call[c].arts : inputs[e[1]] = e[2] BY <2>1, <2>3 DEF Given
    <2> QED BY <2>1, <2>2, <2>4 DEF Given, Functional
  <1>StoreBegin. ASSUME NEW c \in Calls, StoreBegin(c) PROVE Given'
    <2> USE <1>StoreBegin
    <2> Place(c) BY DEF Places
    <2>2. Req(c).op # "dispatch" BY StoreBeginMoves, OpOf DEF Begins
    <2> QED BY <2>2, StoreBeginMoves, GivenKept DEF Becomes
  <1>PutFind. ASSUME NEW c \in Calls, PutFind(c) PROVE Given'
    <2> USE <1>PutFind
    <2> Place(c) BY DEF Places
    <2>2. Req(c).op # "dispatch" BY PutFindMoves, OpOf DEF Begins
    <2> QED BY <2>2, PutFindMoves, GivenKept DEF Becomes
  <1>PutBytes. ASSUME NEW c \in Calls, PutBytes(c) PROVE Given'
    <2> USE <1>PutBytes
    <2> Place(c) BY DEF Places
    <2>2. Req(c).op # "dispatch" BY PutBytesMoves, OpOf DEF Begins
    <2> QED BY <2>2, PutBytesMoves, GivenKept DEF Becomes
  <1>PutRow. ASSUME NEW c \in Calls, PutRow(c) PROVE Given'
    <2> USE <1>PutRow
    <2> Place(c) BY DEF Places
    <2>2. Req(c).op # "dispatch" BY PutRowMoves, OpOf DEF Begins
    <2> QED BY <2>2, PutRowMoves, GivenKept DEF Becomes
  <1>GcList. ASSUME NEW c \in Calls, GcList(c) PROVE Given'
    <2> USE <1>GcList
    <2> Place(c) BY DEF Places
    <2>2. Req(c).op # "dispatch" BY GcListMoves, OpOf DEF Begins
    <2> QED BY <2>2, GcListMoves, GivenKept DEF Becomes
  <1>GcBytes. ASSUME NEW c \in Calls, GcBytes(c) PROVE Given'
    <2> USE <1>GcBytes
    <2> Place(c) BY DEF Places
    <2>2. Req(c).op # "dispatch" BY GcBytesMoves, OpOf DEF Begins
    <2> QED BY <2>2, GcBytesMoves, GivenKept DEF Becomes
  <1>GcRow. ASSUME NEW c \in Calls, GcRow(c) PROVE Given'
    <2> USE <1>GcRow
    <2> Place(c) BY DEF Places
    <2>2. Req(c).op # "dispatch" BY GcRowMoves, OpOf DEF Begins
    <2> QED BY <2>2, GcRowMoves, GivenKept DEF Becomes
  <1>LoadBytes. ASSUME NEW c \in Calls, LoadBytes(c) PROVE Given'
    <2> USE <1>LoadBytes
    <2> Place(c) BY DEF Places
    <2>2. Req(c).op # "dispatch" BY LoadBytesMoves, OpOf DEF Begins
    <2> QED BY <2>2, LoadBytesMoves, GivenKept DEF Becomes
  <1>LoadRow. ASSUME NEW c \in Calls, NEW t \in Transfers, LoadRow(c, t) PROVE Given'
    <2> USE <1>LoadRow
    <2> Place(c) BY DEF Places
    <2>2. Req(c).op # "dispatch" BY LoadRowMoves, OpOf DEF Begins
    <2> QED BY <2>2, LoadRowMoves, GivenKept DEF Becomes
  <1>LeaseLapses. ASSUME NEW i \in Intents, LeaseLapses(i) PROVE Given'
    <2> USE <1>LeaseLapses
    <2> QED BY LeaseLapsesMoves, GivenKept
  <1>sweepExpired. ASSUME NEW i \in Intents, sweepExpired(i) PROVE Given'
    <2> USE <1>sweepExpired
    <2> QED BY sweepExpiredMoves, GivenKept
  <1>ReapStaged. ASSUME NEW i \in Intents, ReapStaged(i) PROVE Given'
    <2> USE <1>ReapStaged
    <2> QED BY ReapStagedMoves, GivenKept
  <1>ReapMap. ASSUME NEW i \in Intents, ReapMap(i) PROVE Given'
    <2> USE <1>ReapMap
    <2> QED BY ReapMapMoves, GivenKept
  <1>ReapDir. ASSUME NEW i \in Intents, ReapDir(i) PROVE Given'
    <2> USE <1>ReapDir
    <2> QED BY ReapDirMoves, GivenKept
  <1>Expires. ASSUME NEW t \in Transfers, Expires(t) PROVE Given'
    <2> USE <1>Expires
    <2> QED BY ExpiresMoves, GivenKept
  <1>Crash. ASSUME Crash PROVE Given'
    <2> USE <1>Crash
    <2>1. UNCHANGED <<plan, inputs>> /\ \A d \in Calls : Req(d)' = Req(d) BY CrashMoves DEF Req
    <2>2. \A d \in Calls : \/ call'[d] = call[d]
                           \/ call'[d].at = "lost" /\ call'[d].arts = {} /\ call'[d].res = None
      BY CrashCalls
    <2> QED BY <2>1, <2>2 DEF Given, Functional, None
  <1>1. CASE UNCHANGED vars BY <1>1, GivenKept DEF vars, intents, tree, run, exchange
  <1>2. ASSUME NEW c \in Calls, IntentStep(c) PROVE Given'
    BY <1>2, <1>IssueRoute, <1>IssueCheck, <1>IssueRecord, <1>IssuePersist, <1>CallStaged, <1>CallMap, <1>CallDir,
       <1>AcceptWrite, <1>AcceptMark, <1>AcceptPersist, <1>Cancel, <1>AcceptCheck DEF IntentStep
  <1>3. ASSUME NEW c \in Calls, ResolveStep(c) PROVE Given'
    BY <1>3, <1>prepareResolve, <1>StageFile, <1>MarkPrepared, <1>PreparedPersist, <1>resolveFlowStep, <1>PromoteRead,
       <1>PromoteCopy, <1>PromoteUnlink, <1>ResolveMemo, <1>ResolveExec, <1>DispatchBegin, <1>materializeConsumerCopy,
       <1>DispatchSpawn DEF ResolveStep
  <1>4. ASSUME NEW c \in Calls, ExchangeStep(c) PROVE Given'
    BY <1>4, <1>StoreBegin, <1>PutFind, <1>PutBytes, <1>PutRow, <1>GcList, <1>GcBytes, <1>GcRow, <1>LoadBytes,
       <1>LoadRow DEF ExchangeStep
  <1>5. ASSUME NEW i \in Intents, LeaseLapses(i) \/ Reap(i) PROVE Given'
    BY <1>5, <1>LeaseLapses, <1>sweepExpired, <1>ReapStaged, <1>ReapMap, <1>ReapDir DEF Reap
  <1>6. ASSUME NEW t \in Transfers, Expires(t) PROVE Given'
    BY <1>6, <1>Expires
  <1>7. ASSUME Crash PROVE Given'
    BY <1>7, <1>Crash
  <1> QED BY <1>1, <1>2, <1>3, <1>4, <1>5, <1>6, <1>7 DEF Next

LEMMA ExchangeSteps ==
  ASSUME Base, SweepsApart, Sweeps, Registering, [Next]_vars
  PROVE  Sweeps' /\ Registering'
  <1> Types /\ Places /\ Records /\ Removals BY DEF Base
  <1>IssueRoute. ASSUME NEW c \in Calls, IssueRoute(c) PROVE Sweeps' /\ Registering'
    <2> USE <1>IssueRoute
    <2>2. Waited BY IssueRouteMoves DEF Becomes, Begins, At, Ended, Waited
    <2>3. ExchangeFrame
      BY IssueRouteMoves DEF Becomes, Begins, At, ExchangeFrame, StillCarries, Carries, Registers, Observed,
         RemovedFromMap
    <2> QED BY <2>2, <2>3, ExchangeKept
  <1>IssueCheck. ASSUME NEW c \in Calls, IssueCheck(c) PROVE Sweeps' /\ Registering'
    <2> USE <1>IssueCheck
    <2>2. Waited BY IssueCheckMoves DEF Becomes, Begins, At, Ended, Waited
    <2>3. ExchangeFrame
      BY IssueCheckMoves DEF Becomes, Begins, At, ExchangeFrame, StillCarries, Carries, Registers, Observed,
         RemovedFromMap
    <2> QED BY <2>2, <2>3, ExchangeKept
  <1>IssueRecord. ASSUME NEW c \in Calls, IssueRecord(c) PROVE Sweeps' /\ Registering'
    <2> USE <1>IssueRecord
    <2>2. Waited BY IssueRecordMoves DEF Becomes, Begins, At, Ended, Waited
    <2>3. ExchangeFrame
      BY IssueRecordMoves DEF Becomes, Begins, At, ExchangeFrame, StillCarries, Carries, Registers, Observed,
         RemovedFromMap
    <2> QED BY <2>2, <2>3, ExchangeKept
  <1>IssuePersist. ASSUME NEW c \in Calls, IssuePersist(c) PROVE Sweeps' /\ Registering'
    <2> USE <1>IssuePersist
    <2>2. Waited BY IssuePersistMoves DEF Becomes, Begins, At, Ended, Waited
    <2>3. ExchangeFrame
      BY IssuePersistMoves DEF Becomes, Begins, At, ExchangeFrame, StillCarries, Carries, Registers, Observed,
         RemovedFromMap
    <2> QED BY <2>2, <2>3, ExchangeKept
  <1>CallStaged. ASSUME NEW c \in Calls, CallStaged(c) PROVE Sweeps' /\ Registering'
    <2> USE <1>CallStaged
    <2>2. Waited BY CallStagedMoves DEF Becomes, Begins, At, Ended, Waited
    <2>3. ExchangeFrame
      BY CallStagedMoves DEF Becomes, Begins, At, ExchangeFrame, StillCarries, Carries, Registers, Observed,
         RemovedFromMap
    <2> QED BY <2>2, <2>3, ExchangeKept
  <1>CallMap. ASSUME NEW c \in Calls, CallMap(c) PROVE Sweeps' /\ Registering'
    <2> USE <1>CallMap
    <2>2. Waited BY CallMapMoves DEF Becomes, Begins, At, Ended, Waited
    <2>3. ExchangeFrame
      BY CallMapMoves DEF Becomes, Begins, At, ExchangeFrame, StillCarries, Carries, Registers, Observed,
         RemovedFromMap
    <2> QED BY <2>2, <2>3, ExchangeKept
  <1>CallDir. ASSUME NEW c \in Calls, CallDir(c) PROVE Sweeps' /\ Registering'
    <2> USE <1>CallDir
    <2>2. Waited BY CallDirMoves DEF Becomes, Begins, At, Ended, Waited
    <2>3. ExchangeFrame
      BY CallDirMoves DEF Becomes, Begins, At, ExchangeFrame, StillCarries, Carries, Registers, Observed,
         RemovedFromMap
    <2> QED BY <2>2, <2>3, ExchangeKept
  <1>AcceptWrite. ASSUME NEW c \in Calls, AcceptWrite(c) PROVE Sweeps' /\ Registering'
    <2> USE <1>AcceptWrite
    <2>2. Waited BY AcceptWriteMoves DEF Becomes, Begins, At, Ended, Waited
    <2>3. ExchangeFrame
      BY AcceptWriteMoves DEF Becomes, Begins, At, ExchangeFrame, StillCarries, Carries, Registers, Observed,
         RemovedFromMap
    <2> QED BY <2>2, <2>3, ExchangeKept
  <1>AcceptMark. ASSUME NEW c \in Calls, AcceptMark(c) PROVE Sweeps' /\ Registering'
    <2> USE <1>AcceptMark
    <2>2. Waited BY AcceptMarkMoves DEF Becomes, Begins, At, Ended, Waited
    <2>3. ExchangeFrame
      BY AcceptMarkMoves DEF Becomes, Begins, At, ExchangeFrame, StillCarries, Carries, Registers, Observed,
         RemovedFromMap
    <2> QED BY <2>2, <2>3, ExchangeKept
  <1>AcceptPersist. ASSUME NEW c \in Calls, AcceptPersist(c) PROVE Sweeps' /\ Registering'
    <2> USE <1>AcceptPersist
    <2>2. Waited BY AcceptPersistMoves DEF Becomes, Begins, At, Ended, Waited
    <2>3. ExchangeFrame
      BY AcceptPersistMoves DEF Becomes, Begins, At, ExchangeFrame, StillCarries, Carries, Registers, Observed,
         RemovedFromMap
    <2> QED BY <2>2, <2>3, ExchangeKept
  <1>Cancel. ASSUME NEW c \in Calls, NEW i \in Intents, Cancel(c, i) PROVE Sweeps' /\ Registering'
    <2> USE <1>Cancel
    <2>2. Waited BY CancelMoves DEF Becomes, Begins, At, Ended, Waited
    <2>3. ExchangeFrame
      BY CancelMoves DEF Becomes, Begins, At, ExchangeFrame, StillCarries, Carries, Registers, Observed,
         RemovedFromMap
    <2> QED BY <2>2, <2>3, ExchangeKept
  <1>AcceptCheck. ASSUME NEW c \in Calls, NEW i \in Intents, AcceptCheck(c, i) PROVE Sweeps' /\ Registering'
    <2> USE <1>AcceptCheck
    <2>2. Waited BY AcceptCheckMoves DEF Becomes, Begins, At, Ended, Waited
    <2>3. ExchangeFrame
      BY AcceptCheckMoves DEF Becomes, Begins, At, ExchangeFrame, StillCarries, Carries, Registers, Observed,
         RemovedFromMap
    <2> QED BY <2>2, <2>3, ExchangeKept
  <1>prepareResolve. ASSUME NEW c \in Calls, NEW i \in Intents, prepareResolve(c, i)
        PROVE  Sweeps' /\ Registering'
    <2> USE <1>prepareResolve
    <2>2. Waited BY prepareResolveMoves DEF Becomes, Begins, At, Ended, Waited
    <2>3. ExchangeFrame
      BY prepareResolveMoves DEF Becomes, Begins, At, ExchangeFrame, StillCarries, Carries, Registers, Observed,
         RemovedFromMap
    <2> QED BY <2>2, <2>3, ExchangeKept
  <1>StageFile. ASSUME NEW c \in Calls, StageFile(c) PROVE Sweeps' /\ Registering'
    <2> USE <1>StageFile
    <2>2. Waited BY StageFileMoves DEF Becomes, Begins, At, Ended, Waited
    <2>3. ExchangeFrame
      BY StageFileMoves DEF Becomes, Begins, At, ExchangeFrame, StillCarries, Carries, Registers, Observed,
         RemovedFromMap
    <2> QED BY <2>2, <2>3, ExchangeKept
  <1>MarkPrepared. ASSUME NEW c \in Calls, MarkPrepared(c) PROVE Sweeps' /\ Registering'
    <2> USE <1>MarkPrepared
    <2>2. Waited BY MarkPreparedMoves DEF Becomes, Begins, At, Ended, Waited
    <2>3. ExchangeFrame
      BY MarkPreparedMoves DEF Becomes, Begins, At, ExchangeFrame, StillCarries, Carries, Registers, Observed,
         RemovedFromMap
    <2> QED BY <2>2, <2>3, ExchangeKept
  <1>PreparedPersist. ASSUME NEW c \in Calls, PreparedPersist(c) PROVE Sweeps' /\ Registering'
    <2> USE <1>PreparedPersist
    <2>2. Waited BY PreparedPersistMoves DEF Becomes, Begins, At, Ended, Waited
    <2>3. ExchangeFrame
      BY PreparedPersistMoves DEF Becomes, Begins, At, ExchangeFrame, StillCarries, Carries, Registers, Observed,
         RemovedFromMap
    <2> QED BY <2>2, <2>3, ExchangeKept
  <1>resolveFlowStep. ASSUME NEW c \in Calls, resolveFlowStep(c) PROVE Sweeps' /\ Registering'
    <2> USE <1>resolveFlowStep
    <2>2. Waited BY resolveFlowStepMoves DEF Becomes, Begins, At, Ended, Waited
    <2>3. ExchangeFrame
      BY resolveFlowStepMoves DEF Becomes, Begins, At, ExchangeFrame, StillCarries, Carries, Registers, Observed,
         RemovedFromMap
    <2> QED BY <2>2, <2>3, ExchangeKept
  <1>PromoteRead. ASSUME NEW c \in Calls, PromoteRead(c) PROVE Sweeps' /\ Registering'
    <2> USE <1>PromoteRead
    <2>1. Waited BY PromoteReadMoves DEF Becomes, Begins, At, Ended, Waited
    <2>2. /\ UNCHANGED <<rows, bytes, history>> /\ call[c].at = "read" /\ call'[c].t = call[c].t
          /\ call'[c].at \in {"done", "staged"} \/ (call'[c].at = "copy" /\ call'[c].sent = work /\ Present(work) = Files)
          /\ \A d \in Calls : d # c => call'[d] = call[d]
      BY PromoteReadMoves DEF Becomes, Begins, At, Overfull
    <2>3. \A d \in Calls : Req(d)' = Req(d) BY <2>1 DEF Waited, Req
    <2>4. \A d \in Calls : Req(d)'.op = "gc" /\ call'[d].at # "idle" => \A b \in Req(d)'.after : Ended(b)'
      BY <2>1, WaitedKept
    <2>5. Sweeps'
      <3>1. \A d \in Calls : call'[d].at \in {"gc", "gcrow"} => \A t \in call'[d].todo : rows'[t].expired
        BY <2>2 DEF Sweeps
      <3> QED BY <2>4, <3>1 DEF Sweeps
    <2>6. /\ \A t \in Transfers : rows'[t].digest = None => rows'[t] = NoRow
          /\ \A d \in Calls : call'[d].at \in Carries => \A f \in Files : call'[d].sent[f] # None
          /\ \A d \in Calls : call'[d].at = "bytes" /\ Req(d)'.tid = 0 => bytes'[call'[d].t] = None
      <3>1. Present(work) = Files => \A f \in Files : work[f] # None BY DEF Present
      <3> QED BY <2>2, <2>3, <3>1, CarriesAre DEF Registering
    <2>7. \A d \in Calls : call'[d].at \in {"bytes", "row"} /\ Req(d)'.tid = 0 =>
            /\ rows'[call'[d].t] = NoRow
            /\ \A b \in Calls : Req(b)'.tid # call'[d].t /\ (b # d => call'[b].t # call'[d].t)
      BY <2>2, <2>3 DEF Registering
    <2>8. ~history'.reput =>
            /\ \A d \in Calls : call'[d].at = "row" =>
                  /\ rows'[call'[d].t] = NoRow /\ bytes'[call'[d].t] = call'[d].sent[call'[d].f]
                  /\ \A b \in Calls : call'[b].at = "row" /\ call'[b].t = call'[d].t => b = d
            /\ \A t \in Transfers : rows'[t] # NoRow /\ ~rows'[t].expired => bytes'[t] = rows'[t].digest
            /\ ~history'.broken
      BY <2>2, <2>3 DEF Registering, Digest
    <2> QED BY <2>5, <2>6, <2>7, <2>8 DEF Registering, Digest
  <1>PromoteCopy. ASSUME NEW c \in Calls, PromoteCopy(c) PROVE Sweeps' /\ Registering'
    <2> USE <1>PromoteCopy
    <2>2. Waited BY PromoteCopyMoves DEF Becomes, Begins, At, Ended, Waited
    <2>3. ExchangeFrame
      BY PromoteCopyMoves DEF Becomes, Begins, At, ExchangeFrame, StillCarries, Carries, Registers, Observed,
         RemovedFromMap
    <2> QED BY <2>2, <2>3, ExchangeKept
  <1>PromoteUnlink. ASSUME NEW c \in Calls, PromoteUnlink(c) PROVE Sweeps' /\ Registering'
    <2> USE <1>PromoteUnlink
    <2>2. Waited BY PromoteUnlinkMoves DEF Becomes, Begins, At, Ended, Waited
    <2>3. ExchangeFrame
      BY PromoteUnlinkMoves DEF Becomes, Begins, At, ExchangeFrame, StillCarries, Carries, Registers, Observed,
         RemovedFromMap
    <2> QED BY <2>2, <2>3, ExchangeKept
  <1>ResolveMemo. ASSUME NEW c \in Calls, ResolveMemo(c) PROVE Sweeps' /\ Registering'
    <2> USE <1>ResolveMemo
    <2>2. Waited BY ResolveMemoMoves DEF Becomes, Begins, At, Ended, Waited
    <2>3. ExchangeFrame
      BY ResolveMemoMoves DEF Becomes, Begins, At, ExchangeFrame, StillCarries, Carries, Registers, Observed,
         RemovedFromMap
    <2> QED BY <2>2, <2>3, ExchangeKept
  <1>ResolveExec. ASSUME NEW c \in Calls, ResolveExec(c) PROVE Sweeps' /\ Registering'
    <2> USE <1>ResolveExec
    <2>2. Waited BY ResolveExecMoves DEF Becomes, Begins, At, Ended, Waited
    <2>3. ExchangeFrame
      BY ResolveExecMoves DEF Becomes, Begins, At, ExchangeFrame, StillCarries, Carries, Registers, Observed,
         RemovedFromMap
    <2> QED BY <2>2, <2>3, ExchangeKept
  <1>DispatchBegin. ASSUME NEW c \in Calls, DispatchBegin(c) PROVE Sweeps' /\ Registering'
    <2> USE <1>DispatchBegin
    <2>2. Waited BY DispatchBeginMoves DEF Becomes, Begins, At, Ended, Waited
    <2>3. ExchangeFrame
      BY DispatchBeginMoves DEF Becomes, Begins, At, ExchangeFrame, StillCarries, Carries, Registers, Observed,
         RemovedFromMap
    <2> QED BY <2>2, <2>3, ExchangeKept
  <1>materializeConsumerCopy. ASSUME NEW c \in Calls, materializeConsumerCopy(c) PROVE Sweeps' /\ Registering'
    <2> USE <1>materializeConsumerCopy
    <2>2. Waited BY materializeConsumerCopyMoves DEF Becomes, Begins, At, Ended, Waited
    <2>3. ExchangeFrame
      BY materializeConsumerCopyMoves DEF Becomes, Begins, At, ExchangeFrame, StillCarries, Carries, Registers,
         Observed, RemovedFromMap
    <2> QED BY <2>2, <2>3, ExchangeKept
  <1>DispatchSpawn. ASSUME NEW c \in Calls, DispatchSpawn(c) PROVE Sweeps' /\ Registering'
    <2> USE <1>DispatchSpawn
    <2>2. Waited BY DispatchSpawnMoves DEF Becomes, Begins, At, Ended, Waited
    <2>3. ExchangeFrame
      BY DispatchSpawnMoves DEF Becomes, Begins, At, ExchangeFrame, StillCarries, Carries, Registers, Observed,
         RemovedFromMap
    <2> QED BY <2>2, <2>3, ExchangeKept
  <1>StoreBegin. ASSUME NEW c \in Calls, StoreBegin(c) PROVE Sweeps' /\ Registering'
    <2> USE <1>StoreBegin
    <2>1. Waited BY StoreBeginMoves DEF Becomes, Begins, At, Ended, Waited
    <2>2. /\ UNCHANGED <<rows, bytes, history>> /\ call[c].at = "idle" /\ call'[c].at = "find" /\ call'[c].t = call[c].t
          /\ call'[c].sent = [f \in Files |-> Req(c).bytes]
          /\ \A d \in Calls : d # c => call'[d] = call[d]
      BY StoreBeginMoves DEF Becomes, Begins, At
    <2>3. \A d \in Calls : Req(d)' = Req(d) BY <2>1 DEF Waited, Req
    <2>4. \A d \in Calls : Req(d)'.op = "gc" /\ call'[d].at # "idle" => \A b \in Req(d)'.after : Ended(b)'
      BY <2>1, WaitedKept
    <2>5. Sweeps'
      <3>1. \A d \in Calls : call'[d].at \in {"gc", "gcrow"} => \A t \in call'[d].todo : rows'[t].expired
        BY <2>2 DEF Sweeps
      <3> QED BY <2>4, <3>1 DEF Sweeps
    <2>6. /\ \A t \in Transfers : rows'[t].digest = None => rows'[t] = NoRow
          /\ \A d \in Calls : call'[d].at \in Carries => \A f \in Files : call'[d].sent[f] # None
          /\ \A d \in Calls : call'[d].at = "bytes" /\ Req(d)'.tid = 0 => bytes'[call'[d].t] = None
      <3>1. Req(c).bytes # None BY PlanFacts, ArtifactAssumption DEF RequestType
      <3> QED BY <2>2, <2>3, <3>1 DEF Registering, Carries
    <2>7. \A d \in Calls : call'[d].at \in {"bytes", "row"} /\ Req(d)'.tid = 0 =>
            /\ rows'[call'[d].t] = NoRow
            /\ \A b \in Calls : Req(b)'.tid # call'[d].t /\ (b # d => call'[b].t # call'[d].t)
      BY <2>2, <2>3 DEF Registering
    <2>8. ~history'.reput =>
            /\ \A d \in Calls : call'[d].at = "row" =>
                  /\ rows'[call'[d].t] = NoRow /\ bytes'[call'[d].t] = call'[d].sent[call'[d].f]
                  /\ \A b \in Calls : call'[b].at = "row" /\ call'[b].t = call'[d].t => b = d
            /\ \A t \in Transfers : rows'[t] # NoRow /\ ~rows'[t].expired => bytes'[t] = rows'[t].digest
            /\ ~history'.broken
      BY <2>2, <2>3 DEF Registering, Digest
    <2> QED BY <2>5, <2>6, <2>7, <2>8 DEF Registering, Digest
  <1>PutFind. ASSUME NEW c \in Calls, PutFind(c) PROVE Sweeps' /\ Registering'
    <2> USE <1>PutFind
    <2>1. Waited BY PutFindMoves DEF Becomes, Begins, At, Ended, Waited
    <2>2. /\ UNCHANGED <<rows, bytes, history>> /\ call[c].at = "find" /\ call'[c].sent = call[c].sent
          /\ \/ call'[c].at \in {"done", "unlink", "copy"} /\ call'[c].t = call[c].t
             \/ /\ call'[c].at = "bytes" /\ call'[c].t \in Transfers
                /\ IF Req(c).tid = 0 THEN Unused(call'[c].t) ELSE call'[c].t = Req(c).tid
          /\ \A d \in Calls : d # c => call'[d] = call[d]
      BY PutFindMoves DEF Becomes, Begins, At
    <2>3. \A d \in Calls : Req(d)' = Req(d) BY <2>1 DEF Waited, Req
    <2>4. \A d \in Calls : Req(d)'.op = "gc" /\ call'[d].at # "idle" => \A b \in Req(d)'.after : Ended(b)'
      BY <2>1, WaitedKept
    <2>0a. \A d \in Calls : call[d].at \in {"bytes", "row"} => call[d].t \in Transfers /\ call[d].t # 0
      BY FileFacts DEF Places, Place
    <2>5. Sweeps'
      <3>1. \A d \in Calls : call'[d].at \in {"gc", "gcrow"} => \A t \in call'[d].todo : rows'[t].expired
        BY <2>2 DEF Sweeps
      <3> QED BY <2>4, <3>1 DEF Sweeps
    <2>6. /\ \A t \in Transfers : rows'[t].digest = None => rows'[t] = NoRow
          /\ \A d \in Calls : call'[d].at \in Carries => \A f \in Files : call'[d].sent[f] # None
          /\ \A d \in Calls : call'[d].at = "bytes" /\ Req(d)'.tid = 0 => bytes'[call'[d].t] = None
      <3>1. Req(c).tid = 0 /\ call'[c].at = "bytes" => bytes[call'[c].t] = None BY <2>2 DEF Unused
      <3> QED BY <2>2, <2>3, <3>1, CarriesAre DEF Registering
    <2>7. \A d \in Calls : call'[d].at \in {"bytes", "row"} /\ Req(d)'.tid = 0 =>
            /\ rows'[call'[d].t] = NoRow
            /\ \A b \in Calls : Req(b)'.tid # call'[d].t /\ (b # d => call'[b].t # call'[d].t)
      <3>1. CASE call'[c].at # "bytes" BY <2>2, <2>3, <3>1 DEF Registering
      <3>2. CASE call'[c].at = "bytes"
        <4>1. Req(c).tid = 0 => /\ rows[call'[c].t] = NoRow
                                /\ \A b \in Calls : call[b].t # call'[c].t /\ Req(b).tid # call'[c].t
          BY <2>2, <3>2 DEF Unused
        <4>2. Req(c).tid # 0 => call'[c].t = Req(c).tid BY <2>2, <3>2
        <4> QED BY <2>2, <2>3, <3>2, <4>1, <4>2 DEF Registering
      <3> QED BY <3>1, <3>2
    <2>8. ~history'.reput =>
            /\ \A d \in Calls : call'[d].at = "row" =>
                  /\ rows'[call'[d].t] = NoRow /\ bytes'[call'[d].t] = call'[d].sent[call'[d].f]
                  /\ \A b \in Calls : call'[b].at = "row" /\ call'[b].t = call'[d].t => b = d
            /\ \A t \in Transfers : rows'[t] # NoRow /\ ~rows'[t].expired => bytes'[t] = rows'[t].digest
            /\ ~history'.broken
      BY <2>2, <2>3 DEF Registering, Digest
    <2> QED BY <2>5, <2>6, <2>7, <2>8 DEF Registering, Digest
  <1>PutBytes. ASSUME NEW c \in Calls, PutBytes(c) PROVE Sweeps' /\ Registering'
    <2> USE <1>PutBytes
    <2>1. Waited BY PutBytesMoves DEF Becomes, Begins, At, Ended, Waited
    <2>2. /\ UNCHANGED rows /\ bytes' = [bytes EXCEPT ![call[c].t] = Digest(c)] /\ call[c].at = "bytes"
          /\ call'[c].at = "row" /\ call'[c].t = call[c].t /\ call'[c].sent = call[c].sent /\ call'[c].f = call[c].f
          /\ (history'.broken <=> history.broken) /\ (history'.reput <=> (history.reput \/ Occupied(c)))
          /\ \A d \in Calls : d # c => call'[d] = call[d]
      BY PutBytesMoves DEF Becomes, Begins, At, Observed
    <2>3. \A d \in Calls : Req(d)' = Req(d) BY <2>1 DEF Waited, Req
    <2>4. \A d \in Calls : Req(d)'.op = "gc" /\ call'[d].at # "idle" => \A b \in Req(d)'.after : Ended(b)'
      BY <2>1, WaitedKept
    <2>0a. \A d \in Calls : call[d].at \in {"bytes", "row"} => call[d].t \in Transfers /\ call[d].t # 0
      BY FileFacts DEF Places, Place
    <2>5. Sweeps'
      <3>1. \A d \in Calls : call'[d].at \in {"gc", "gcrow"} => \A t \in call'[d].todo : rows'[t].expired
        BY <2>2 DEF Sweeps
      <3> QED BY <2>4, <3>1 DEF Sweeps
    <2>9. /\ call[c].t \in Transfers /\ bytes'[call[c].t] = Digest(c)
          /\ \A t \in Transfers : t # call[c].t => bytes'[t] = bytes[t]
      BY <2>0a, <2>2 DEF Types
    <2>6. /\ \A t \in Transfers : rows'[t].digest = None => rows'[t] = NoRow
          /\ \A d \in Calls : call'[d].at \in Carries => \A f \in Files : call'[d].sent[f] # None
          /\ \A d \in Calls : call'[d].at = "bytes" /\ Req(d)'.tid = 0 => bytes'[call'[d].t] = None
      <3>1. \A d \in Calls : d # c /\ call[d].at = "bytes" /\ Req(d).tid = 0 => call[d].t # call[c].t
        BY DEF Registering
      <3>2. \A d \in Calls : call'[d].at = "bytes" /\ Req(d).tid = 0 => bytes'[call'[d].t] = None
        BY <2>0a, <2>2, <2>9, <3>1 DEF Registering
      <3>3. \A d \in Calls : call'[d].at \in Carries => \A f \in Files : call'[d].sent[f] # None
        BY <2>2, CarriesAre DEF Registering
      <3> QED BY <2>2, <2>3, <3>2, <3>3 DEF Registering, Carries, Registers
    <2>7. \A d \in Calls : call'[d].at \in {"bytes", "row"} /\ Req(d)'.tid = 0 =>
            /\ rows'[call'[d].t] = NoRow
            /\ \A b \in Calls : Req(b)'.tid # call'[d].t /\ (b # d => call'[b].t # call'[d].t)
      BY <2>2, <2>3 DEF Registering
    <2>8. ~history'.reput =>
            /\ \A d \in Calls : call'[d].at = "row" =>
                  /\ rows'[call'[d].t] = NoRow /\ bytes'[call'[d].t] = call'[d].sent[call'[d].f]
                  /\ \A b \in Calls : call'[b].at = "row" /\ call'[b].t = call'[d].t => b = d
            /\ \A t \in Transfers : rows'[t] # NoRow /\ ~rows'[t].expired => bytes'[t] = rows'[t].digest
            /\ ~history'.broken
      <3> SUFFICES ASSUME ~history'.reput
                   PROVE  /\ \A d \in Calls : call'[d].at = "row" =>
                                /\ rows'[call'[d].t] = NoRow /\ bytes'[call'[d].t] = call'[d].sent[call'[d].f]
                                /\ \A b \in Calls : call'[b].at = "row" /\ call'[b].t = call'[d].t => b = d
                          /\ \A t \in Transfers : rows'[t] # NoRow /\ ~rows'[t].expired => bytes'[t] = rows'[t].digest
                          /\ ~history'.broken
        OBVIOUS
      <3>1. ~history.reput /\ ~Occupied(c) BY <2>2
      <3>2. rows[call[c].t] = NoRow BY <2>2, <3>1 DEF Occupied, Registering
      <3>3. ASSUME NEW d \in Calls, d # c, call[d].at = "row"
            PROVE  call[d].t # call[c].t
        <4>1. CASE Req(c).tid = 0 BY <2>2, <3>3, <4>1 DEF Registering
        <4>2. CASE Req(c).tid # 0
          <5>1. bytes[call[c].t] = None BY <3>1, <4>2 DEF Occupied
          <5>2. call[d].f \in Files BY CallTypes DEF Types
          <5>3. bytes[call[d].t] # None BY <3>1, <3>3, <5>2, CarriesAre DEF Registering, Digest
          <5> QED BY <5>1, <5>3
        <4> QED BY <4>1, <4>2
      <3>4. \A d \in Calls : call'[d].at = "row" =>
               /\ rows'[call'[d].t] = NoRow /\ bytes'[call'[d].t] = call'[d].sent[call'[d].f]
               /\ \A b \in Calls : call'[b].at = "row" /\ call'[b].t = call'[d].t => b = d
        BY <2>0a, <2>2, <2>9, <3>1, <3>2, <3>3 DEF Registering, Digest
      <3>5. \A t \in Transfers : rows'[t] # NoRow /\ ~rows'[t].expired => bytes'[t] = rows'[t].digest
        BY <2>2, <2>9, <3>1, <3>2 DEF Registering
      <3> QED BY <2>2, <3>1, <3>4, <3>5 DEF Registering
    <2> QED BY <2>5, <2>6, <2>7, <2>8 DEF Registering, Digest
  <1>PutRow. ASSUME NEW c \in Calls, PutRow(c) PROVE Sweeps' /\ Registering'
    <2> USE <1>PutRow
    <2>1. Waited BY PutRowMoves DEF Becomes, Begins, At, Ended, Waited
    <2>2. /\ UNCHANGED <<bytes, history>> /\ call[c].at = "row" /\ call'[c].sent = call[c].sent
          /\ call'[c].at \in {"done", "unlink", "copy"} /\ call'[c].t = call[c].t
          /\ \/ UNCHANGED rows
             \/ rows[call[c].t] = NoRow /\ rows' = [rows EXCEPT ![call[c].t] = [digest |-> Digest(c), expired |-> FALSE]]
          /\ \A d \in Calls : d # c => call'[d] = call[d]
      BY PutRowMoves DEF Becomes, Begins, At
    <2>3. \A d \in Calls : Req(d)' = Req(d) BY <2>1 DEF Waited, Req
    <2>4. \A d \in Calls : Req(d)'.op = "gc" /\ call'[d].at # "idle" => \A b \in Req(d)'.after : Ended(b)'
      BY <2>1, WaitedKept
    <2>0a. \A d \in Calls : call[d].at \in {"bytes", "row"} => call[d].t \in Transfers /\ call[d].t # 0
      BY FileFacts DEF Places, Place
    <2>9. /\ call[c].t \in Transfers /\ Digest(c) # None
          /\ \A t \in Transfers : t # call[c].t => rows'[t] = rows[t]
          /\ \/ rows'[call[c].t] = rows[call[c].t]
             \/ rows[call[c].t] = NoRow /\ rows'[call[c].t].digest = Digest(c) /\ ~rows'[call[c].t].expired
      <3>1. call[c].f \in Files BY CallTypes DEF Types
      <3>2. Digest(c) # None /\ call[c].t \in Transfers
        BY <2>0a, <2>2, <3>1, CarriesAre DEF Registering, Digest
      <3> QED BY <2>2, <3>2 DEF Types
    <2>5. Sweeps'
      <3>1. \A d \in Calls : call'[d].at \in {"gc", "gcrow"} => call'[d] = call[d] /\ call[d].todo \subseteq Transfers
        <4>1. \A d \in Calls : call[d].at \in {"gc", "gcrow"} => Req(d).op = "gc" BY OpOf DEF Places
        <4> QED BY <2>2, <4>1 DEF Places, Place
      <3>2. \A t \in Transfers : rows[t].expired => rows'[t] = rows[t] BY <2>9 DEF NoRow
      <3>3. \A d \in Calls : call'[d].at \in {"gc", "gcrow"} => \A t \in call'[d].todo : rows'[t].expired
        BY <3>1, <3>2 DEF Sweeps
      <3> QED BY <2>4, <3>3 DEF Sweeps
    <2>6. /\ \A t \in Transfers : rows'[t].digest = None => rows'[t] = NoRow
          /\ \A d \in Calls : call'[d].at \in Carries => \A f \in Files : call'[d].sent[f] # None
          /\ \A d \in Calls : call'[d].at = "bytes" /\ Req(d)'.tid = 0 => bytes'[call'[d].t] = None
      <3>1. \A t \in Transfers : rows'[t].digest = None => rows'[t] = NoRow BY <2>9 DEF Registering
      <3> QED BY <2>2, <2>3, <3>1, CarriesAre DEF Registering
    <2>7. \A d \in Calls : call'[d].at \in {"bytes", "row"} /\ Req(d)'.tid = 0 =>
            /\ rows'[call'[d].t] = NoRow
            /\ \A b \in Calls : Req(b)'.tid # call'[d].t /\ (b # d => call'[b].t # call'[d].t)
      <3>1. \A d \in Calls : d # c /\ call[d].at \in {"bytes", "row"} /\ Req(d).tid = 0 => call[d].t # call[c].t
        BY DEF Registering
      <3> QED BY <2>0a, <2>2, <2>3, <2>9, <3>1 DEF Registering
    <2>8. ~history'.reput =>
            /\ \A d \in Calls : call'[d].at = "row" =>
                  /\ rows'[call'[d].t] = NoRow /\ bytes'[call'[d].t] = call'[d].sent[call'[d].f]
                  /\ \A b \in Calls : call'[b].at = "row" /\ call'[b].t = call'[d].t => b = d
            /\ \A t \in Transfers : rows'[t] # NoRow /\ ~rows'[t].expired => bytes'[t] = rows'[t].digest
            /\ ~history'.broken
      <3>1. ~history.reput => \A d \in Calls : d # c /\ call[d].at = "row" => call[d].t # call[c].t
        BY <2>2 DEF Registering
      <3>2. ~history.reput => \A d \in Calls : call'[d].at = "row" =>
               /\ rows'[call'[d].t] = NoRow /\ bytes'[call'[d].t] = call'[d].sent[call'[d].f]
               /\ \A b \in Calls : call'[b].at = "row" /\ call'[b].t = call'[d].t => b = d
        BY <2>0a, <2>2, <2>9, <3>1 DEF Registering, Digest
      <3>3. ~history.reput => bytes[call[c].t] = Digest(c) BY <2>2 DEF Registering
      <3>4. ~history.reput => \A t \in Transfers : rows'[t] # NoRow /\ ~rows'[t].expired => bytes'[t] = rows'[t].digest
        BY <2>2, <2>9, <3>3 DEF Registering
      <3> QED BY <2>2, <3>2, <3>4 DEF Registering
    <2> QED BY <2>5, <2>6, <2>7, <2>8 DEF Registering, Digest
  <1>GcList. ASSUME NEW c \in Calls, GcList(c) PROVE Sweeps' /\ Registering'
    <2> USE <1>GcList
    <2>1. Waited BY GcListMoves DEF Becomes, Begins, At, Ended, Waited
    <2>2. /\ UNCHANGED <<rows, bytes, history>> /\ call[c].at = "idle" /\ call'[c].at = "gc" /\ call'[c].todo = Lapsed
          /\ call'[c].t = call[c].t
          /\ \A d \in Calls : d # c => call'[d] = call[d]
      BY GcListMoves DEF Becomes, Begins, At
    <2>3. \A d \in Calls : Req(d)' = Req(d) BY <2>1 DEF Waited, Req
    <2>4. \A d \in Calls : Req(d)'.op = "gc" /\ call'[d].at # "idle" => \A b \in Req(d)'.after : Ended(b)'
      BY <2>1, WaitedKept
    <2>5. Sweeps'
      <3>1. \A d \in Calls : call'[d].at \in {"gc", "gcrow"} => \A t \in call'[d].todo : rows'[t].expired
        BY <2>2 DEF Sweeps, Lapsed
      <3> QED BY <2>4, <3>1 DEF Sweeps
    <2>6. /\ \A t \in Transfers : rows'[t].digest = None => rows'[t] = NoRow
          /\ \A d \in Calls : call'[d].at \in Carries => \A f \in Files : call'[d].sent[f] # None
          /\ \A d \in Calls : call'[d].at = "bytes" /\ Req(d)'.tid = 0 => bytes'[call'[d].t] = None
      BY <2>2, <2>3, CarriesAre DEF Registering
    <2>7. \A d \in Calls : call'[d].at \in {"bytes", "row"} /\ Req(d)'.tid = 0 =>
            /\ rows'[call'[d].t] = NoRow
            /\ \A b \in Calls : Req(b)'.tid # call'[d].t /\ (b # d => call'[b].t # call'[d].t)
      BY <2>2, <2>3 DEF Registering
    <2>8. ~history'.reput =>
            /\ \A d \in Calls : call'[d].at = "row" =>
                  /\ rows'[call'[d].t] = NoRow /\ bytes'[call'[d].t] = call'[d].sent[call'[d].f]
                  /\ \A b \in Calls : call'[b].at = "row" /\ call'[b].t = call'[d].t => b = d
            /\ \A t \in Transfers : rows'[t] # NoRow /\ ~rows'[t].expired => bytes'[t] = rows'[t].digest
            /\ ~history'.broken
      BY <2>2, <2>3 DEF Registering, Digest
    <2> QED BY <2>5, <2>6, <2>7, <2>8 DEF Registering, Digest
  <1>GcBytes. ASSUME NEW c \in Calls, GcBytes(c) PROVE Sweeps' /\ Registering'
    <2> USE <1>GcBytes
    <2>1. Waited BY GcBytesMoves DEF Becomes, Begins, At, Ended, Waited
    <2>2. /\ UNCHANGED <<rows, history>> /\ call[c].at = "gc" /\ call'[c].todo = call[c].todo
          /\ \/ call'[c].at = "done" /\ call'[c].t = call[c].t /\ UNCHANGED bytes
             \/ /\ call'[c].at = "gcrow" /\ call[c].todo # {} /\ call'[c].t = Min(call[c].todo)
                /\ bytes' = [bytes EXCEPT ![Min(call[c].todo)] = None]
          /\ \A d \in Calls : d # c => call'[d] = call[d]
      BY GcBytesMoves DEF Becomes, Begins, At
    <2>3. \A d \in Calls : Req(d)' = Req(d) BY <2>1 DEF Waited, Req
    <2>4. \A d \in Calls : Req(d)'.op = "gc" /\ call'[d].at # "idle" => \A b \in Req(d)'.after : Ended(b)'
      BY <2>1, WaitedKept
    <2>0a. \A d \in Calls : call[d].at \in {"bytes", "row"} => call[d].t \in Transfers /\ call[d].t # 0
      BY FileFacts DEF Places, Place
    <2>10. \A d \in Calls : call[d].at \in {"gc", "gcrow"} => Req(d).op = "gc" /\ call[d].todo \subseteq Transfers
      <3>1. \A d \in Calls : call[d].at \in {"gc", "gcrow"} => Req(d).op = "gc" BY OpOf DEF Places
      <3> QED BY <3>1 DEF Places, Place
    <2>9. \/ UNCHANGED bytes /\ call'[c].t = call[c].t
          \/ /\ call'[c].t \in Transfers /\ rows[call'[c].t].expired /\ bytes'[call'[c].t] = None
             /\ \A t \in Transfers : t # call'[c].t => bytes'[t] = bytes[t]
      <3>1. CASE call'[c].at = "done" BY <2>2, <3>1
      <3>2. CASE call'[c].at # "done"
        <4>1. call'[c].t \in call[c].todo BY <2>2, <2>10, <3>2, LeastIsIn, FileFacts
        <4> QED BY <2>2, <2>10, <3>2, <4>1 DEF Sweeps, Types
      <3> QED BY <3>1, <3>2
    <2>5. Sweeps'
      <3>1. \A d \in Calls : call'[d].at \in {"gc", "gcrow"} => \A t \in call'[d].todo : rows'[t].expired
        BY <2>2 DEF Sweeps
      <3> QED BY <2>4, <3>1 DEF Sweeps
    <2>6. /\ \A t \in Transfers : rows'[t].digest = None => rows'[t] = NoRow
          /\ \A d \in Calls : call'[d].at \in Carries => \A f \in Files : call'[d].sent[f] # None
          /\ \A d \in Calls : call'[d].at = "bytes" /\ Req(d)'.tid = 0 => bytes'[call'[d].t] = None
      <3>1. \A d \in Calls : call'[d].at = "bytes" /\ Req(d).tid = 0 => bytes'[call'[d].t] = None
        BY <2>0a, <2>2, <2>9 DEF Registering
      <3>2. \A d \in Calls : call'[d].at \in Carries => \A f \in Files : call'[d].sent[f] # None
        BY <2>2, CarriesAre DEF Registering
      <3> QED BY <2>2, <2>3, <3>1, <3>2 DEF Registering, Carries, Registers
    <2>7. \A d \in Calls : call'[d].at \in {"bytes", "row"} /\ Req(d)'.tid = 0 =>
            /\ rows'[call'[d].t] = NoRow
            /\ \A b \in Calls : Req(b)'.tid # call'[d].t /\ (b # d => call'[b].t # call'[d].t)
      <3>1. call'[c].t = call[c].t \/ rows[call'[c].t] # NoRow BY <2>9 DEF NoRow
      <3> QED BY <2>2, <2>3, <3>1 DEF Registering
    <2>8. ~history'.reput =>
            /\ \A d \in Calls : call'[d].at = "row" =>
                  /\ rows'[call'[d].t] = NoRow /\ bytes'[call'[d].t] = call'[d].sent[call'[d].f]
                  /\ \A b \in Calls : call'[b].at = "row" /\ call'[b].t = call'[d].t => b = d
            /\ \A t \in Transfers : rows'[t] # NoRow /\ ~rows'[t].expired => bytes'[t] = rows'[t].digest
            /\ ~history'.broken
      <3>1. ~history.reput => \A d \in Calls : call'[d].at = "row" =>
               /\ rows'[call'[d].t] = NoRow /\ bytes'[call'[d].t] = call'[d].sent[call'[d].f]
               /\ \A b \in Calls : call'[b].at = "row" /\ call'[b].t = call'[d].t => b = d
        <4>1. ~history.reput => \A d \in Calls : call'[d].at = "row" => /\ d # c /\ rows[call[d].t] = NoRow /\ bytes[call[d].t] = call[d].sent[call[d].f]
                                                  /\ \A b \in Calls : call[b].at = "row" /\ call[b].t = call[d].t => b = d
          BY <2>2 DEF Registering, Digest
        <4>2. ~history.reput => \A d \in Calls : call'[d].at = "row" => bytes'[call[d].t] = bytes[call[d].t]
          BY <2>0a, <2>2, <2>9, <4>1 DEF NoRow
        <4> QED BY <2>2, <4>1, <4>2
      <3>2. ~history.reput => \A t \in Transfers : rows'[t] # NoRow /\ ~rows'[t].expired => bytes'[t] = rows'[t].digest
        BY <2>2, <2>9 DEF Registering
      <3> QED BY <2>2, <3>1, <3>2 DEF Registering
    <2> QED BY <2>5, <2>6, <2>7, <2>8 DEF Registering, Digest
  <1>GcRow. ASSUME NEW c \in Calls, GcRow(c) PROVE Sweeps' /\ Registering'
    <2> USE <1>GcRow
    <2>1. Waited BY GcRowMoves DEF Becomes, Begins, At, Ended, Waited
    <2>2. /\ UNCHANGED <<bytes, history>> /\ call[c].at = "gcrow" /\ call'[c].at = "gc" /\ call'[c].t = 0
          /\ call'[c].todo = call[c].todo \ {call[c].t} /\ rows' = [rows EXCEPT ![call[c].t] = NoRow]
          /\ \A d \in Calls : d # c => call'[d] = call[d]
      BY GcRowMoves DEF Becomes, Begins, At
    <2>3. \A d \in Calls : Req(d)' = Req(d) BY <2>1 DEF Waited, Req
    <2>4. \A d \in Calls : Req(d)'.op = "gc" /\ call'[d].at # "idle" => \A b \in Req(d)'.after : Ended(b)'
      BY <2>1, WaitedKept
    <2>0a. \A d \in Calls : call[d].at \in {"bytes", "row"} => call[d].t \in Transfers /\ call[d].t # 0
      BY FileFacts DEF Places, Place
    <2>10. \A d \in Calls : call[d].at \in {"gc", "gcrow"} => Req(d).op = "gc" /\ call[d].todo \subseteq Transfers
      <3>1. \A d \in Calls : call[d].at \in {"gc", "gcrow"} => Req(d).op = "gc" BY OpOf DEF Places
      <3> QED BY <3>1 DEF Places, Place
    <2>9. /\ call[c].t \in Transfers /\ rows'[call[c].t] = NoRow
          /\ \A t \in Transfers : t # call[c].t => rows'[t] = rows[t]
      <3>1. call[c].t \in call[c].todo BY <2>2 DEF Places, Place
      <3> QED BY <2>2, <2>10, <3>1 DEF Types
    <2>11. \A d \in Calls : d # c => call[d].at \notin {"gc", "gcrow"}
      <3> SUFFICES ASSUME NEW d \in Calls, d # c, call[d].at \in {"gc", "gcrow"} PROVE FALSE
        OBVIOUS
      <3>1. d \in Req(c).after \/ c \in Req(d).after BY <2>2, <2>10 DEF SweepsApart, Types, Req
      <3> QED BY <2>2, <2>10, <3>1 DEF Sweeps, Ended
    <2>5. Sweeps'
      <3>1. \A d \in Calls : call'[d].at \in {"gc", "gcrow"} => \A t \in call'[d].todo : rows'[t].expired
        BY <2>2, <2>9, <2>10, <2>11 DEF Sweeps
      <3> QED BY <2>4, <3>1 DEF Sweeps
    <2>6. /\ \A t \in Transfers : rows'[t].digest = None => rows'[t] = NoRow
          /\ \A d \in Calls : call'[d].at \in Carries => \A f \in Files : call'[d].sent[f] # None
          /\ \A d \in Calls : call'[d].at = "bytes" /\ Req(d)'.tid = 0 => bytes'[call'[d].t] = None
      BY <2>2, <2>3, <2>9, CarriesAre DEF Registering
    <2>7. \A d \in Calls : call'[d].at \in {"bytes", "row"} /\ Req(d)'.tid = 0 =>
            /\ rows'[call'[d].t] = NoRow
            /\ \A b \in Calls : Req(b)'.tid # call'[d].t /\ (b # d => call'[b].t # call'[d].t)
      BY <2>0a, <2>2, <2>3, <2>9 DEF Registering
    <2>8. ~history'.reput =>
            /\ \A d \in Calls : call'[d].at = "row" =>
                  /\ rows'[call'[d].t] = NoRow /\ bytes'[call'[d].t] = call'[d].sent[call'[d].f]
                  /\ \A b \in Calls : call'[b].at = "row" /\ call'[b].t = call'[d].t => b = d
            /\ \A t \in Transfers : rows'[t] # NoRow /\ ~rows'[t].expired => bytes'[t] = rows'[t].digest
            /\ ~history'.broken
      <3>1. ~history.reput => \A d \in Calls : call'[d].at = "row" =>
               /\ rows'[call'[d].t] = NoRow /\ bytes'[call'[d].t] = call'[d].sent[call'[d].f]
               /\ \A b \in Calls : call'[b].at = "row" /\ call'[b].t = call'[d].t => b = d
        BY <2>0a, <2>2, <2>9 DEF Registering, Digest
      <3>2. ~history.reput => \A t \in Transfers : rows'[t] # NoRow /\ ~rows'[t].expired => bytes'[t] = rows'[t].digest
        BY <2>2, <2>9 DEF Registering
      <3> QED BY <2>2, <3>1, <3>2 DEF Registering
    <2> QED BY <2>5, <2>6, <2>7, <2>8 DEF Registering, Digest
  <1>LoadBytes. ASSUME NEW c \in Calls, LoadBytes(c) PROVE Sweeps' /\ Registering'
    <2> USE <1>LoadBytes
    <2>1. Waited BY LoadBytesMoves DEF Becomes, Begins, At, Ended, Waited
    <2>2. /\ UNCHANGED <<rows, bytes>> /\ call[c].at = "load" /\ call'[c].at = "done" /\ call'[c].t = call[c].t
          /\ (history'.reput <=> history.reput)
          /\ \/ history'.broken <=> history.broken
             \/ ~Unserved(c) /\ (history'.broken <=> (history.broken \/ bytes[call[c].t] # Digest(c)))
          /\ \A d \in Calls : d # c => call'[d] = call[d]
      BY LoadBytesMoves DEF Becomes, Begins, At, Observed
    <2>3. \A d \in Calls : Req(d)' = Req(d) BY <2>1 DEF Waited, Req
    <2>4. \A d \in Calls : Req(d)'.op = "gc" /\ call'[d].at # "idle" => \A b \in Req(d)'.after : Ended(b)'
      BY <2>1, WaitedKept
    <2>5. Sweeps'
      <3>1. \A d \in Calls : call'[d].at \in {"gc", "gcrow"} => \A t \in call'[d].todo : rows'[t].expired
        BY <2>2 DEF Sweeps
      <3> QED BY <2>4, <3>1 DEF Sweeps
    <2>6. /\ \A t \in Transfers : rows'[t].digest = None => rows'[t] = NoRow
          /\ \A d \in Calls : call'[d].at \in Carries => \A f \in Files : call'[d].sent[f] # None
          /\ \A d \in Calls : call'[d].at = "bytes" /\ Req(d)'.tid = 0 => bytes'[call'[d].t] = None
      BY <2>2, <2>3, CarriesAre DEF Registering
    <2>7. \A d \in Calls : call'[d].at \in {"bytes", "row"} /\ Req(d)'.tid = 0 =>
            /\ rows'[call'[d].t] = NoRow
            /\ \A b \in Calls : Req(b)'.tid # call'[d].t /\ (b # d => call'[b].t # call'[d].t)
      BY <2>2, <2>3 DEF Registering
    <2>8. ~history'.reput =>
            /\ \A d \in Calls : call'[d].at = "row" =>
                  /\ rows'[call'[d].t] = NoRow /\ bytes'[call'[d].t] = call'[d].sent[call'[d].f]
                  /\ \A b \in Calls : call'[b].at = "row" /\ call'[b].t = call'[d].t => b = d
            /\ \A t \in Transfers : rows'[t] # NoRow /\ ~rows'[t].expired => bytes'[t] = rows'[t].digest
            /\ ~history'.broken
      <3>1. ~history.reput /\ ~Unserved(c) => bytes[call[c].t] = Digest(c)
        <4>1. call[c].t \in Transfers /\ Digest(c) # None
          BY <2>2, CallTypes, CarriesAre DEF Places, Place, Registering, Digest, Types
        <4>2. ~Unserved(c) => rows[call[c].t] # NoRow /\ ~rows[call[c].t].expired /\ rows[call[c].t].digest = Digest(c)
          BY <4>1 DEF Unserved, NoRow
        <4> QED BY <4>1, <4>2 DEF Registering
      <3> QED BY <2>2, <2>3, <3>1 DEF Registering, Digest
    <2> QED BY <2>5, <2>6, <2>7, <2>8 DEF Registering, Digest
  <1>LoadRow. ASSUME NEW c \in Calls, NEW t \in Transfers, LoadRow(c, t) PROVE Sweeps' /\ Registering'
    <2> USE <1>LoadRow
    <2>1. Waited BY LoadRowMoves DEF Becomes, Begins, At, Ended, Waited
    <2>2. /\ UNCHANGED <<rows, bytes, history>> /\ call[c].at = "idle" 
          /\ \/ call'[c].at = "done" /\ call'[c].t = call[c].t
             \/ /\ call'[c].at = "load" /\ call'[c].sent = [f \in Files |-> rows[t].digest] /\ rows[t] # NoRow
                /\ call'[c].t = t
          /\ \A d \in Calls : d # c => call'[d] = call[d]
      BY LoadRowMoves, Zenon DEF Becomes, Begins, At
    <2>3. \A d \in Calls : Req(d)' = Req(d) BY <2>1 DEF Waited, Req
    <2>4. \A d \in Calls : Req(d)'.op = "gc" /\ call'[d].at # "idle" => \A b \in Req(d)'.after : Ended(b)'
      BY <2>1, WaitedKept
    <2>5. Sweeps'
      <3>1. \A d \in Calls : call'[d].at \in {"gc", "gcrow"} => \A u \in call'[d].todo : rows'[u].expired
        BY <2>2 DEF Sweeps
      <3> QED BY <2>4, <3>1 DEF Sweeps
    <2>6. /\ \A u \in Transfers : rows'[u].digest = None => rows'[u] = NoRow
          /\ \A d \in Calls : call'[d].at \in Carries => \A f \in Files : call'[d].sent[f] # None
          /\ \A d \in Calls : call'[d].at = "bytes" /\ Req(d)'.tid = 0 => bytes'[call'[d].t] = None
      BY <2>2, <2>3, CarriesAre DEF Registering
    <2>7. \A d \in Calls : call'[d].at \in {"bytes", "row"} /\ Req(d)'.tid = 0 =>
            /\ rows'[call'[d].t] = NoRow
            /\ \A b \in Calls : Req(b)'.tid # call'[d].t /\ (b # d => call'[b].t # call'[d].t)
      BY <2>2, <2>3 DEF Registering
    <2>8. ~history'.reput =>
            /\ \A d \in Calls : call'[d].at = "row" =>
                  /\ rows'[call'[d].t] = NoRow /\ bytes'[call'[d].t] = call'[d].sent[call'[d].f]
                  /\ \A b \in Calls : call'[b].at = "row" /\ call'[b].t = call'[d].t => b = d
            /\ \A u \in Transfers : rows'[u] # NoRow /\ ~rows'[u].expired => bytes'[u] = rows'[u].digest
            /\ ~history'.broken
      BY <2>2, <2>3 DEF Registering, Digest
    <2> QED BY <2>5, <2>6, <2>7, <2>8 DEF Registering, Digest
  <1>LeaseLapses. ASSUME NEW i \in Intents, LeaseLapses(i) PROVE Sweeps' /\ Registering'
    <2> USE <1>LeaseLapses
    <2>2. Waited /\ ExchangeFrame
      BY LeaseLapsesMoves DEF Waited, ExchangeFrame, StillCarries, Observed, RemovedFromMap
    <2> QED BY <2>2, ExchangeKept
  <1>sweepExpired. ASSUME NEW i \in Intents, sweepExpired(i) PROVE Sweeps' /\ Registering'
    <2> USE <1>sweepExpired
    <2>2. Waited /\ ExchangeFrame
      BY sweepExpiredMoves DEF Waited, ExchangeFrame, StillCarries, Observed, RemovedFromMap
    <2> QED BY <2>2, ExchangeKept
  <1>ReapStaged. ASSUME NEW i \in Intents, ReapStaged(i) PROVE Sweeps' /\ Registering'
    <2> USE <1>ReapStaged
    <2>2. Waited /\ ExchangeFrame
      BY ReapStagedMoves DEF Waited, ExchangeFrame, StillCarries, Observed, RemovedFromMap
    <2> QED BY <2>2, ExchangeKept
  <1>ReapMap. ASSUME NEW i \in Intents, ReapMap(i) PROVE Sweeps' /\ Registering'
    <2> USE <1>ReapMap
    <2>2. Waited /\ ExchangeFrame
      BY ReapMapMoves DEF Waited, ExchangeFrame, StillCarries, Observed, RemovedFromMap
    <2> QED BY <2>2, ExchangeKept
  <1>ReapDir. ASSUME NEW i \in Intents, ReapDir(i) PROVE Sweeps' /\ Registering'
    <2> USE <1>ReapDir
    <2>2. Waited /\ ExchangeFrame
      BY ReapDirMoves DEF Waited, ExchangeFrame, StillCarries, Observed, RemovedFromMap
    <2> QED BY <2>2, ExchangeKept
  <1>Expires. ASSUME NEW t \in Transfers, Expires(t) PROVE Sweeps' /\ Registering'
    <2> USE <1>Expires
    <2>2. UNCHANGED <<plan, call, bytes, history>> /\ rows[t] # NoRow /\ rows' = [rows EXCEPT ![t].expired = TRUE]
      BY ExpiresMoves
    <2>1. Waited BY <2>2 DEF Waited
    <2>3. \A d \in Calls : Req(d)' = Req(d) BY <2>2 DEF Req
    <2>4. \A d \in Calls : Req(d)'.op = "gc" /\ call'[d].at # "idle" => \A b \in Req(d)'.after : Ended(b)'
      BY <2>1, WaitedKept
    <2>9. rows'[t].digest = rows[t].digest /\ rows'[t].expired /\ \A u \in Transfers : u # t => rows'[u] = rows[u]
      BY <2>2 DEF Types, RowType
    <2>5. Sweeps'
      <3>1. \A d \in Calls : call[d].at \in {"gc", "gcrow"} => call[d].todo \subseteq Transfers
        <4>1. \A d \in Calls : call[d].at \in {"gc", "gcrow"} => Req(d).op = "gc" BY OpOf DEF Places
        <4> QED BY <4>1 DEF Places, Place
      <3>2. \A d \in Calls : call'[d].at \in {"gc", "gcrow"} => \A u \in call'[d].todo : rows'[u].expired
        BY <2>2, <2>9, <3>1 DEF Sweeps
      <3> QED BY <2>4, <3>2 DEF Sweeps
    <2>0a. \A d \in Calls : call[d].at \in {"bytes", "row"} => call[d].t \in Transfers /\ call[d].t # 0
      BY FileFacts DEF Places, Place
    <2>6. /\ \A u \in Transfers : rows'[u].digest = None => rows'[u] = NoRow
          /\ \A d \in Calls : call'[d].at \in Carries => \A f \in Files : call'[d].sent[f] # None
          /\ \A d \in Calls : call'[d].at = "bytes" /\ Req(d)'.tid = 0 => bytes'[call'[d].t] = None
      BY <2>2, <2>3, <2>9 DEF Registering, Carries
    <2>7. \A d \in Calls : call'[d].at \in {"bytes", "row"} /\ Req(d)'.tid = 0 =>
            /\ rows'[call'[d].t] = NoRow
            /\ \A b \in Calls : Req(b)'.tid # call'[d].t /\ (b # d => call'[b].t # call'[d].t)
      BY <2>0a, <2>2, <2>3, <2>9 DEF Registering
    <2>8. ~history'.reput =>
            /\ \A d \in Calls : call'[d].at = "row" =>
                  /\ rows'[call'[d].t] = NoRow /\ bytes'[call'[d].t] = call'[d].sent[call'[d].f]
                  /\ \A b \in Calls : call'[b].at = "row" /\ call'[b].t = call'[d].t => b = d
            /\ \A u \in Transfers : rows'[u] # NoRow /\ ~rows'[u].expired => bytes'[u] = rows'[u].digest
            /\ ~history'.broken
      <3>1. ~history.reput => \A d \in Calls : call[d].at = "row" =>
               /\ rows'[call[d].t] = NoRow /\ bytes[call[d].t] = call[d].sent[call[d].f]
               /\ \A b \in Calls : call[b].at = "row" /\ call[b].t = call[d].t => b = d
        BY <2>0a, <2>2, <2>9 DEF Registering, Digest
      <3>2. ~history.reput => \A u \in Transfers : rows'[u] # NoRow /\ ~rows'[u].expired => bytes[u] = rows'[u].digest
        BY <2>9 DEF Registering
      <3> QED BY <2>2, <3>1, <3>2 DEF Registering
    <2> QED BY <2>5, <2>6, <2>7, <2>8 DEF Registering, Digest
  <1>Crash. ASSUME Crash PROVE Sweeps' /\ Registering'
    <2> USE <1>Crash
    <2>1. UNCHANGED <<plan, rows, bytes>> /\ (history'.reput <=> history.reput) /\ (history'.broken <=> history.broken)
      BY CrashMoves DEF Observed
    <2>2. \A d \in Calls : (call'[d] = call[d] /\ call[d].at \in {"idle", "done", "lost"}) \/ (call'[d].at = "lost" /\ call'[d].t = 0)
      BY CrashCalls
    <2>3. ExchangeFrame BY <2>1, <2>2, CarriesAre DEF ExchangeFrame, StillCarries
    <2>4. Waited BY <2>1 DEF Crash, Waited, Ended, At
    <2> QED BY <2>3, <2>4, ExchangeKept
  <1>1. CASE UNCHANGED vars
    BY <1>1, ExchangeKept DEF vars, intents, tree, run, exchange, Waited, ExchangeFrame, StillCarries
  <1>2. ASSUME NEW c \in Calls, IntentStep(c) PROVE Sweeps' /\ Registering'
    BY <1>2, <1>IssueRoute, <1>IssueCheck, <1>IssueRecord, <1>IssuePersist, <1>CallStaged, <1>CallMap, <1>CallDir,
       <1>AcceptWrite, <1>AcceptMark, <1>AcceptPersist, <1>Cancel, <1>AcceptCheck DEF IntentStep
  <1>3. ASSUME NEW c \in Calls, ResolveStep(c) PROVE Sweeps' /\ Registering'
    BY <1>3, <1>prepareResolve, <1>StageFile, <1>MarkPrepared, <1>PreparedPersist, <1>resolveFlowStep, <1>PromoteRead,
       <1>PromoteCopy, <1>PromoteUnlink, <1>ResolveMemo, <1>ResolveExec, <1>DispatchBegin, <1>materializeConsumerCopy,
       <1>DispatchSpawn DEF ResolveStep
  <1>4. ASSUME NEW c \in Calls, ExchangeStep(c) PROVE Sweeps' /\ Registering'
    BY <1>4, <1>StoreBegin, <1>PutFind, <1>PutBytes, <1>PutRow, <1>GcList, <1>GcBytes, <1>GcRow, <1>LoadBytes,
       <1>LoadRow DEF ExchangeStep
  <1>5. ASSUME NEW i \in Intents, LeaseLapses(i) \/ Reap(i) PROVE Sweeps' /\ Registering'
    BY <1>5, <1>LeaseLapses, <1>sweepExpired, <1>ReapStaged, <1>ReapMap, <1>ReapDir DEF Reap
  <1>6. ASSUME NEW t \in Transfers, Expires(t) PROVE Sweeps' /\ Registering'
    BY <1>6, <1>Expires
  <1>7. ASSUME Crash PROVE Sweeps' /\ Registering'
    BY <1>7, <1>Crash
  <1> QED BY <1>1, <1>2, <1>3, <1>4, <1>5, <1>6, <1>7 DEF Next

-----------------------------------------------------------------------------
(* The initial states. *)

LEMMA InitFacts ==
  ASSUME Init
  PROVE  /\ Types /\ Fresh
         /\ \A c \in Calls : /\ call[c].at \in {"idle", "done"} /\ call[c].i = 0 /\ call[c].todo = {} /\ call[c].arts = {}
                             /\ call[c].res = None
         /\ \A i \in Intents : obj[i] = NoRec /\ disk[i] = NoRec /\ reap[i] = None
         /\ live = {} /\ history.gone = {} /\ ~history.undead /\ ~history.overlap /\ ~history.broken /\ bag = {} /\ memo.status = "working"
         /\ \A k \in Keys : idem[k] = 0
         /\ \A t \in Transfers : rows[t] = NoRow
         /\ stable = NoFiles
  <1>1. Idle \in CallType /\ [Idle EXCEPT !.at = "done"] \in CallType /\ NoRec \in RecType /\ NoRow \in RowType /\ NoFiles \in FileType
    <2>1. NoFiles \in FileType /\ NoRec \in RecType BY Idles, FileTypes
    <2>2. NoRow \in RowType BY DEF NoRow, RowType
    <2>3. Idle \in CallType /\ [Idle EXCEPT !.at = "done"] \in CallType
      BY <2>1, FileFacts DEF Idle, CallType, AnyLabel, Listings
    <2> QED BY <2>1, <2>2, <2>3
  <1>2. /\ [Idle EXCEPT !.at = "done"].at = "done" /\ [Idle EXCEPT !.at = "done"].i = 0
        /\ [Idle EXCEPT !.at = "done"].todo = {} /\ [Idle EXCEPT !.at = "done"].arts = {}
        /\ [Idle EXCEPT !.at = "done"].res = None
        /\ Idle.at = "idle" /\ Idle.i = 0 /\ Idle.todo = {} /\ Idle.arts = {} /\ Idle.res = None
    BY DEF Idle
  <1>3. \A c \in Calls : call[c] = Idle \/ call[c] = [Idle EXCEPT !.at = "done"] BY DEF Init
  <1>4. Types BY <1>1 DEF Init, Types, Listings
  <1>5. Fresh BY <1>2, <1>3 DEF Fresh
  <1> QED BY <1>2, <1>3, <1>4, <1>5 DEF Init

LEMMA InitHolds ==
  ASSUME Init
  PROVE  Base /\ Transfer /\ Fresh /\ Issues /\ Room /\ Serve /\ Given /\ Sweeps /\ Registering
  <1>0. Types /\ Fresh /\ NoRec.state = None /\ NoRec.uploaded = {} /\ NoRow.expired = FALSE
    BY InitFacts, Idles DEF NoRow
  <1>1. Places
    BY <1>0, InitFacts, LabelsAre, Ops DEF Places, Place, Labels, Promotes, Registers, Removing, Promotes
  <1>2. Records /\ Removals BY <1>0, InitFacts DEF Records, Removals, Known, None
  <1>3. Transfer BY <1>0, InitFacts DEF Transfer, Transferring, Accepted
  <1>4. Issues BY InitFacts DEF Issues
  <1>5. Room
    <2>1. \A c \in Calls : ~Promoting(c) BY InitFacts DEF Promoting
    <2>2. Owing = {} /\ live = Owing BY InitFacts DEF Owing
    <2>3. Cardinality(Present(stable)) = 0 BY InitFacts, PresentFits DEF NoFiles
    <2>4. Reserved({}) = 0 /\ plan.ceiling \in Nat
      <3>1. Cardinality({}) = 0 /\ Size \in Nat BY FS_EmptySet, FileFacts
      <3> QED BY <1>0, <3>1, PlanFacts DEF Reserved
    <2> QED BY <2>1, <2>2, <2>3, <2>4, InitFacts DEF Room
  <1>6. Serve
    <2>1. Lists /\ ListedIsStored BY InitFacts, ActiveAre DEF Lists, Functional, ListedIsStored
    <2>2. \A c \in Calls : ~Resolving(c) /\ Promoted(c) BY InitFacts, ActiveAre DEF Resolving, Promoted
    <2>3. Promotion BY <2>2 DEF Promotion
    <2>4. Answered BY InitFacts DEF Answered, None
    <2> QED BY <2>1, <2>3, <2>4 DEF Serve
  <1>7. Given BY InitFacts DEF Given, Functional, None
  <1>8. Sweeps
    <2>1. \A c \in Calls : call[c].at # "idle" => Req(c).op = "unused" BY DEF Init, Req, Idle
    <2>2. \A c \in Calls : ~(Req(c).op = "gc" /\ call[c].at # "idle") /\ call[c].at \notin {"gc", "gcrow"}
      BY <2>1, InitFacts
    <2> QED BY <2>2 DEF Sweeps
  <1>9. Registering BY InitFacts, CarriesAre DEF Registering
  <1> QED BY <1>0, <1>1, <1>2, <1>3, <1>4, <1>5, <1>6, <1>7, <1>8, <1>9 DEF Base

-----------------------------------------------------------------------------
(* The theorems. *)

(***************************************************************************)
(* UploadIntentService keeps its types, and binds an idempotency key only to *)
(* an intent that is in its record map under that key.                       *)
(***************************************************************************)
THEOREM ArtifactTypes == Spec => []TypeOK
  <1>1. Init => Base BY InitHolds
  <1>2. Base /\ [Next]_vars => Base' BY BaseStep
  <1>3. Base => TypeOK BY DEF Base, Types, Records, TypeOK
  <1> QED BY <1>1, <1>2, <1>3, PTL DEF Spec

(***************************************************************************)
(* acceptFile: an intent of the record map has the bytes of every file that  *)
(* it says it accepted, and they have the digest it recorded unless two      *)
(* transfers of one file overlapped: through abandons, lease sweeps and      *)
(* crashes between the write, the mark and the save of the record.           *)
(***************************************************************************)
THEOREM AcceptedFilesAreHeld == Spec => []AcceptedIsHeld
  <1>1. Init => Base /\ Transfer BY InitHolds
  <1>2. Base /\ Transfer /\ [Next]_vars => Base' /\ Transfer' BY BaseStep, TransferStep
  <1>3. Base /\ Transfer => AcceptedIsHeld BY DEF Base, Types, Removals, Transfer, Accepted, AcceptedIsHeld
  <1> QED BY <1>1, <1>2, <1>3, PTL DEF Spec

(***************************************************************************)
(* issueLocked: an idempotency key has one reservation, and the files stored *)
(* for the step and the reservations of the intents that can still be        *)
(* resolved keep the ceiling.                                                *)
(***************************************************************************)
THEOREM ReservationsAreBounded == Spec => []ReservationsBounded
  <1>1. Init => Base /\ Fresh /\ Issues /\ Room BY InitHolds
  <1>2. Base /\ Fresh /\ Issues /\ Room /\ [Next]_vars => Base' /\ Fresh' /\ Issues' /\ Room'
    BY BaseStep, FreshStep, IssuesStep, RoomStep
  <1>3. Base /\ Issues => OneIntentPerKey BY DEF Issues, OneIntentPerKey
  <1>4. Base /\ Room => CeilingKept
    <2> SUFFICES ASSUME Base, Room, ~history.cut, ~history.undead
                 PROVE  Cardinality(Present(stable)) + Reserved({i \in live : obj[i].state = "open"}) =< plan.ceiling
      BY DEF CeilingKept
    <2> DEFINE Open == {i \in live : obj[i].state = "open"}
    <2>1. Open \subseteq Owing /\ Owing \subseteq Intents BY DEF Room, Owing, Base, Types
    <2>2. Reserved(Open) =< Reserved(Owing) /\ Reserved(Open) \in Nat /\ Reserved(Owing) \in Nat
      BY <2>1, ReservedGrows
    <2>3. Cardinality(Present(stable)) \in Nat /\ plan.ceiling \in Nat BY PresentFits, PlanFacts DEF Base
    <2>4. Cardinality(Present(stable)) + Reserved(Owing) =< plan.ceiling BY DEF Room
    <2> QED BY <2>2, <2>3, <2>4
  <1>5. Base /\ Issues /\ Room => ReservationsBounded BY <1>3, <1>4 DEF ReservationsBounded
  <1> QED BY <1>1, <1>2, <1>5, PTL DEF Spec

(***************************************************************************)
(* resolveFlowStep and promoteArtifactsOut: what the run's context lists is  *)
(* in the slot directory with the listed digest, and a resolve of a step with *)
(* a required slot that is answered ok has listed its files, also when its   *)
(* intent was gone or had been prepared before.                              *)
(***************************************************************************)
THEOREM ResolvedStepsHaveFiles == Spec => []ResolvedHasFiles
  <1>1. Init => Base /\ Serve BY InitHolds
  <1>2. Base /\ Serve /\ [Next]_vars => Base' /\ Serve' BY BaseStep, ServeStep
  <1>3. Answered => OkHasFiles BY DEF Answered, OkHasFiles, Full
  <1>4. Serve => ResolvedHasFiles BY <1>3 DEF Serve, ResolvedHasFiles
  <1> QED BY <1>1, <1>2, <1>4, PTL DEF Spec

(***************************************************************************)
(* materializeConsumerCopy, putArtifact and runGc, with one dispatch of the  *)
(* consumer and sweeps that come one after the other: a handler starts with  *)
(* all the files of its dispatch, and an unexpired reference of the exchange *)
(* is served with its bytes.                                                 *)
(***************************************************************************)
THEOREM ReadersAreGivenWhole ==
  ASSUME OneDispatch, SweepsApart
  PROVE  Spec => []ReadersSeeWhole
  <1>1. Init => Base /\ Serve /\ Given /\ Sweeps /\ Registering BY InitHolds
  <1>2. Base /\ Serve /\ Given /\ Sweeps /\ Registering /\ [Next]_vars =>
          Base' /\ Serve' /\ Given' /\ Sweeps' /\ Registering'
    BY BaseStep, ServeStep, GivenStep, ExchangeSteps DEF Serve
  <1>3. Given /\ Registering => ReadersSeeWhole
    BY DEF Given, Registering, ReadersSeeWhole, HandlerSeesWhole, ReferenceServes
  <1> QED BY <1>1, <1>2, <1>3, PTL DEF Spec
=============================================================================
