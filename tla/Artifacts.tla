----------------------------- MODULE Artifacts -----------------------------
(***************************************************************************)
(* The files of one step: upload intents and their leases, the resolve that  *)
(* promotes the uploaded bytes, the exchange that registers them, and the     *)
(* copies given to the next handler.                                          *)
(*                                                                           *)
(* Only the issue of an intent is serialised.  Every other request checks its *)
(* record, awaits the file system, and goes on with the record object it      *)
(* holds, which another request may have removed from the map meanwhile.      *)
(* A file has size 1 and all intents declare the same files, so their staged  *)
(* names in the step's work directory coincide.                               *)
(***************************************************************************)
EXTENDS Integers, FiniteSets, FiniteSetsExt

CONSTANTS
    Intents,    \* upload intents, 1..n, in the order of their ids
    Files,      \* declared files, 1..n
    Transfers,  \* transfer ids of the exchange, 1..n
    Keys,       \* idempotency keys of the clients
    Contents,   \* file contents (and their digests)
    Calls,      \* requests, each made once
    Plans       \* the requests of a behaviour, its ceiling and its faults

None == "none"
NoKey == "no_key"

\* op: the endpoint; key: idempotency key; bytes: what a put carries, for the file
\* `file'; tid: an explicit transfer_id, or 0; after: calls answered or lost before.
RequestType ==
    [op : {"issue", "put", "resolve", "cancel", "dispatch", "store", "gc", "load", "unused"},
     key : Keys \union {NoKey}, file : Files, bytes : Contents, tid : Transfers \union {0},
     after : SUBSET Calls]

ASSUME ArtifactAssumption ==
    /\ IsFiniteSet(Intents) /\ IsFiniteSet(Files) /\ IsFiniteSet(Transfers)
    /\ Intents = 1..Cardinality(Intents) /\ Files = 1..Cardinality(Files) /\ Files # {}
    /\ Transfers = 1..Cardinality(Transfers) /\ None \notin Contents /\ None \notin Calls
    /\ \A q \in Plans :
          /\ q \in [req : [Calls -> RequestType], ceiling : Nat, required : BOOLEAN,
                    lapse : BOOLEAN, expiry : BOOLEAN, crashes : Nat]
          /\ \A c \in Calls : q.req[c].op = "issue" => q.req[c].key \in Keys

VARIABLES
    plan,
    call,     \* where each request is
    lock,     \* holder of UploadIntentService.issueTail
    live,     \* keys of UploadIntentService.records
    idem,     \* UploadIntentService.idempotency; 0: not bound
    obj,      \* the record objects, also of intents removed from the map
    disk,     \* record.json of each intent
    held,     \* transfer files of each intent
    reap,     \* lease sweeper: how far the abandon of an intent is
    work,     \* the step's work directory
    stable,   \* the step's promoted slot directory
    inputs,   \* the consumer's inputs directory
    memo,     \* the step's memo and the key that resolved it
    bag,      \* exec_context.artifacts of the step: <<file, digest>>
    rows,     \* the artifacts table: digest and whether expires_at has passed
    bytes,    \* the exchange directory
    crashes,
    history   \* observations, see Init

intents == <<lock, live, idem, obj, disk, held, reap>>
tree == <<work, stable, inputs>>
run == <<memo, bag>>
exchange == <<rows, bytes>>
vars == <<plan, call, intents, tree, run, exchange, crashes, history>>

NoFiles == [f \in Files |-> None]
NoRec == [key |-> NoKey, state |-> None, uploaded |-> {}, hash |-> NoFiles, stale |-> FALSE]
NoRow == [digest |-> None, expired |-> FALSE]
Idle == [at |-> "idle", i |-> 0, f |-> 1, reserved |-> 0, sent |-> NoFiles, arts |-> {}, t |-> 0,
         todo |-> {}, res |-> None]

\* history.gone: intents that were removed from the map; undead: one of them was
\* loaded again; cut: one was removed under a request that was promoting its files;
\* overlap: two resolves of
\* the step overlapped; raced: two transfers of one file overlapped; reput: an
\* explicit transfer_id was stored twice or while the sweep was deleting it;
\* broken: a load found an unexpired row without its bytes.
Init ==
    /\ plan \in Plans
    /\ call = [c \in Calls |-> IF plan.req[c].op = "unused" THEN [Idle EXCEPT !.at = "done"] ELSE Idle]
    /\ lock = None /\ live = {} /\ idem = [k \in Keys |-> 0]
    /\ obj = [i \in Intents |-> NoRec] /\ disk = obj /\ held = [i \in Intents |-> NoFiles]
    /\ reap = [i \in Intents |-> None]
    /\ work = NoFiles /\ stable = NoFiles /\ inputs = NoFiles
    /\ memo = [status |-> "working", key |-> NoKey] /\ bag = {}
    /\ rows = [t \in Transfers |-> NoRow] /\ bytes = [t \in Transfers |-> None]
    /\ crashes = 0
    /\ history = [gone |-> {}, undead |-> FALSE, cut |-> FALSE, overlap |-> FALSE, raced |-> FALSE, reput |-> FALSE, broken |-> FALSE]

Req(c) == plan.req[c]
At(c, pc) == call[c].at = pc
Ended(c) == call[c].at \in {"done", "lost"}
Goto(c, pc) == call' = [call EXCEPT ![c].at = pc]
Answer(c, r) == call' = [call EXCEPT ![c].at = "done", ![c].res = r]
Begins(c, op) == At(c, "idle") /\ Req(c).op = op /\ \A b \in Req(c).after : Ended(b)

Present(dir) == {f \in Files : dir[f] # None}
Size == Cardinality(Files)
\* directoryBytes of the run's scratch tree.
Stored == Cardinality(Present(work)) + Cardinality(Present(stable)) + Cardinality(Present(inputs))
Reserved(is) == Size * Cardinality(is)
Issued == {i \in Intents : obj[i] # NoRec}

-----------------------------------------------------------------------------
(* Issue: POST upload-intents *)

\* The route refuses a step that is not working, then queues on issueTail.
IssueRoute(c) ==
    /\ Begins(c, "issue")
    /\ IF memo.status = "working" THEN Goto(c, "queued") ELSE Answer(c, "fail")
    /\ UNCHANGED <<plan, intents, tree, run, exchange, crashes, history>>

\* Mutant: issues are not serialised.
IssueCheckUnlocked(c) ==
    /\ At(c, "queued")
    /\ IF idem[Req(c).key] # 0 THEN Answer(c, "ok")
       ELSE call' = [call EXCEPT ![c].at = "issue", ![c].reserved = Reserved(live)]
    /\ UNCHANGED <<plan, intents, tree, run, exchange, crashes, history>>

\* issueLocked: a bound key is answered with its intent.  The reservations are summed before the file system is read.
IssueCheck(c) ==
    /\ At(c, "queued") /\ lock = None
    /\ IF idem[Req(c).key] # 0 THEN Answer(c, "ok") /\ UNCHANGED lock
       ELSE /\ call' = [call EXCEPT ![c].at = "issue", ![c].reserved = Reserved(live)]
            /\ lock' = c
    /\ UNCHANGED <<plan, live, idem, obj, disk, held, reap, tree, run, exchange, crashes, history>>

\* Mutant: the space promised to other intents is not counted.
IssueRecordUnreserved(c) ==
    /\ At(c, "issue")
    /\ IF Stored + Size > plan.ceiling \/ Issued = Intents
       THEN Answer(c, "fail") /\ lock' = None /\ UNCHANGED <<live, idem, obj>>
       ELSE LET i == Min(Intents \ Issued) IN
            /\ live' = live \union {i} /\ idem' = [idem EXCEPT ![Req(c).key] = i]
            /\ obj' = [obj EXCEPT ![i] = [NoRec EXCEPT !.key = Req(c).key, !.state = "open"]]
            /\ call' = [call EXCEPT ![c].at = "persist", ![c].i = i]
            /\ UNCHANGED lock
    /\ UNCHANGED <<plan, disk, held, reap, tree, run, exchange, crashes, history>>

IssueRecord(c) ==
    /\ At(c, "issue")
    /\ IF Stored + call[c].reserved + Size > plan.ceiling \/ Issued = Intents
       THEN Answer(c, "fail") /\ lock' = None /\ UNCHANGED <<live, idem, obj>>
       ELSE LET i == Min(Intents \ Issued) IN
            /\ live' = live \union {i} /\ idem' = [idem EXCEPT ![Req(c).key] = i]
            /\ obj' = [obj EXCEPT ![i] = [NoRec EXCEPT !.key = Req(c).key, !.state = "open"]]
            /\ call' = [call EXCEPT ![c].at = "persist", ![c].i = i]
            /\ UNCHANGED lock
    /\ UNCHANGED <<plan, disk, held, reap, tree, run, exchange, crashes, history>>

\* persist writes the record object as it is now, whether or not it is still in the map.
persist(i) == disk' = [disk EXCEPT ![i] = obj[i]]

IssuePersist(c) ==
    /\ At(c, "persist") /\ Req(c).op = "issue"
    /\ persist(call[c].i) /\ Answer(c, "ok") /\ lock' = None
    /\ UNCHANGED <<plan, live, idem, obj, held, reap, tree, run, exchange, crashes, history>>

-----------------------------------------------------------------------------
(* Abandon and remove *)

\* The staged copies of a prepared intent are deleted with it.
AbandonStaged(i) == work' = IF i \in live /\ obj[i].state = "prepared" THEN NoFiles ELSE work

\* A resolve that holds the record of its intent and has files to promote.
Promoting(c) ==
    /\ Req(c).op = "resolve"
    /\ \/ call[c].at \in {"stage", "prepared"}
       \/ call[c].at \in {"persist", "flow", "read", "copy", "find", "bytes", "row", "unlink"}
             /\ call[c].todo # {}

removeMap(i) ==
    /\ live' = live \ {i}
    /\ idem' = IF i \in live THEN [idem EXCEPT ![obj[i].key] = 0] ELSE idem
    /\ history' = [history EXCEPT !.gone = @ \union {i},
                                  !.cut = @ \/ \E b \in Calls : Promoting(b) /\ call[b].i = i]

removeDir(i) ==
    disk' = [disk EXCEPT ![i] = NoRec] /\ held' = [held EXCEPT ![i] = NoFiles]

\* A lease is one idle hour; sweepExpired, and requireOpen on a lapsed record,
\* start an abandon that nobody awaits.
LeaseLapses(i) ==
    /\ plan.lapse /\ i \in live /\ ~obj[i].stale
    /\ obj' = [obj EXCEPT ![i].stale = TRUE]
    /\ UNCHANGED <<plan, call, lock, live, idem, disk, held, reap, tree, run, exchange, crashes, history>>

\* Mutant: a prepared intent is not swept.
sweepExpiredOpen(i) ==
    /\ i \in live /\ obj[i].stale /\ obj[i].state = "open" /\ reap[i] = None
    /\ reap' = [reap EXCEPT ![i] = "staged"]
    /\ UNCHANGED <<plan, call, lock, live, idem, obj, disk, held, tree, run, exchange, crashes, history>>

sweepExpired(i) ==
    /\ i \in live /\ obj[i].stale /\ reap[i] = None
    /\ reap' = [reap EXCEPT ![i] = "staged"]
    /\ UNCHANGED <<plan, call, lock, live, idem, obj, disk, held, tree, run, exchange, crashes, history>>

\* Mutant: the directory goes before the record leaves the map.
ReapStagedDeletes(i) ==
    /\ reap[i] = "staged" /\ AbandonStaged(i) /\ removeDir(i) /\ reap' = [reap EXCEPT ![i] = "map"]
    /\ UNCHANGED <<plan, call, lock, live, idem, obj, stable, inputs, run, exchange, crashes, history>>

ReapStaged(i) ==
    /\ reap[i] = "staged" /\ AbandonStaged(i) /\ reap' = [reap EXCEPT ![i] = "map"]
    /\ UNCHANGED <<plan, call, lock, live, idem, obj, disk, held, stable, inputs, run, exchange, crashes, history>>

ReapMap(i) ==
    /\ reap[i] = "map" /\ removeMap(i) /\ reap' = [reap EXCEPT ![i] = "dir"]
    /\ UNCHANGED <<plan, call, lock, obj, disk, held, tree, run, exchange, crashes>>

ReapDir(i) ==
    /\ reap[i] = "dir" /\ removeDir(i) /\ reap' = [reap EXCEPT ![i] = None]
    /\ UNCHANGED <<plan, call, lock, live, idem, obj, tree, run, exchange, crashes, history>>

\* DELETE of an intent that is still there.
Cancel(c, i) ==
    /\ Begins(c, "cancel") /\ i \in Issued
    /\ IF i \in live THEN call' = [call EXCEPT ![c].at = "staged", ![c].i = i, ![c].res = "ok"]
       ELSE Answer(c, "fail")
    /\ UNCHANGED <<plan, intents, tree, run, exchange, crashes, history>>

\* The steps of abandon in the request that cancels or that failed to resolve, and
\* the removal (consume) of the one that resolved.
CallStaged(c) ==
    /\ At(c, "staged") /\ AbandonStaged(call[c].i) /\ Goto(c, "map")
    /\ UNCHANGED <<plan, intents, stable, inputs, run, exchange, crashes, history>>

CallMap(c) ==
    /\ At(c, "map") /\ removeMap(call[c].i) /\ Goto(c, "dir")
    /\ UNCHANGED <<plan, lock, obj, disk, held, reap, tree, run, exchange, crashes>>

CallDir(c) ==
    /\ At(c, "dir") /\ removeDir(call[c].i)
    /\ Answer(c, IF call[c].res = None THEN "fail" ELSE call[c].res)
    /\ UNCHANGED <<plan, lock, live, idem, obj, reap, tree, run, exchange, crashes, history>>

-----------------------------------------------------------------------------
(* Transfer of one file *)

requireOpen(i) == i \in live /\ obj[i].state = "open" /\ ~obj[i].stale
\* What requireOpen does on a lapsed record.
LapsedAbandon(i) ==
    reap' = IF i \in live /\ obj[i].state = "open" /\ obj[i].stale /\ reap[i] = None
            THEN [reap EXCEPT ![i] = "staged"] ELSE reap

Transferring(c) == Req(c).op = "put" /\ call[c].at \in {"write", "mark"}

\* acceptFile: a file that was accepted before is only compared.
AcceptCheck(c, i) ==
    LET f == Req(c).file IN
    /\ Begins(c, "put") /\ i \in Issued
    /\ LapsedAbandon(i)
    /\ IF ~requireOpen(i) THEN Answer(c, "fail") /\ UNCHANGED <<obj, history>>
       ELSE IF f \in obj[i].uploaded
       THEN IF obj[i].hash[f] = Req(c).bytes
            THEN /\ obj' = [obj EXCEPT ![i].stale = FALSE]
                 /\ call' = [call EXCEPT ![c].at = "persist", ![c].i = i]
                 /\ UNCHANGED history
            ELSE Answer(c, "fail") /\ UNCHANGED <<obj, history>>
       ELSE /\ call' = [call EXCEPT ![c].at = "write", ![c].i = i]
            /\ history' = [history EXCEPT !.raced =
                   @ \/ \E b \in Calls : Transferring(b) /\ call[b].i = i /\ Req(b).file = f]
            /\ UNCHANGED obj
    /\ UNCHANGED <<plan, lock, live, idem, disk, held, tree, run, exchange, crashes>>

AcceptWrite(c) ==
    /\ At(c, "write")
    /\ held' = [held EXCEPT ![call[c].i][Req(c).file] = Req(c).bytes] /\ Goto(c, "mark")
    /\ UNCHANGED <<plan, lock, live, idem, obj, disk, reap, tree, run, exchange, crashes, history>>

AcceptMark(c) ==
    LET i == call[c].i f == Req(c).file IN
    /\ At(c, "mark")
    /\ obj' = [obj EXCEPT ![i].uploaded = @ \union {f}, ![i].hash[f] = Req(c).bytes, ![i].stale = FALSE]
    /\ Goto(c, "persist")
    /\ UNCHANGED <<plan, lock, live, idem, disk, held, reap, tree, run, exchange, crashes, history>>

AcceptPersist(c) ==
    /\ At(c, "persist") /\ Req(c).op = "put"
    /\ persist(call[c].i) /\ Answer(c, "ok")
    /\ UNCHANGED <<plan, lock, live, idem, obj, held, reap, tree, run, exchange, crashes, history>>

-----------------------------------------------------------------------------
(* Resolve with an intent: prepareResolve, promoteArtifactsOut, consume *)

Resolving(c) == Req(c).op = "resolve" /\ call[c].at \notin {"idle", "done", "lost"}
Fails(c) == IF call[c].i = 0 THEN Answer(c, "fail") ELSE Goto(c, "staged")

\* A record that is gone, or was prepared before, does not end the request: the
\* step is then resolved without files, so that a repeated resolve finds its answer.
prepareResolve(c, i) ==
    /\ Begins(c, "resolve") /\ i \in Issued
    /\ LapsedAbandon(i)
    /\ history' = [history EXCEPT !.overlap = @ \/ \E b \in Calls : Resolving(b)]
    /\ IF i \notin live THEN Goto(c, "flow")
       ELSE IF obj[i].state # "open" THEN call' = [call EXCEPT ![c].at = "flow", ![c].i = i]
       ELSE IF \/ obj[i].stale \/ obj[i].key # Req(c).key \/ obj[i].uploaded # Files
               \/ Stored + Reserved(live) > plan.ceiling
       THEN Answer(c, "fail")
       ELSE call' = [call EXCEPT ![c].at = "stage", ![c].i = i]
    /\ UNCHANGED <<plan, lock, live, idem, obj, disk, held, tree, run, exchange, crashes>>

StageFile(c) ==
    LET i == call[c].i f == call[c].f IN
    /\ At(c, "stage")
    /\ IF held[i][f] = None
       THEN Answer(c, "fail") /\ UNCHANGED work
       ELSE /\ work' = [work EXCEPT ![f] = held[i][f]]
            /\ call' = [call EXCEPT ![c].f = IF f = Size THEN 1 ELSE f + 1,
                                    ![c].at = IF f = Size THEN "prepared" ELSE "stage"]
    /\ UNCHANGED <<plan, intents, stable, inputs, run, exchange, crashes, history>>

MarkPrepared(c) ==
    /\ At(c, "prepared")
    /\ obj' = [obj EXCEPT ![call[c].i].state = "prepared", ![call[c].i].stale = FALSE]
    /\ call' = [call EXCEPT ![c].at = "persist", ![c].todo = Files]
    /\ UNCHANGED <<plan, lock, live, idem, disk, held, reap, tree, run, exchange, crashes, history>>

PreparedPersist(c) ==
    /\ At(c, "persist") /\ Req(c).op = "resolve"
    /\ persist(call[c].i) /\ Goto(c, "flow")
    /\ UNCHANGED <<plan, lock, live, idem, obj, held, reap, tree, run, exchange, crashes, history>>

\* Mutant: required slots are not checked.
resolveFlowStepUnchecked(c) ==
    /\ At(c, "flow")
    /\ IF memo.status = "completed"
       THEN IF memo.key = Req(c).key
            THEN call' = [call EXCEPT ![c].at = IF call[c].i = 0 THEN "done" ELSE "map", ![c].res = "ok"]
            ELSE Fails(c)
       ELSE call' = [call EXCEPT ![c].at = IF call[c].todo = {} THEN "memo" ELSE "read",
                                 ![c].arts = bag]
    /\ UNCHANGED <<plan, intents, tree, run, exchange, crashes, history>>

\* resolveFlowStep up to the promotion; `todo' is artifacts_out.
resolveFlowStep(c) ==
    /\ At(c, "flow")
    /\ IF memo.status = "completed"
       THEN IF memo.key = Req(c).key
            THEN call' = [call EXCEPT ![c].at = IF call[c].i = 0 THEN "done" ELSE "map", ![c].res = "ok"]
            ELSE Fails(c)
       ELSE IF call[c].todo = {} /\ plan.required THEN Fails(c)
       ELSE call' = [call EXCEPT ![c].at = IF call[c].todo = {} THEN "memo" ELSE "read",
                                 ![c].arts = bag]
    /\ UNCHANGED <<plan, intents, tree, run, exchange, crashes, history>>

\* Every staged file is read and measured before the first is copied.
PromoteRead(c) ==
    /\ At(c, "read")
    /\ IF Present(work) # Files \/ Stored + Size > plan.ceiling
       THEN Fails(c)
       ELSE call' = [call EXCEPT ![c].at = "copy", ![c].f = 1, ![c].sent = work]
    /\ UNCHANGED <<plan, intents, tree, run, exchange, crashes, history>>

\* A failure after that removes the step's whole slot directory.
PromoteCopy(c) ==
    LET f == call[c].f IN
    /\ At(c, "copy")
    /\ IF work[f] = None
       THEN stable' = NoFiles /\ Fails(c)
       ELSE /\ stable' = [stable EXCEPT ![f] = work[f]]
            /\ call' = [call EXCEPT ![c].at = "find"]
    /\ UNCHANGED <<plan, intents, work, inputs, run, exchange, crashes, history>>

\* Mutant: the promoted copies are unlinked too.
PromoteUnlinkBoth(c) ==
    /\ At(c, "unlink")
    /\ work' = NoFiles /\ stable' = NoFiles
    /\ call' = [call EXCEPT ![c].at = "memo", ![c].arts = @ \union {<<f, call[c].sent[f]>> : f \in Files}]
    /\ UNCHANGED <<plan, intents, inputs, run, exchange, crashes, history>>

PromoteUnlink(c) ==
    /\ At(c, "unlink")
    /\ work' = NoFiles
    /\ call' = [call EXCEPT ![c].at = "memo", ![c].arts = @ \union {<<f, call[c].sent[f]>> : f \in Files}]
    /\ UNCHANGED <<plan, intents, stable, inputs, run, exchange, crashes, history>>

ResolveMemo(c) ==
    /\ At(c, "memo")
    /\ memo' = [status |-> "completed", key |-> Req(c).key] /\ Goto(c, "exec")
    /\ UNCHANGED <<plan, intents, tree, bag, exchange, crashes, history>>

\* persistRunExecContext writes the context that was read with the memos.
ResolveExec(c) ==
    /\ At(c, "exec")
    /\ bag' = call[c].arts
    /\ call' = [call EXCEPT ![c].at = IF call[c].i = 0 THEN "done" ELSE "map", ![c].res = "ok"]
    /\ UNCHANGED <<plan, intents, tree, memo, exchange, crashes, history>>

-----------------------------------------------------------------------------
(* The consumer's copies *)

\* materializeConsumerCopyDirectory for the files of the bag: each is compared with
\* its digest; one failure removes the directory.
DispatchBegin(c) ==
    /\ Begins(c, "dispatch") /\ bag # {}
    /\ call' = [call EXCEPT ![c].at = "materialize", ![c].todo = bag, ![c].arts = bag]
    /\ UNCHANGED <<plan, intents, tree, run, exchange, crashes, history>>

\* Mutant: copies are not compared with their digests.
materializeUnverified(c) ==
    /\ At(c, "materialize") /\ call[c].todo # {}
    /\ \E e \in call[c].todo :
         /\ \A d \in call[c].todo : e[1] =< d[1]
         /\ inputs' = [inputs EXCEPT ![e[1]] = stable[e[1]]]
         /\ call' = [call EXCEPT ![c].todo = @ \ {e}]
    /\ UNCHANGED <<plan, intents, work, stable, run, exchange, crashes, history>>

materializeConsumerCopy(c) ==
    /\ At(c, "materialize") /\ call[c].todo # {}
    /\ \E e \in call[c].todo :
         /\ \A d \in call[c].todo : e[1] =< d[1]
         /\ IF stable[e[1]] # e[2]
            THEN inputs' = NoFiles /\ Answer(c, "fail")
            ELSE /\ inputs' = [inputs EXCEPT ![e[1]] = stable[e[1]]]
                 /\ call' = [call EXCEPT ![c].todo = @ \ {e}]
    /\ UNCHANGED <<plan, intents, work, stable, run, exchange, crashes, history>>

\* The handler is spawned.
DispatchSpawn(c) ==
    /\ At(c, "materialize") /\ call[c].todo = {} /\ Answer(c, "ok")
    /\ UNCHANGED <<plan, intents, tree, run, exchange, crashes, history>>

-----------------------------------------------------------------------------
(* The exchange: putArtifact, load, daily GC *)

StoreBegin(c) ==
    /\ Begins(c, "store")
    /\ call' = [call EXCEPT ![c].at = "find", ![c].sent = [f \in Files |-> Req(c).bytes]]
    /\ UNCHANGED <<plan, intents, tree, run, exchange, crashes, history>>

\* After a registration the promotion goes on with its next file.
Registered(c) ==
    IF Req(c).op = "store" THEN Answer(c, "ok")
    ELSE call' = [call EXCEPT ![c].at = IF call[c].f = Size THEN "unlink" ELSE "copy",
                              ![c].f = IF call[c].f = Size THEN 1 ELSE call[c].f + 1]

Digest(c) == call[c].sent[call[c].f]
Unused(t) == rows[t] = NoRow /\ bytes[t] = None /\ \A b \in Calls : call[b].t # t /\ Req(b).tid # t

\* The same bytes of a space are registered once, unless the caller names the id.
PutFind(c) ==
    /\ At(c, "find")
    /\ IF Req(c).tid = 0 /\ \E t \in Transfers : rows[t].digest = Digest(c)
       THEN Registered(c)
       ELSE \E t \in Transfers :
              /\ IF Req(c).tid = 0 THEN Unused(t) ELSE t = Req(c).tid
              /\ call' = [call EXCEPT ![c].at = "bytes", ![c].t = t]
    /\ UNCHANGED <<plan, intents, tree, run, exchange, crashes, history>>

PutBytes(c) ==
    LET t == call[c].t IN
    /\ At(c, "bytes")
    /\ bytes' = [bytes EXCEPT ![t] = Digest(c)] /\ Goto(c, "row")
    /\ history' = [history EXCEPT !.reput = @ \/ (Req(c).tid # 0 /\ (rows[t] # NoRow \/ bytes[t] # None))]
    /\ UNCHANGED <<plan, intents, tree, run, rows, crashes>>

\* transfer_id is the primary key: a second insert throws (only an explicit id can be in use).
PutRow(c) ==
    /\ At(c, "row")
    /\ IF rows[call[c].t] # NoRow THEN Answer(c, "fail") /\ UNCHANGED rows
       ELSE /\ rows' = [rows EXCEPT ![call[c].t] = [digest |-> Digest(c), expired |-> FALSE]]
            /\ Registered(c)
    /\ UNCHANGED <<plan, intents, tree, run, bytes, crashes, history>>

Expires(t) ==
    /\ plan.expiry /\ rows[t] # NoRow /\ ~rows[t].expired
    /\ rows' = [rows EXCEPT ![t].expired = TRUE]
    /\ UNCHANGED <<plan, call, intents, tree, run, bytes, crashes, history>>

\* Mutant: rows that have not expired are collected.
GcListAll(c) ==
    /\ Begins(c, "gc")
    /\ call' = [call EXCEPT ![c].at = "gc", ![c].todo = {t \in Transfers : rows[t] # NoRow}]
    /\ UNCHANGED <<plan, intents, tree, run, exchange, crashes, history>>

\* runGc lists the rows once and deletes what had expired then.
GcList(c) ==
    /\ Begins(c, "gc")
    /\ call' = [call EXCEPT ![c].at = "gc", ![c].todo = {t \in Transfers : rows[t].expired}]
    /\ UNCHANGED <<plan, intents, tree, run, exchange, crashes, history>>

GcBytes(c) ==
    /\ At(c, "gc")
    /\ IF call[c].todo = {} THEN Answer(c, "ok") /\ UNCHANGED bytes
       ELSE LET t == Min(call[c].todo) IN
            /\ bytes' = [bytes EXCEPT ![t] = None]
            /\ call' = [call EXCEPT ![c].at = "gcrow", ![c].t = t]
    /\ UNCHANGED <<plan, intents, tree, run, rows, crashes, history>>

GcRow(c) ==
    /\ At(c, "gcrow")
    /\ rows' = [rows EXCEPT ![call[c].t] = NoRow]
    /\ call' = [call EXCEPT ![c].at = "gc", ![c].todo = @ \ {call[c].t}, ![c].t = 0]
    /\ UNCHANGED <<plan, intents, tree, run, bytes, crashes, history>>

\* materialize, serve and invoke: the row is read, then its expiry, the bytes and the
\* digest are checked.  A row deleted or replaced since it was read had expired.
LoadRow(c, t) ==
    /\ Begins(c, "load")
    /\ IF rows[t] = NoRow THEN Answer(c, "fail")
       ELSE call' = [call EXCEPT ![c].at = "load", ![c].t = t, ![c].sent = [f \in Files |-> rows[t].digest]]
    /\ UNCHANGED <<plan, intents, tree, run, exchange, crashes, history>>

LoadBytes(c) ==
    LET t == call[c].t IN
    /\ At(c, "load")
    /\ IF rows[t].digest # Digest(c) \/ rows[t].expired THEN Answer(c, "fail") /\ UNCHANGED history
       ELSE /\ Answer(c, IF bytes[t] = Digest(c) THEN "ok" ELSE "fail")
            /\ history' = [history EXCEPT !.broken = @ \/ bytes[t] # Digest(c)]
    /\ UNCHANGED <<plan, intents, tree, run, exchange, crashes>>

-----------------------------------------------------------------------------
(* Crash and restart of the hub *)

\* start() loads what record.json files there are; a file torn by the crash, or an
\* intent directory without one, is deleted.  Files and tables survive.
Crash ==
    /\ crashes < plan.crashes /\ crashes' = crashes + 1
    /\ \E torn \in SUBSET {call[c].i : c \in {b \in Calls : At(b, "persist")}} :
         LET left == [i \in Intents |-> IF i \in torn THEN NoRec ELSE disk[i]]
             loaded == {i \in Intents : left[i] # NoRec}
         IN /\ disk' = left /\ live' = loaded
            /\ obj' = [i \in Intents |-> IF i \in loaded THEN left[i] ELSE obj[i]]
            /\ held' = [i \in Intents |-> IF i \in loaded THEN held[i] ELSE NoFiles]
            /\ idem' = [k \in Keys |-> Max({i \in loaded : left[i].key = k} \union {0})]
            /\ history' = [history EXCEPT !.gone = @ \union (Issued \ loaded),
                                             !.undead = @ \/ loaded \intersect history.gone # {}]
    /\ lock' = None /\ reap' = [i \in Intents |-> None]
    /\ call' = [c \in Calls |-> IF Ended(c) \/ At(c, "idle") THEN call[c] ELSE [Idle EXCEPT !.at = "lost"]]
    /\ UNCHANGED <<plan, tree, run, exchange>>

IntentStep(c) ==
    \/ IssueRoute(c) \/ IssueCheck(c) \/ IssueRecord(c) \/ IssuePersist(c)
    \/ CallStaged(c) \/ CallMap(c) \/ CallDir(c)
    \/ AcceptWrite(c) \/ AcceptMark(c) \/ AcceptPersist(c)
    \/ \E i \in Intents : Cancel(c, i) \/ AcceptCheck(c, i)

ResolveStep(c) ==
    \/ \E i \in Intents : prepareResolve(c, i)
    \/ StageFile(c) \/ MarkPrepared(c) \/ PreparedPersist(c) \/ resolveFlowStep(c)
    \/ PromoteRead(c) \/ PromoteCopy(c) \/ PromoteUnlink(c) \/ ResolveMemo(c) \/ ResolveExec(c)
    \/ DispatchBegin(c) \/ materializeConsumerCopy(c) \/ DispatchSpawn(c)

ExchangeStep(c) ==
    \/ StoreBegin(c) \/ PutFind(c) \/ PutBytes(c) \/ PutRow(c)
    \/ GcList(c) \/ GcBytes(c) \/ GcRow(c) \/ LoadBytes(c)
    \/ \E t \in Transfers : LoadRow(c, t)

Reap(i) == sweepExpired(i) \/ ReapStaged(i) \/ ReapMap(i) \/ ReapDir(i)

Next ==
    \/ \E c \in Calls : IntentStep(c) \/ ResolveStep(c) \/ ExchangeStep(c)
    \/ \E i \in Intents : LeaseLapses(i) \/ Reap(i)
    \/ \E t \in Transfers : Expires(t)
    \/ Crash

Spec == Init /\ [][Next]_vars
\* Started requests go on, idle leases lapse, and the 15-minute sweep runs.
FairSpec ==
    /\ Spec
    /\ WF_vars(\E c \in Calls : ~At(c, "idle") /\ (IntentStep(c) \/ ResolveStep(c) \/ ExchangeStep(c)))
    /\ WF_vars(\E i \in Intents : LeaseLapses(i)) /\ WF_vars(\E i \in Intents : Reap(i))

-----------------------------------------------------------------------------
(* Properties *)

RecType == [key : Keys \union {NoKey}, state : {None, "open", "prepared"}, uploaded : SUBSET Files,
            hash : [Files -> Contents \union {None}], stale : BOOLEAN]
FileType == [Files -> Contents \union {None}]

\* The types; and the idempotency map of UploadIntentService binds a key only to an
\* intent that is in its record map under that key.
TypeOK ==
    /\ live \subseteq Intents /\ idem \in [Keys -> Intents \union {0}]
    /\ obj \in [Intents -> RecType] /\ disk \in [Intents -> RecType]
    /\ held \in [Intents -> FileType] /\ {work, stable, inputs} \subseteq FileType
    /\ \A k \in Keys : idem[k] # 0 => idem[k] \in live /\ obj[idem[k]].key = k

\* A client that repeats its request for an intent never holds two reservations,
\* however its requests interleave with the awaits of issueLocked: no two intents
\* of the map have one key (unless a removed one was loaded again at a restart).
OneIntentPerKey ==
    ~history.undead => \A i, j \in live : obj[i].key = obj[j].key => i = j

\* What is promoted and what is reserved by intents that can still be resolved never
\* exceeds the ceiling of the run, unless an intent was removed while its files were
\* being promoted, or a removed one was loaded again at a restart.
CeilingKept ==
    (~history.cut /\ ~history.undead) =>
        Cardinality(Present(stable)) + Reserved({i \in live : obj[i].state = "open"}) =< plan.ceiling

\* An intent of the map has the bytes of every file it says it accepted, and they are
\* the bytes it hashed unless two transfers of the file overlapped: through
\* abandons, lease sweeps and crashes.
AcceptedIsHeld ==
    ~history.undead =>
        \A i \in live : \A f \in obj[i].uploaded :
            /\ held[i][f] # None
            /\ ~history.raced => held[i][f] = obj[i].hash[f]

\* Every file the run's context lists for the step is in the slot directory with
\* the listed digest, unless two resolves of the step overlapped.
ListedIsStored ==
    ~history.overlap => \A e \in bag : stable[e[1]] = e[2]

\* A resolve of a step with a required slot that is answered ok has put the files
\* in the run's context, also when the intent was gone or prepared before.
OkHasFiles ==
    (plan.required /\ crashes = 0 /\ ~history.overlap) =>
        \A c \in Calls : (Req(c).op = "resolve" /\ call[c].res = "ok" /\ Ended(c)) =>
            {e[1] : e \in bag} = Files

\* A handler is spawned only with all the files its dispatch listed, each with the
\* digest that was registered, also when the slot directory changes meanwhile.
HandlerSeesWhole ==
    \A c \in Calls : (Req(c).op = "dispatch" /\ call[c].res = "ok") =>
        \A e \in call[c].arts : inputs[e[1]] = e[2]

\* An unexpired reference of the exchange can be read and matches its digest,
\* whatever stores and sweeps run, unless a caller stored under an id that was in use.
ReferenceServes == ~history.reput => ~history.broken

\* Reservations are bounded: one for each key, and together with what is stored
\* they keep the ceiling (issueLocked).
ReservationsBounded == OneIntentPerKey /\ CeilingKept

\* A resolved step has its files: the ones it was answered ok for are listed, and
\* the listed ones are stored (resolveFlowStep, promoteArtifactsOut).
ResolvedHasFiles == ListedIsStored /\ OkHasFiles

\* Readers, a handler or a caller of the exchange, are given the bytes that were
\* registered or nothing (materializeConsumerCopy, runGc, putArtifact).
ReadersSeeWhole == HandlerSeesWhole /\ ReferenceServes

\* Every reservation is given back: once the clients are idle, the sweep of lapsed
\* leases empties the map, of prepared intents too.
ReservationsReleased == plan.lapse => <>[](live = {})

\* bridges/artifacts.md, "deletes temporary bytes, and releases reservations" and
\* "consumes the intent once": an intent that was removed (UploadIntentService.remove)
\* does not come back.
CancelledIsReleased == ~history.undead

\* bridges/step-contract.md, "Stable after resolve promotes": the files a resolved
\* step lists stay in the slot directory.
StableAfterResolve == \A e \in bag : stable[e[1]] = e[2]

\* bridges/artifacts.md, "Bytes with ... replay mismatches are rejected".
ReplayMismatchRejected ==
    \A i \in live \ history.gone : \A f \in obj[i].uploaded : held[i][f] = obj[i].hash[f]

\* bridges/artifacts.md, "a post-commit retry reconciles through resolve
\* idempotency": an ok answer for a required slot means that the files are listed.
RetryReconciles ==
    (plan.required /\ ~history.overlap) =>
        \A c \in Calls : (Req(c).op = "resolve" /\ call[c].res = "ok" /\ Ended(c)) => bag # {}

\* bridges/artifacts.md, "ordered immutable artifact references".
ImmutableReference == ~history.broken
=============================================================================
