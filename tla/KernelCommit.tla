---- MODULE KernelCommit ----
(***************************************************************************)
(* The kernel's command ingress and commit path over the SQLite store.     *)
(*                                                                         *)
(* Every process is one call of RuntimeKernel.execute.  The calls run on   *)
(* one event loop, so a step is what happens between two awaits.  A store  *)
(* transaction is NOT atomic: its function awaits between its reads (the   *)
(* next seq, the snapshot's revision, the idempotency row), and only the   *)
(* final flush runs inside a database transaction.  The flush fails when   *)
(* the journal's primary key (seq) is already taken.                       *)
(***************************************************************************)
EXTENDS Integers, Sequences, FiniteSets

CONSTANTS
    Procs,         \* concurrent calls of execute
    CmdIds,        \* command_id values; a client may submit one more than once
    Cmd,           \* Cmd[c]: the command sent under id c, [kind, agg, event, expected]
    Aggs,          \* aggregate ids, as handed out by the IdPort
    States,        \* states of the rule artifact
    Events,        \* event names
    Transitions,   \* the artifact's transitions, [from, event, to, checkpoint]
    InitialState,
    MaxSeq,        \* bound on the journal length
    None           \* absent value (null)

Kinds == {"aggregate.create", "state.transition", "event.append"}

ASSUME RuleAssumption ==
    /\ InitialState \in States
    /\ Transitions \subseteq [from : States, event : Events, to : States, checkpoint : BOOLEAN]
ASSUME CmdAssumption ==
    Cmd \in [CmdIds -> [kind : Kinds, agg : Aggs, event : Events, expected : Nat]]
ASSUME MaxSeqAssumption == MaxSeq \in Nat

VARIABLES
    journal,      \* journal_events: seq -> entry
    nextSeq,      \* seq_counter.next_seq
    snapshot,     \* aggregate_snapshots
    idempotency,  \* stored CommandResult per command_id
    checkpoints,  \* pending checkpoint rows
    outbox,       \* seqs with a fanout_outbox row
    used,         \* aggregate ids the IdPort has handed out
    pc,           \* control point of each call
    cur,          \* the command_id each call executes
    view,         \* the snapshot a call has loaded
    work,         \* the entry and snapshot a call is about to commit
    txn,          \* what a call's open transaction has read
    result        \* what a call returns

durable == <<journal, nextSeq, snapshot, idempotency, checkpoints, outbox>>
local == <<pc, cur, view, work, txn, result>>
vars == <<durable, used, local>>

DenialTypes == {"policy.denied", "transition.denied", "validation.denied", "revision.conflict"}
SuccessTypes == {"aggregate.created", "transition.applied", "event.appended", "checkpoint.created"}

Snap == [state : States, revision : Nat]

(* A journal entry: its type, the command it records, the aggregate, and   *)
(* the part of the payload the fold reads (to, revision).  Where a         *)
(* revision conflict is detected is visible in the denial's message.       *)
Entry == [type : SuccessTypes \cup DenialTypes, cmd : CmdIds, agg : Aggs \cup {None},
          to : States \cup {None}, revision : Nat, where : {"preflight", "commit"}]

Result == [code : SuccessTypes \cup DenialTypes \cup {"idempotency_replay"}, seq : Nat]

(* The write a handler hands to its commit function: the entry, the        *)
(* snapshot with the revision it replaces (-1 for a creation), and the     *)
(* checkpoint row.                                                         *)
Work == [entry : Entry, snap : Snap \cup {None}, expected : Nat \cup {-1}, checkpoint : BOOLEAN]

Txn == [seq : Nat, cas : {"none", "ok", "conflict"}, denialSeq : Nat,
        ins : {"unread", "inserted", "exists"}]

IsDenial(type) == type \in DenialTypes

(* null is a value of its own. *)
ASSUME NoneAssumption ==
    None \notin Aggs \cup CmdIds \cup States /\ None \notin Snap /\ None \notin Work /\ None \notin Result

TxnOf(seq, cas, denialSeq, ins) ==
    [seq |-> seq, cas |-> cas, denialSeq |-> denialSeq, ins |-> ins]

NoTxn == TxnOf(0, "none", 0, "unread")

(* resultFromEntry, keyed by the entry's seq. *)
ResultOf(code, seq) == [code |-> code, seq |-> seq]

EntryOf(type, c, a, to, rev, where) ==
    [type |-> type, cmd |-> c, agg |-> a, to |-> to, revision |-> rev, where |-> where]

(* buildDenialEntry: a denial carries no state. *)
DenialEntry(type, c, a, where) == EntryOf(type, c, a, None, 0, where)

WorkOf(e, snap, expected, cp) ==
    [entry |-> e, snap |-> snap, expected |-> expected, checkpoint |-> cp]

JournalWork(e) == WorkOf(e, None, -1, FALSE)

Init ==
    /\ journal = [s \in {} |-> None]
    /\ nextSeq = 1
    /\ snapshot = [a \in Aggs |-> None]
    /\ idempotency = [c \in CmdIds |-> None]
    /\ checkpoints = {}
    /\ outbox = {}
    /\ used = {}
    /\ pc = [p \in Procs |-> "idle"]
    /\ cur = [p \in Procs |-> None]
    /\ view = [p \in Procs |-> None]
    /\ work = [p \in Procs |-> None]
    /\ txn = [p \in Procs |-> NoTxn]
    /\ result = [p \in Procs |-> None]

InFlight == {p \in Procs : pc[p] \notin {"idle", "done", "thrown"}}

(* The bound: a call appends at most two entries. *)
Room == nextSeq - 1 + 2 * (Cardinality(InFlight) + 1) <= MaxSeq

(* execute(command) is called, or called again by a client that retries. *)
Submit(p, c) ==
    /\ pc[p] = "idle"
    /\ Room
    /\ Cmd[c].kind = "aggregate.create" =>
           Cardinality(InFlight) < Cardinality(Aggs \ used)
    /\ pc' = [pc EXCEPT ![p] = "idempotency"]
    /\ cur' = [cur EXCEPT ![p] = c]
    /\ UNCHANGED <<durable, used, view, work, txn, result>>

(* The stored result of the command is returned, marked as a replay. *)
CheckIdempotency(p) ==
    /\ pc[p] = "idempotency"
    /\ IF idempotency[cur[p]] # None
       THEN /\ pc' = [pc EXCEPT ![p] = "done"]
            /\ result' = [result EXCEPT ![p] =
                   ResultOf("idempotency_replay", idempotency[cur[p]].seq)]
       ELSE /\ pc' = [pc EXCEPT ![p] = "policy"]
            /\ UNCHANGED result
    /\ UNCHANGED <<durable, used, cur, view, work, txn>>

(* Hands w over to the commit function. *)
Commit(p, w) ==
    /\ work' = [work EXCEPT ![p] = w]
    /\ pc' = [pc EXCEPT ![p] = "append"]

(* PolicyPort.evaluate is outside the kernel: it allows or denies. *)
EvaluatePolicy(p) ==
    /\ pc[p] = "policy"
    /\ \/ pc' = [pc EXCEPT ![p] = "handle"] /\ UNCHANGED work
       \/ Commit(p, JournalWork(DenialEntry("policy.denied", cur[p], None, "preflight")))
    /\ UNCHANGED <<durable, used, cur, view, txn, result>>

(* handleCreate: a fresh id, the artifact's initial state, revision 0; the *)
(* metadata may fail its schema.                                           *)
HandleCreate(p) ==
    /\ pc[p] = "handle"
    /\ Cmd[cur[p]].kind = "aggregate.create"
    /\ \/ \E a \in Aggs \ used :
            /\ used' = used \cup {a}
            /\ Commit(p, WorkOf(EntryOf("aggregate.created", cur[p], a, InitialState, 0, "preflight"),
                               [state |-> InitialState, revision |-> 0], -1, FALSE))
       \/ /\ Commit(p, JournalWork(DenialEntry("validation.denied", cur[p], None, "preflight")))
          /\ UNCHANGED used
    /\ UNCHANGED <<durable, cur, view, txn, result>>

(* handleTransition and handleEventAppend load the snapshot first, in a    *)
(* transaction of its own.                                                 *)
LoadSnapshot(p) ==
    /\ pc[p] = "handle"
    /\ Cmd[cur[p]].kind # "aggregate.create"
    /\ view' = [view EXCEPT ![p] = snapshot[Cmd[cur[p]].agg]]
    /\ pc' = [pc EXCEPT ![p] = "decide"]
    /\ UNCHANGED <<durable, used, cur, work, txn, result>>

(* findMatchingTransition's candidates; the ConditionPort, outside the     *)
(* kernel, may refuse any of them.                                         *)
Candidates(state, event) == {t \in Transitions : t.from = state /\ t.event = event}

(* Mutant: the revision goes down instead of up. *)
AppliedSnapshotBackwards(s, t) == [state |-> t.to, revision |-> s.revision - 1]

(* applyTransition *)
AppliedSnapshot(s, t) == [state |-> t.to, revision |-> s.revision + 1]

DecideTransition(p) ==
    LET c == cur[p]
        a == Cmd[c].agg
        v == view[p]
    IN  /\ pc[p] = "decide"
        /\ Cmd[c].kind = "state.transition"
        /\ \/ Commit(p, JournalWork(DenialEntry("transition.denied", c, a, "preflight")))
           \/ /\ v # None
              /\ \E t \in Candidates(v.state, Cmd[c].event) :
                   IF Cmd[c].expected # v.revision
                   THEN Commit(p, JournalWork(DenialEntry("revision.conflict", c, a, "preflight")))
                   ELSE IF t.checkpoint
                   THEN Commit(p, WorkOf(EntryOf("checkpoint.created", c, a, t.to, 0, "preflight"),
                                         None, -1, TRUE))
                   ELSE Commit(p, WorkOf(EntryOf("transition.applied", c, a, t.to,
                                                 v.revision + 1, "preflight"),
                                         AppliedSnapshot(v, t), v.revision, FALSE))
        /\ UNCHANGED <<durable, used, cur, view, txn, result>>

(* An unknown aggregate, an undeclared event or an invalid payload is a    *)
(* validation denial.                                                      *)
DecideEventAppend(p) ==
    LET c == cur[p]
        a == Cmd[c].agg
    IN  /\ pc[p] = "decide"
        /\ Cmd[c].kind = "event.append"
        /\ \/ Commit(p, JournalWork(DenialEntry("validation.denied", c, a, "preflight")))
           \/ /\ view[p] # None
              /\ Commit(p, JournalWork(EntryOf("event.appended", c, a, None, 0, "preflight")))
        /\ UNCHANGED <<durable, used, cur, view, txn, result>>

(* tx.appendJournal allocates the seq from a counter it does not lock. *)
TxAppend(p) ==
    /\ pc[p] = "append"
    /\ txn' = [txn EXCEPT ![p] = TxnOf(nextSeq, "none", 0, "unread")]
    /\ pc' = [pc EXCEPT ![p] = "cas"]
    /\ UNCHANGED <<durable, used, cur, view, work, result>>

RevisionOf(s) == IF s = None THEN -1 ELSE s.revision

(* Mutant: the snapshot is upserted whatever its revision. *)
CasOutcomeBlind(p) == IF work[p].snap = None THEN "none" ELSE "ok"

(* tx.upsertSnapshotIfRevision compares, and on a conflict commitSuccess   *)
(* appends a denial to the same transaction: the success entry appended    *)
(* before it stays.                                                        *)
CasOutcome(p) ==
    IF work[p].snap = None THEN "none"
    ELSE IF RevisionOf(snapshot[work[p].entry.agg]) = work[p].expected THEN "ok" ELSE "conflict"

TxCas(p) ==
    /\ pc[p] = "cas"
    /\ txn' = [txn EXCEPT ![p] = TxnOf(txn[p].seq, CasOutcome(p),
                                         IF CasOutcome(p) = "conflict" THEN nextSeq + 1 ELSE 0, "unread")]
    /\ pc' = [pc EXCEPT ![p] = "insert"]
    /\ UNCHANGED <<durable, used, cur, view, work, result>>

(* The result built from the entry that settles the command. *)
OwnResult(p) ==
    IF txn[p].cas = "conflict"
    THEN ResultOf("revision.conflict", txn[p].denialSeq)
    ELSE ResultOf(work[p].entry.type, txn[p].seq)

InsertRead(p) ==
    TxnOf(txn[p].seq, txn[p].cas, txn[p].denialSeq,
          IF idempotency[cur[p]] # None THEN "exists" ELSE "inserted")

(* Mutant: a call that lost the race returns its own result. *)
TxInsertIdempotencyOwn(p) ==
    /\ pc[p] = "insert"
    /\ txn' = [txn EXCEPT ![p] = InsertRead(p)]
    /\ result' = [result EXCEPT ![p] = OwnResult(p)]
    /\ pc' = [pc EXCEPT ![p] = "flush"]
    /\ UNCHANGED <<durable, used, cur, view, work>>

(* tx.insertIdempotency: an existing row is left alone and its result is   *)
(* returned, but the transaction goes on.                                  *)
TxInsertIdempotency(p) ==
    /\ pc[p] = "insert"
    /\ txn' = [txn EXCEPT ![p] = InsertRead(p)]
    /\ result' = [result EXCEPT ![p] =
           IF idempotency[cur[p]] # None THEN idempotency[cur[p]] ELSE OwnResult(p)]
    /\ pc' = [pc EXCEPT ![p] = "flush"]
    /\ UNCHANGED <<durable, used, cur, view, work>>

(* The entries the transaction has drafted, by seq. *)
DraftSeqs(p) == IF txn[p].cas = "conflict" THEN {txn[p].seq, txn[p].denialSeq} ELSE {txn[p].seq}

DraftEntry(p, s) ==
    IF s = txn[p].seq THEN work[p].entry
    ELSE DenialEntry("revision.conflict", cur[p], work[p].entry.agg, "commit")

(* Mutant: no primary key on seq. *)
SeqTakenNever(p) == FALSE

SeqTaken(p) == DraftSeqs(p) \cap DOMAIN journal # {}

(* Mutant: the snapshot row is written on a conflict too. *)
FlushedSnapshotAlways(p) ==
    IF txn[p].cas # "none"
    THEN [snapshot EXCEPT ![work[p].entry.agg] = work[p].snap] ELSE snapshot

FlushedSnapshot(p) ==
    IF txn[p].cas = "ok"
    THEN [snapshot EXCEPT ![work[p].entry.agg] = work[p].snap] ELSE snapshot

(* The database transaction: everything is written, or the journal's       *)
(* primary key rejects a seq and nothing is.                               *)
FlushOk(p) ==
    /\ pc[p] = "flush"
    /\ ~SeqTaken(p)
    /\ journal' = [s \in DOMAIN journal \cup DraftSeqs(p) |->
                      IF s \in DraftSeqs(p) THEN DraftEntry(p, s) ELSE journal[s]]
    /\ nextSeq' = IF txn[p].cas = "conflict" THEN txn[p].denialSeq + 1 ELSE txn[p].seq + 1
    /\ snapshot' = FlushedSnapshot(p)
    /\ idempotency' = IF txn[p].ins = "inserted" /\ idempotency[cur[p]] = None
                      THEN [idempotency EXCEPT ![cur[p]] = result[p]]
                      ELSE idempotency
    /\ checkpoints' = IF work[p].checkpoint
                      THEN checkpoints \cup {[agg |-> work[p].entry.agg, seq |-> txn[p].seq]}
                      ELSE checkpoints
    /\ outbox' = outbox \cup DraftSeqs(p)
    /\ pc' = [pc EXCEPT ![p] = "done"]
    /\ UNCHANGED <<used, cur, view, work, txn, result>>

FlushThrows(p) ==
    /\ pc[p] = "flush"
    /\ SeqTaken(p)
    /\ pc' = [pc EXCEPT ![p] = "thrown"]
    /\ result' = [result EXCEPT ![p] = None]
    /\ UNCHANGED <<durable, used, cur, view, work, txn>>

(* The call is over: its locals are gone. *)
Return(p) ==
    /\ pc[p] \in {"done", "thrown"}
    /\ pc' = [pc EXCEPT ![p] = "idle"]
    /\ cur' = [cur EXCEPT ![p] = None]
    /\ view' = [view EXCEPT ![p] = None]
    /\ work' = [work EXCEPT ![p] = None]
    /\ txn' = [txn EXCEPT ![p] = NoTxn]
    /\ result' = [result EXCEPT ![p] = None]
    /\ UNCHANGED <<durable, used>>

(* The daemon dies and restarts: only the database survives. *)
Crash ==
    /\ InFlight # {}
    /\ pc' = [p \in Procs |-> "idle"]
    /\ cur' = [p \in Procs |-> None]
    /\ view' = [p \in Procs |-> None]
    /\ work' = [p \in Procs |-> None]
    /\ txn' = [p \in Procs |-> NoTxn]
    /\ result' = [p \in Procs |-> None]
    /\ UNCHANGED <<durable, used>>

Step(p) ==
    \/ CheckIdempotency(p) \/ EvaluatePolicy(p) \/ HandleCreate(p)
    \/ LoadSnapshot(p) \/ DecideTransition(p) \/ DecideEventAppend(p)
    \/ TxAppend(p) \/ TxCas(p) \/ TxInsertIdempotency(p)
    \/ FlushOk(p) \/ FlushThrows(p) \/ Return(p)

Next ==
    \/ \E p \in Procs : Step(p) \/ \E c \in CmdIds : Submit(p, c)
    \/ Crash

Spec == Init /\ [][Next]_vars
----
(* The state of each variable, with the locals a control point relies on. *)
TypeOK ==
    /\ nextSeq \in Nat \ {0}
    /\ DOMAIN journal \subseteq Nat
    /\ \A s \in DOMAIN journal : journal[s] \in Entry
    /\ snapshot \in [Aggs -> Snap \cup {None}]
    /\ idempotency \in [CmdIds -> Result \cup {None}]
    /\ checkpoints \subseteq [agg : Aggs \cup {None}, seq : Nat]
    /\ outbox \subseteq Nat
    /\ used \subseteq Aggs
    /\ pc \in [Procs -> {"idle", "idempotency", "policy", "handle", "decide", "append",
                         "cas", "insert", "flush", "done", "thrown"}]
    /\ cur \in [Procs -> CmdIds \cup {None}]
    /\ view \in [Procs -> Snap \cup {None}]
    /\ work \in [Procs -> Work \cup {None}]
    /\ txn \in [Procs -> Txn]
    /\ result \in [Procs -> Result \cup {None}]

(* Sequence numbers are handed out without a gap and without a repeat,     *)
(* although two open transactions may have read the same counter           *)
(* (SqliteTransaction.pendingNextSeq, journal_events.seq PRIMARY KEY).     *)
JournalDense == DOMAIN journal = 1 .. (nextSeq - 1)

(* A committed entry and a stored command result never change: a flush     *)
(* only adds (flush; "never mutate/delete rows").                          *)
CommittedIsForever ==
    [][/\ \A s \in DOMAIN journal : s \in DOMAIN journal' /\ journal'[s] = journal[s]
       /\ \A c \in CmdIds : idempotency[c] # None => idempotency'[c] = idempotency[c]]_vars

(* Whatever the races between calls that carry the same command_id, each   *)
(* one that returns returns the one stored result (execute, the commit     *)
(* functions' insertIdempotency).                                          *)
OneResultPerCommand ==
    \A p \in Procs : pc[p] = "done" =>
        /\ idempotency[cur[p]] # None
        /\ result[p].seq = idempotency[cur[p]].seq

Mutating == {"aggregate.created", "transition.applied"}

(* The entry at s changed its aggregate: it is not followed by the denial  *)
(* that commitSuccess appends when the compare-and-set fails.              *)
Won(s) ==
    /\ journal[s].type \in Mutating
    /\ ~(s + 1 \in DOMAIN journal /\ journal[s + 1].where = "commit")

WonSeqs(a) == {s \in DOMAIN journal : journal[s].agg = a /\ Won(s)}

(* The snapshot is the payload of the last journal entry whose             *)
(* compare-and-set succeeded: the journal determines the snapshot once     *)
(* the entries of lost races are told apart (commitSuccess).               *)
SnapshotIsLastWon ==
    \A a \in Aggs :
        IF snapshot[a] = None THEN WonSeqs(a) = {}
        ELSE \E s \in WonSeqs(a) :
                /\ \A r \in WonSeqs(a) : r <= s
                /\ snapshot[a] = [state |-> journal[s].to, revision |-> journal[s].revision]

(* foldJournalToSnapshot: the state-mutating entries of a, in seq order. *)
FoldJournal(a) ==
    LET f[n \in 0 .. (nextSeq - 1)] ==
            IF n = 0 THEN None
            ELSE IF journal[n].agg # a \/ journal[n].type \notin Mutating THEN f[n - 1]
            ELSE IF journal[n].type = "transition.applied" /\ f[n - 1] = None THEN None
            ELSE [state |-> journal[n].to, revision |-> journal[n].revision]
    IN  f[nextSeq - 1]

(* verifyFold, "Snapshot = fold(journal)" (K9): replaying the journal      *)
(* gives the stored snapshot.                                              *)
SnapshotIsFold == \A a \in Aggs : snapshot[a] = FoldJournal(a)

(* K12, "Idempotent commands": a command_id has one effect, that is, one   *)
(* success entry that took hold.                                           *)
OneEffectPerCommand ==
    \A r, s \in DOMAIN journal :
        /\ journal[r].cmd = journal[s].cmd
        /\ \A q \in {r, s} : journal[q].type \in SuccessTypes /\ (journal[q].type \in Mutating => Won(q))
        => r = s

(* Seen from outside, an aggregate is created once and moves only along    *)
(* the rule's transitions, one revision at a time, however the calls and   *)
(* their unlocked transactions interleave (upsertSnapshotIfRevision).      *)
Aggregate == INSTANCE AggregateSpec WITH value <- snapshot
AggregateRefinement == Aggregate!Spec
====
