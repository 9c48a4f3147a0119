---- MODULE KernelCommitProofs ----
(***************************************************************************)
(* Proofs about the kernel's commit path.                                  *)
(*                                                                         *)
(* The argument: a transaction reads without a lock, but it also takes     *)
(* the next seq, and the journal's primary key lets it flush only if that  *)
(* seq is still free.  Every other flush takes that seq.  So the reads of  *)
(* a transaction that does flush are still true when it does (ReadsFresh), *)
(* which makes the compare-and-set and the idempotency check atomic with   *)
(* the write although the code never locks.                                *)
(***************************************************************************)
EXTENDS KernelCommit, TLAPS

InTx == {"append", "cas", "insert", "flush"}

(* What a call holds at each control point. *)
LocalsOK ==
    \A p \in Procs :
        /\ pc[p] # "idle" => cur[p] \in CmdIds
        /\ pc[p] \in InTx => work[p] \in Work
        /\ pc[p] = "flush" => result[p] \in Result

TypeInv == TypeOK /\ LocalsOK

(* The write of a call is well formed: it has a snapshot exactly when its  *)
(* entry mutates the aggregate, and the entry's payload is that snapshot.  *)
WorkOK(w) ==
    /\ w.entry.where = "preflight"
    /\ w.snap = None <=> w.entry.type \notin Mutating
    /\ w.checkpoint => w.entry.agg \in Aggs
    /\ w.snap # None =>
          /\ w.entry.agg \in Aggs
          /\ w.snap = [state |-> w.entry.to, revision |-> w.entry.revision]

(* A creation works on an id of its own. *)
Creates(p) == pc[p] \in InTx /\ work[p].snap # None /\ work[p].expected = -1

CreationOK ==
    /\ \A a \in Aggs : snapshot[a] # None => a \in used
    /\ \A p \in Procs : Creates(p) =>
          /\ work[p].entry.agg \in used
          /\ snapshot[work[p].entry.agg] = None
          /\ work[p].snap = [state |-> InitialState, revision |-> 0]
    /\ \A p, q \in Procs : Creates(p) /\ Creates(q) /\ p # q =>
          work[p].entry.agg # work[q].entry.agg

(* A snapshot that still has the revision a call has loaded is the one it  *)
(* has loaded.                                                             *)
StillAt(a, v) ==
    /\ snapshot[a] # None
    /\ v.revision <= snapshot[a].revision
    /\ v.revision = snapshot[a].revision => v = snapshot[a]

ViewOK == \A p \in Procs : pc[p] = "decide" /\ view[p] # None => StillAt(Cmd[cur[p]].agg, view[p])

Moves(p) == pc[p] \in InTx /\ work[p].snap # None /\ work[p].expected # -1

LegalMove(s, w) ==
    \E t \in Transitions : ~t.checkpoint /\ t.from = s.state /\ w = AppliedSnapshot(s, t)

MoveOK ==
    \A p \in Procs : Moves(p) =>
        LET a == work[p].entry.agg IN
        /\ snapshot[a] # None
        /\ work[p].expected <= snapshot[a].revision
        /\ work[p].expected = snapshot[a].revision => LegalMove(snapshot[a], work[p].snap)

(* The reads of an open transaction are current as long as its seq is free. *)
SeqOK == \A p \in Procs : pc[p] \in {"cas", "insert", "flush"} => 1 <= txn[p].seq /\ txn[p].seq <= nextSeq

ReadsFresh ==
    \A p \in Procs : txn[p].seq = nextSeq =>
        /\ pc[p] \in {"insert", "flush"} =>
              /\ txn[p].cas = CasOutcome(p)
              /\ txn[p].cas = "conflict" => txn[p].denialSeq = nextSeq + 1
        /\ pc[p] = "flush" =>
              IF idempotency[cur[p]] = None
              THEN txn[p].ins = "inserted" /\ result[p] = OwnResult(p)
              ELSE txn[p].ins = "exists" /\ result[p] = idempotency[cur[p]]

IInv ==
    /\ TypeInv
    /\ JournalDense
    /\ \A p \in Procs : pc[p] \in InTx => WorkOK(work[p])
    /\ CreationOK
    /\ ViewOK
    /\ MoveOK
    /\ SeqOK
    /\ ReadsFresh
    /\ SnapshotIsLastWon
    /\ OneResultPerCommand

----
(* Type correctness. *)

(* The constructors build values of their types. *)
LEMMA EntryOfType ==
    \A type \in SuccessTypes \cup DenialTypes, c \in CmdIds, a \in Aggs \cup {None},
       to \in States \cup {None}, rev \in Nat, where \in {"preflight", "commit"} :
        EntryOf(type, c, a, to, rev, where) \in Entry
  BY DEF EntryOf, Entry

LEMMA DenialEntryType ==
    \A type \in DenialTypes, c \in CmdIds, a \in Aggs \cup {None}, where \in {"preflight", "commit"} :
        DenialEntry(type, c, a, where) \in Entry
  BY EntryOfType DEF DenialEntry

LEMMA WorkOfType ==
    \A e \in Entry, snap \in Snap \cup {None}, x \in Nat \cup {-1}, cp \in BOOLEAN :
        WorkOf(e, snap, x, cp) \in Work
  BY DEF WorkOf, Work

LEMMA JournalWorkType == \A e \in Entry : JournalWork(e) \in Work
  BY WorkOfType DEF JournalWork

LEMMA TxnOfType ==
    \A s, d \in Nat, cas \in {"none", "ok", "conflict"}, ins \in {"unread", "inserted", "exists"} :
        TxnOf(s, cas, d, ins) \in Txn
  BY DEF TxnOf, Txn

LEMMA TxnFields ==
    \A s, cas, d, ins :
        /\ TxnOf(s, cas, d, ins).seq = s
        /\ TxnOf(s, cas, d, ins).cas = cas
        /\ TxnOf(s, cas, d, ins).denialSeq = d
        /\ TxnOf(s, cas, d, ins).ins = ins
  BY DEF TxnOf

(* Handing a write over to the commit function. *)
LEMMA CommitTypeInv ==
    ASSUME TypeInv, NEW p \in Procs, NEW w \in Work, Commit(p, w), pc[p] # "idle",
           used' \subseteq Aggs, UNCHANGED <<durable, cur, view, txn, result>>
    PROVE  TypeInv'
  BY DEF TypeInv, TypeOK, LocalsOK, Commit, durable, InTx

LEMMA InitTypeInv == Init => TypeInv
  BY NoneAssumption DEF Init, TypeInv, TypeOK, LocalsOK, NoTxn, TxnOf, Txn, InTx

LEMMA NextTypeInv == TypeInv /\ [Next]_vars => TypeInv'
<1> SUFFICES ASSUME TypeInv, [Next]_vars PROVE TypeInv'
  OBVIOUS
<1>1. CASE UNCHANGED vars
  BY <1>1 DEF TypeInv, TypeOK, LocalsOK, vars, durable, local
<1>2. CASE Crash
  BY <1>2, TxnOfType DEF TypeInv, TypeOK, LocalsOK, InTx, Crash, durable, NoTxn
<1>3. ASSUME NEW p \in Procs, NEW c \in CmdIds, Submit(p, c) PROVE TypeInv'
  BY <1>3 DEF TypeInv, TypeOK, LocalsOK, InTx, Submit, durable
<1>4. ASSUME NEW p \in Procs, CheckIdempotency(p) PROVE TypeInv'
  <2>1. cur[p] \in CmdIds /\ idempotency[cur[p]] \in Result \cup {None}
    BY <1>4 DEF TypeInv, TypeOK, LocalsOK, CheckIdempotency
  <2>2. idempotency[cur[p]] # None => ResultOf("idempotency_replay", idempotency[cur[p]].seq) \in Result
    BY <2>1 DEF Result, ResultOf
  <2> QED
    BY <1>4, <2>1, <2>2 DEF TypeInv, TypeOK, LocalsOK, InTx, CheckIdempotency, durable
<1>5. ASSUME NEW p \in Procs, EvaluatePolicy(p) PROVE TypeInv'
  <2>1. CASE pc' = [pc EXCEPT ![p] = "handle"] /\ UNCHANGED work
    BY <1>5, <2>1 DEF TypeInv, TypeOK, LocalsOK, InTx, EvaluatePolicy, durable
  <2> DEFINE w == JournalWork(DenialEntry("policy.denied", cur[p], None, "preflight"))
  <2>2. CASE Commit(p, w)
    <3>1. cur[p] \in CmdIds /\ pc[p] # "idle"
      BY <1>5 DEF TypeInv, LocalsOK, EvaluatePolicy
    <3>2. w \in Work
      BY <3>1, JournalWorkType, DenialEntryType DEF DenialTypes
    <3>3. used' \subseteq Aggs /\ UNCHANGED <<durable, cur, view, txn, result>>
      BY <1>5 DEF EvaluatePolicy, TypeInv, TypeOK
    <3> QED
      BY <2>2, <3>1, <3>2, <3>3, CommitTypeInv
  <2> QED
    BY <1>5, <2>1, <2>2 DEF EvaluatePolicy
<1>6. ASSUME NEW p \in Procs, HandleCreate(p) PROVE TypeInv'
  <2>1. cur[p] \in CmdIds /\ pc[p] # "idle" /\ UNCHANGED <<durable, cur, view, txn, result>>
    BY <1>6 DEF TypeInv, LocalsOK, HandleCreate
  <2>2. used' \subseteq Aggs
    BY <1>6 DEF HandleCreate, TypeInv, TypeOK
  <2>3. ASSUME NEW a \in Aggs
        PROVE  WorkOf(EntryOf("aggregate.created", cur[p], a, InitialState, 0, "preflight"),
                      [state |-> InitialState, revision |-> 0], -1, FALSE) \in Work
    <3>1. EntryOf("aggregate.created", cur[p], a, InitialState, 0, "preflight") \in Entry
      BY <2>1, EntryOfType, RuleAssumption DEF SuccessTypes
    <3>2. [state |-> InitialState, revision |-> 0] \in Snap
      BY RuleAssumption DEF Snap
    <3> QED
      BY <3>1, <3>2, WorkOfType
  <2>4. JournalWork(DenialEntry("validation.denied", cur[p], None, "preflight")) \in Work
    BY <2>1, JournalWorkType, DenialEntryType DEF DenialTypes
  <2>5. \E w \in Work : Commit(p, w)
    BY <1>6, <2>3, <2>4 DEF HandleCreate
  <2> QED
    BY <2>1, <2>2, <2>5, CommitTypeInv
<1>7. ASSUME NEW p \in Procs, LoadSnapshot(p) PROVE TypeInv'
  BY <1>7, CmdAssumption DEF TypeInv, TypeOK, LocalsOK, InTx, LoadSnapshot, durable
<1>8. ASSUME NEW p \in Procs, DecideTransition(p) PROVE TypeInv'
  <2> DEFINE c == cur[p]
             a == Cmd[c].agg
             v == view[p]
  <2>1. /\ c \in CmdIds /\ a \in Aggs /\ v \in Snap \cup {None} /\ pc[p] # "idle"
        /\ used' \subseteq Aggs /\ UNCHANGED <<durable, cur, view, txn, result>>
    BY <1>8, CmdAssumption DEF TypeInv, TypeOK, LocalsOK, DecideTransition
  <2>2. \A type \in DenialTypes : JournalWork(DenialEntry(type, c, a, "preflight")) \in Work
    BY <2>1, JournalWorkType, DenialEntryType
  <2>3. ASSUME NEW t \in Transitions, v # None
        PROVE  /\ WorkOf(EntryOf("checkpoint.created", c, a, t.to, 0, "preflight"), None, -1, TRUE) \in Work
               /\ WorkOf(EntryOf("transition.applied", c, a, t.to, v.revision + 1, "preflight"),
                         AppliedSnapshot(v, t), v.revision, FALSE) \in Work
    <3>1. t.to \in States /\ v.revision \in Nat
      BY <2>1, <2>3, RuleAssumption DEF Snap
    <3>2. AppliedSnapshot(v, t) \in Snap
      BY <3>1 DEF AppliedSnapshot, Snap
    <3>3. /\ EntryOf("checkpoint.created", c, a, t.to, 0, "preflight") \in Entry
          /\ EntryOf("transition.applied", c, a, t.to, v.revision + 1, "preflight") \in Entry
      BY <2>1, <3>1 DEF EntryOf, Entry, SuccessTypes
    <3> QED
      BY <3>1, <3>2, <3>3, WorkOfType
  <2>4. \E w \in Work : Commit(p, w)
    BY <1>8, <2>2, <2>3 DEF DecideTransition, DenialTypes, Candidates
  <2> QED
    BY <2>1, <2>4, CommitTypeInv
<1>9. ASSUME NEW p \in Procs, DecideEventAppend(p) PROVE TypeInv'
  <2> DEFINE c == cur[p]
             a == Cmd[c].agg
  <2>1. /\ c \in CmdIds /\ a \in Aggs /\ pc[p] # "idle"
        /\ used' \subseteq Aggs /\ UNCHANGED <<durable, cur, view, txn, result>>
    BY <1>9, CmdAssumption DEF TypeInv, TypeOK, LocalsOK, DecideEventAppend
  <2>2. JournalWork(DenialEntry("validation.denied", c, a, "preflight")) \in Work
    BY <2>1, JournalWorkType, DenialEntryType DEF DenialTypes
  <2>3. JournalWork(EntryOf("event.appended", c, a, None, 0, "preflight")) \in Work
    BY <2>1, JournalWorkType, EntryOfType DEF SuccessTypes
  <2>4. \E w \in Work : Commit(p, w)
    BY <1>9, <2>2, <2>3 DEF DecideEventAppend
  <2> QED
    BY <2>1, <2>4, CommitTypeInv
<1>10. ASSUME NEW p \in Procs, TxAppend(p) PROVE TypeInv'
  <2>1. TxnOf(nextSeq, "none", 0, "unread") \in Txn
    BY TxnOfType DEF TypeInv, TypeOK
  <2> QED
    BY <1>10, <2>1 DEF TypeInv, TypeOK, LocalsOK, InTx, TxAppend, durable
<1>11. ASSUME NEW p \in Procs, TxCas(p) PROVE TypeInv'
  <2>1. txn' \in [Procs -> Txn]
    <3>1. CasOutcome(p) \in {"none", "ok", "conflict"}
      BY DEF CasOutcome
    <3>2. txn[p].seq \in Nat /\ nextSeq + 1 \in Nat
      BY DEF TypeInv, TypeOK, Txn
    <3>3. TxnOf(txn[p].seq, CasOutcome(p), IF CasOutcome(p) = "conflict" THEN nextSeq + 1 ELSE 0,
                "unread") \in Txn
      BY <3>1, <3>2, TxnOfType
    <3> QED
      BY <1>11, <3>3 DEF TxCas, TypeInv, TypeOK
  <2> QED
    BY <1>11, <2>1 DEF TypeInv, TypeOK, LocalsOK, InTx, TxCas, durable
<1>12. ASSUME NEW p \in Procs, TxInsertIdempotency(p) PROVE TypeInv'
  <2>1. /\ cur[p] \in CmdIds /\ idempotency[cur[p]] \in Result \cup {None}
        /\ work[p] \in Work /\ txn[p] \in Txn
    BY <1>12 DEF TypeInv, TypeOK, LocalsOK, InTx, TxInsertIdempotency
  <2>2. OwnResult(p) \in Result
    <3>1. work[p].entry.type \in SuccessTypes \cup DenialTypes
      BY <2>1 DEF Work, Entry
    <3>2. txn[p].seq \in Nat /\ txn[p].denialSeq \in Nat
      BY <2>1 DEF Txn
    <3> QED
      BY <3>1, <3>2 DEF OwnResult, ResultOf, Result, DenialTypes
  <2>3. InsertRead(p) \in Txn
    BY <2>1 DEF InsertRead, TxnOf, Txn
  <2> QED
    BY <1>12, <2>1, <2>2, <2>3 DEF TypeInv, TypeOK, LocalsOK, InTx, TxInsertIdempotency, durable
<1>13. ASSUME NEW p \in Procs, FlushOk(p) PROVE TypeInv'
  <2>1. /\ cur[p] \in CmdIds /\ work[p] \in Work /\ result[p] \in Result /\ txn[p] \in Txn
        /\ nextSeq \in Nat
    BY <1>13 DEF TypeInv, TypeOK, LocalsOK, InTx, FlushOk
  <2>2. work[p].entry \in Entry /\ work[p].entry.agg \in Aggs \cup {None}
    BY <2>1 DEF Work, Entry
  <2>3. DraftSeqs(p) \subseteq Nat /\ \A s \in DraftSeqs(p) : DraftEntry(p, s) \in Entry
    BY <2>1, <2>2, DenialEntryType DEF DraftSeqs, DraftEntry, Txn, DenialTypes
  <2>4. DOMAIN journal' \subseteq Nat /\ \A s \in DOMAIN journal' : journal'[s] \in Entry
    BY <1>13, <2>3 DEF FlushOk, TypeInv, TypeOK
  <2>5. nextSeq' \in Nat \ {0}
    BY <1>13, <2>1 DEF FlushOk, Txn
  <2>6. snapshot' \in [Aggs -> Snap \cup {None}]
    <3>1. work[p].snap \in Snap \cup {None}
      BY <2>1 DEF Work
    <3> QED
      BY <1>13, <3>1 DEF FlushOk, FlushedSnapshot, TypeInv, TypeOK
  <2>7. idempotency' \in [CmdIds -> Result \cup {None}]
    BY <1>13, <2>1 DEF FlushOk, TypeInv, TypeOK
  <2>8. outbox' \subseteq Nat
    BY <1>13, <2>3 DEF FlushOk, TypeInv, TypeOK
  <2>9. checkpoints' \subseteq [agg : Aggs \cup {None}, seq : Nat]
    <3>1. [agg |-> work[p].entry.agg, seq |-> txn[p].seq] \in [agg : Aggs \cup {None}, seq : Nat]
      BY <2>1, <2>2 DEF Txn
    <3> QED
      BY <1>13, <3>1 DEF FlushOk, TypeInv, TypeOK
  <2>10. /\ pc' \in [Procs -> {"idle", "idempotency", "policy", "handle", "decide", "append",
                                "cas", "insert", "flush", "done", "thrown"}]
         /\ LocalsOK'
    BY <1>13 DEF FlushOk, TypeInv, TypeOK, LocalsOK, InTx
  <2> QED
    BY <1>13, <2>4, <2>5, <2>6, <2>7, <2>8, <2>9, <2>10 DEF FlushOk, TypeInv, TypeOK
<1>14. ASSUME NEW p \in Procs, FlushThrows(p) PROVE TypeInv'
  BY <1>14 DEF TypeInv, TypeOK, LocalsOK, InTx, FlushThrows, durable
<1>15. ASSUME NEW p \in Procs, Return(p) PROVE TypeInv'
  BY <1>15, TxnOfType DEF TypeInv, TypeOK, LocalsOK, InTx, Return, durable, NoTxn
<1> QED
  BY <1>1, <1>2, <1>3, <1>4, <1>5, <1>6, <1>7, <1>8, <1>9, <1>10, <1>11, <1>12, <1>13,
     <1>14, <1>15 DEF Next, Step

(* Every reachable state is well typed, for any number of calls, commands, *)
(* aggregates and any rule.                                                *)
THEOREM TypeCorrect == Spec => []TypeOK
<1>1. TypeInv => TypeOK
  BY DEF TypeInv
<1> QED
  BY InitTypeInv, NextTypeInv, <1>1, PTL DEF Spec

----
(* The inductive invariant. *)

LEMMA InitIInv == Init => IInv
<1> SUFFICES ASSUME Init PROVE IInv
  OBVIOUS
<1>1. TypeInv
  BY InitTypeInv
<1>2. nextSeq = 1 /\ DOMAIN journal = {} /\ \A a \in Aggs : snapshot[a] = None
  BY DEF Init
<1>3. JournalDense
  BY <1>2 DEF JournalDense
<1>4. SnapshotIsLastWon
  BY <1>2 DEF SnapshotIsLastWon, WonSeqs
<1>5. \A p \in Procs : pc[p] = "idle"
  BY DEF Init
<1>6. CreationOK
  BY <1>2, <1>5 DEF CreationOK, Creates, InTx
<1>7. /\ ViewOK /\ MoveOK /\ SeqOK /\ ReadsFresh /\ OneResultPerCommand
      /\ \A p \in Procs : pc[p] \in InTx => WorkOK(work[p])
  BY <1>5 DEF ViewOK, MoveOK, Moves, SeqOK, ReadsFresh, OneResultPerCommand, InTx
<1> QED
  BY <1>1, <1>3, <1>4, <1>6, <1>7 DEF IInv

LEMMA StoreUnchanged ==
    ASSUME JournalDense, SnapshotIsLastWon, UNCHANGED <<journal, nextSeq, snapshot>>
    PROVE  JournalDense' /\ SnapshotIsLastWon'
<1>1. \A a \in Aggs : WonSeqs(a)' = WonSeqs(a)
  BY DEF WonSeqs, Won
<1> QED
  BY <1>1 DEF JournalDense, SnapshotIsLastWon

(* Handing over a well-formed write: a creation of a new id, or a move     *)
(* that is legal as long as the revision has not changed.                  *)
LEMMA CommitIInv ==
    ASSUME IInv, TypeInv', NEW p \in Procs, NEW w \in Work, WorkOK(w), Commit(p, w),
           pc[p] \notin InTx, UNCHANGED <<durable, cur, view, txn, result>>,
           used \subseteq used',
           w.snap # None /\ w.expected = -1 =>
               /\ w.entry.agg \notin used
               /\ w.entry.agg \in used'
               /\ w.snap = [state |-> InitialState, revision |-> 0],
           w.snap # None /\ w.expected # -1 =>
               /\ snapshot[w.entry.agg] # None
               /\ w.expected <= snapshot[w.entry.agg].revision
               /\ w.expected = snapshot[w.entry.agg].revision =>
                      LegalMove(snapshot[w.entry.agg], w.snap)
    PROVE  IInv'
<1>1. /\ pc'[p] = "append" /\ work'[p] = w
      /\ \A q \in Procs : q # p => pc'[q] = pc[q] /\ work'[q] = work[q]
  BY DEF Commit, IInv, TypeInv, TypeOK
<1>2. /\ journal' = journal /\ nextSeq' = nextSeq /\ snapshot' = snapshot
      /\ idempotency' = idempotency /\ cur' = cur /\ view' = view /\ txn' = txn /\ result' = result
  BY DEF durable
<1>3. JournalDense' /\ SnapshotIsLastWon'
  BY <1>2, StoreUnchanged DEF IInv
<1>4. (\A q \in Procs : pc[q] \in InTx => WorkOK(work[q]))'
  BY <1>1 DEF IInv, WorkOK
<1>5. CreationOK'
  <2>1. Creates(p)' => /\ w.snap # None /\ w.expected = -1
    BY <1>1 DEF Creates
  <2>2. \A q \in Procs : q # p => (Creates(q)' <=> Creates(q))
    BY <1>1 DEF Creates
  <2>3. w.snap # None => w.entry.agg \in Aggs
    BY DEF WorkOK
  <2> QED
    BY <1>1, <1>2, <2>1, <2>2, <2>3 DEF IInv, CreationOK
<1>6. ViewOK'
  BY <1>1, <1>2 DEF IInv, ViewOK, StillAt
<1>7. MoveOK'
  <2>1. Moves(p)' => w.snap # None /\ w.expected # -1
    BY <1>1 DEF Moves
  <2>2. \A q \in Procs : q # p => (Moves(q)' <=> Moves(q))
    BY <1>1 DEF Moves
  <2> QED
    BY <1>1, <1>2, <2>1, <2>2 DEF IInv, MoveOK, LegalMove
<1>8. SeqOK'
  BY <1>1, <1>2 DEF IInv, SeqOK
<1>9. ReadsFresh'
  <2>1. \A q \in Procs : q # p => CasOutcome(q)' = CasOutcome(q) /\ OwnResult(q)' = OwnResult(q)
    BY <1>1, <1>2 DEF CasOutcome, OwnResult, RevisionOf, ResultOf
  <2> QED
    BY <1>1, <1>2, <2>1 DEF IInv, ReadsFresh
<1>10. OneResultPerCommand'
  BY <1>1, <1>2 DEF IInv, OneResultPerCommand
<1> QED
  BY <1>3, <1>4, <1>5, <1>6, <1>7, <1>8, <1>9, <1>10 DEF IInv

(* A transaction that flushes has taken the next seq, and what it has read *)
(* is true of the state it flushes into.                                   *)
LEMMA FlushIsFresh ==
    ASSUME IInv, NEW p \in Procs, FlushOk(p)
    PROVE  /\ txn[p].seq = nextSeq
           /\ txn[p].cas = CasOutcome(p)
           /\ txn[p].cas = "conflict" => txn[p].denialSeq = nextSeq + 1
           /\ IF idempotency[cur[p]] = None
              THEN txn[p].ins = "inserted" /\ result[p] = OwnResult(p)
              ELSE txn[p].ins = "exists" /\ result[p] = idempotency[cur[p]]
<1>1. pc[p] = "flush" /\ txn[p].seq \notin DOMAIN journal
  BY DEF FlushOk, SeqTaken, DraftSeqs
<1>2. DOMAIN journal = 1 .. (nextSeq - 1) /\ 1 <= txn[p].seq /\ txn[p].seq <= nextSeq
  BY <1>1 DEF IInv, JournalDense, SeqOK
<1>3. txn[p].seq \in Nat /\ nextSeq \in Nat
  <2>1. txn[p] \in Txn
    BY DEF IInv, TypeInv, TypeOK
  <2> QED
    BY <2>1 DEF IInv, TypeInv, TypeOK, Txn
<1>4. txn[p].seq = nextSeq
  BY <1>1, <1>2, <1>3
<1> QED
  BY <1>1, <1>4 DEF IInv, ReadsFresh

(* What a flush does to the journal. *)
LEMMA FlushJournal ==
    ASSUME IInv, NEW p \in Procs, FlushOk(p)
    PROVE  /\ nextSeq \in Nat /\ nextSeq' \in Nat /\ nextSeq < nextSeq'
           /\ DOMAIN journal' = 1 .. (nextSeq' - 1)
           /\ \A s \in 1 .. (nextSeq - 1) : journal'[s] = journal[s]
           /\ journal'[nextSeq] = work[p].entry
           /\ txn[p].cas # "conflict" => nextSeq' = nextSeq + 1
           /\ txn[p].cas = "conflict" =>
                  /\ nextSeq' = nextSeq + 2
                  /\ journal'[nextSeq + 1].where = "commit"
                  /\ journal'[nextSeq + 1].type \notin Mutating
<1>1. nextSeq \in Nat /\ nextSeq # 0 /\ DOMAIN journal = 1 .. (nextSeq - 1)
  BY DEF IInv, TypeInv, TypeOK, JournalDense
<1>2. txn[p].seq = nextSeq /\ (txn[p].cas = "conflict" => txn[p].denialSeq = nextSeq + 1)
  BY FlushIsFresh
<1>3. /\ journal' = [s \in DOMAIN journal \cup DraftSeqs(p) |->
                        IF s \in DraftSeqs(p) THEN DraftEntry(p, s) ELSE journal[s]]
      /\ nextSeq' = IF txn[p].cas = "conflict" THEN txn[p].denialSeq + 1 ELSE txn[p].seq + 1
  BY DEF FlushOk
<1>4. CASE txn[p].cas # "conflict"
  <2>1. DraftSeqs(p) = {nextSeq} /\ nextSeq' = nextSeq + 1
    BY <1>2, <1>3, <1>4 DEF DraftSeqs
  <2>2. DOMAIN journal \cup DraftSeqs(p) = 1 .. (nextSeq' - 1)
    BY <1>1, <2>1
  <2>3. DraftEntry(p, nextSeq) = work[p].entry
    BY <1>2 DEF DraftEntry
  <2> QED
    BY <1>1, <1>3, <1>4, <2>1, <2>2, <2>3
<1>5. CASE txn[p].cas = "conflict"
  <2>1. DraftSeqs(p) = {nextSeq, nextSeq + 1} /\ nextSeq' = nextSeq + 2
    BY <1>1, <1>2, <1>3, <1>5 DEF DraftSeqs
  <2>2. DOMAIN journal \cup DraftSeqs(p) = 1 .. (nextSeq' - 1)
    BY <1>1, <2>1
  <2>3. DraftEntry(p, nextSeq) = work[p].entry
    BY <1>2 DEF DraftEntry
  <2>4. DraftEntry(p, nextSeq + 1) = DenialEntry("revision.conflict", cur[p], work[p].entry.agg, "commit")
    BY <1>1, <1>2 DEF DraftEntry
  <2>5. /\ DenialEntry("revision.conflict", cur[p], work[p].entry.agg, "commit").where = "commit"
        /\ DenialEntry("revision.conflict", cur[p], work[p].entry.agg, "commit").type \notin Mutating
    BY DEF DenialEntry, EntryOf, Mutating
  <2> QED
    BY <1>1, <1>3, <1>5, <2>1, <2>2, <2>3, <2>4, <2>5
<1> QED
  BY <1>4, <1>5

(* What a flush does to the snapshots: nothing, a creation, or a legal     *)
(* move of the aggregate's present state.                                  *)
LEMMA FlushSnapshot ==
    ASSUME IInv, NEW p \in Procs, FlushOk(p)
    PROVE  LET b == work[p].entry.agg IN
           /\ txn[p].cas # "ok" => snapshot' = snapshot
           /\ txn[p].cas = "ok" =>
                 /\ b \in Aggs /\ work[p].snap \in Snap
                 /\ snapshot' = [snapshot EXCEPT ![b] = work[p].snap]
                 /\ \/ Creates(p) /\ snapshot[b] = None
                    \/ /\ ~Creates(p) /\ snapshot[b] # None
                       /\ LegalMove(snapshot[b], work[p].snap)
                       /\ work[p].snap.revision = snapshot[b].revision + 1
<1> DEFINE b == work[p].entry.agg
<1>1. pc[p] = "flush" /\ work[p] \in Work /\ WorkOK(work[p])
  BY DEF FlushOk, IInv, TypeInv, LocalsOK, InTx
<1>2. snapshot' = FlushedSnapshot(p)
  BY DEF FlushOk
<1>3. CASE txn[p].cas # "ok"
  BY <1>2, <1>3 DEF FlushedSnapshot
<1>4. CASE txn[p].cas = "ok"
  <2>1. work[p].snap # None /\ RevisionOf(snapshot[b]) = work[p].expected
    BY <1>4, FlushIsFresh DEF CasOutcome
  <2>2. b \in Aggs /\ work[p].snap \in Snap /\ snapshot[b] \in Snap \cup {None}
    <3>1. work[p].snap \in Snap \cup {None}
      BY <1>1 DEF Work
    <3> QED
      BY <1>1, <2>1, <3>1 DEF WorkOK, IInv, TypeInv, TypeOK
  <2>3. CASE work[p].expected = -1
    <3>1. Creates(p)
      BY <1>1, <2>1, <2>3 DEF Creates, InTx
    <3> QED
      BY <1>2, <1>4, <2>2, <3>1 DEF FlushedSnapshot, IInv, CreationOK
  <2>4. CASE work[p].expected # -1
    <3>1. Moves(p) /\ ~Creates(p)
      BY <1>1, <2>1, <2>4 DEF Moves, Creates, InTx
    <3>2. /\ snapshot[b] # None
          /\ work[p].expected = snapshot[b].revision => LegalMove(snapshot[b], work[p].snap)
      BY <3>1 DEF IInv, MoveOK
    <3>3. LegalMove(snapshot[b], work[p].snap)
      BY <2>1, <3>2 DEF RevisionOf
    <3>4. work[p].snap.revision = snapshot[b].revision + 1
      BY <3>3 DEF LegalMove, AppliedSnapshot
    <3> QED
      BY <1>2, <1>4, <2>2, <3>1, <3>2, <3>3, <3>4 DEF FlushedSnapshot
  <2> QED
    BY <2>3, <2>4
<1> QED
  BY <1>3, <1>4

(* An entry that won stays won, and the new entry wins exactly if the      *)
(* compare-and-set succeeded.                                              *)
LEMMA FlushWon ==
    ASSUME IInv, NEW p \in Procs, FlushOk(p), NEW a \in Aggs
    PROVE  WonSeqs(a)' = IF txn[p].cas = "ok" /\ a = work[p].entry.agg
                         THEN WonSeqs(a) \cup {nextSeq} ELSE WonSeqs(a)
<1>0. PICK n \in Nat \ {0} : n = nextSeq
  BY DEF IInv, TypeInv, TypeOK
<1>1. /\ nextSeq' \in Nat
      /\ DOMAIN journal = 1 .. (n - 1) /\ DOMAIN journal' = 1 .. (nextSeq' - 1)
      /\ \A s \in 1 .. (n - 1) : journal'[s] = journal[s]
      /\ journal'[n] = work[p].entry
      /\ txn[p].cas # "conflict" => nextSeq' = n + 1
      /\ txn[p].cas = "conflict" =>
             /\ nextSeq' = n + 2
             /\ journal'[n + 1].where = "commit"
             /\ journal'[n + 1].type \notin Mutating
  BY <1>0, FlushJournal DEF IInv, JournalDense
<1>a. nextSeq' = IF txn[p].cas = "conflict" THEN n + 2 ELSE n + 1
  BY <1>1
<1>b. DOMAIN journal = 1 .. (n - 1) /\ DOMAIN journal' = 1 .. (nextSeq' - 1)
  BY <1>1
<1>2. pc[p] = "flush" /\ WorkOK(work[p])
  BY DEF FlushOk, IInv, InTx
<1>3. \A s \in 1 .. (n - 1) : Won(s)' <=> Won(s)
  <2>1. work[p].entry.where # "commit"
    BY <1>2 DEF WorkOK
  <2> SUFFICES ASSUME NEW s \in 1 .. (n - 1) PROVE Won(s)' <=> Won(s)
    OBVIOUS
  <2>2. CASE s + 1 = n
    BY <1>1, <2>1, <2>2 DEF Won
  <2>3. CASE s + 1 # n
    <3>1. s + 1 \in 1 .. (n - 1)
      BY <1>0, <2>3
    <3>2. s + 1 \in 1 .. (nextSeq' - 1)
      BY <1>0, <1>a, <3>1
    <3>3. s + 1 \in DOMAIN journal /\ s + 1 \in DOMAIN journal'
      BY <1>b, <3>1, <3>2
    <3> QED
      BY <1>1, <3>1, <3>3 DEF Won
  <2> QED
    BY <2>2, <2>3
<1>4. Won(n)' <=> txn[p].cas = "ok"
  <2>1. txn[p].cas = CasOutcome(p)
    BY FlushIsFresh
  <2>2. CASE txn[p].cas = "ok"
    <3>1. work[p].snap # None
      BY <2>1, <2>2 DEF CasOutcome
    <3>2. work[p].entry.type \in Mutating
      BY <1>2, <3>1 DEF WorkOK
    <3> QED
      BY <1>1, <2>2, <3>2 DEF Won
  <2>3. CASE txn[p].cas = "none"
    <3>1. work[p].snap = None
      BY <2>1, <2>3 DEF CasOutcome
    <3>2. work[p].entry.type \notin Mutating
      BY <1>2, <3>1 DEF WorkOK
    <3> QED
      BY <1>1, <2>3, <3>2 DEF Won
  <2>4. CASE txn[p].cas = "conflict"
    BY <1>1, <2>4 DEF Won
  <2> QED
    BY <2>1, <2>2, <2>3, <2>4 DEF CasOutcome
<1>5. txn[p].cas = "conflict" => ~Won(n + 1)'
  BY <1>1 DEF Won
<1>6. \A s : s \in DOMAIN journal' <=> s \in DOMAIN journal \/ s = n \/ (txn[p].cas = "conflict" /\ s = n + 1)
  <2>1. CASE txn[p].cas = "conflict"
    BY <1>0, <1>a, <1>b, <2>1
  <2>2. CASE txn[p].cas # "conflict"
    BY <1>0, <1>a, <1>b, <2>2
  <2> QED
    BY <2>1, <2>2
<1>7. \A s : s \in WonSeqs(a)' <=>
             s \in WonSeqs(a) \/ (s = n /\ txn[p].cas = "ok" /\ a = work[p].entry.agg)
  BY <1>1, <1>3, <1>4, <1>5, <1>6 DEF WonSeqs
<1> QED
  BY <1>0, <1>7

(* A flush preserves the invariant. *)
LEMMA FlushIInv ==
    ASSUME IInv, TypeInv', NEW p \in Procs, FlushOk(p)
    PROVE  IInv'
<1> DEFINE b == work[p].entry.agg
<1>1. /\ pc[p] = "flush" /\ pc'[p] = "done"
      /\ \A q \in Procs : q # p => pc'[q] = pc[q]
      /\ used' = used /\ cur' = cur /\ view' = view /\ work' = work /\ txn' = txn /\ result' = result
  BY DEF FlushOk, IInv, TypeInv, TypeOK
<1>2. /\ nextSeq \in Nat /\ nextSeq' \in Nat /\ nextSeq < nextSeq'
      /\ DOMAIN journal' = 1 .. (nextSeq' - 1)
      /\ journal'[nextSeq] = work[p].entry
  BY FlushJournal
<1>3. JournalDense'
  BY <1>2 DEF JournalDense
<1>4. (\A q \in Procs : pc[q] \in InTx => WorkOK(work[q]))'
  BY <1>1 DEF IInv, WorkOK, InTx
<1>5. /\ txn[p].cas # "ok" => snapshot' = snapshot
      /\ txn[p].cas = "ok" =>
           /\ b \in Aggs /\ work[p].snap \in Snap
           /\ snapshot' = [snapshot EXCEPT ![b] = work[p].snap]
           /\ \/ Creates(p) /\ snapshot[b] = None
              \/ /\ ~Creates(p) /\ snapshot[b] # None
                 /\ LegalMove(snapshot[b], work[p].snap)
                 /\ work[p].snap.revision = snapshot[b].revision + 1
  BY FlushSnapshot
<1>6. snapshot \in [Aggs -> Snap \cup {None}]
  BY DEF IInv, TypeInv, TypeOK
<1>7. \A q \in Procs : q # p => (Creates(q)' <=> Creates(q)) /\ (Moves(q)' <=> Moves(q))
  BY <1>1 DEF Creates, Moves
<1>8. ~Creates(p)' /\ ~Moves(p)'
  BY <1>1 DEF Creates, Moves, InTx
<1>9. CreationOK'
  <2>1. \A a \in Aggs : snapshot'[a] # None => a \in used
    <3>1. txn[p].cas = "ok" => b \in used
      BY <1>5 DEF IInv, CreationOK
    <3> QED
      BY <1>5, <1>6, <3>1 DEF IInv, CreationOK
  <2>2. ASSUME NEW q \in Procs, Creates(q)'
        PROVE  /\ work[q].entry.agg \in used
               /\ snapshot'[work[q].entry.agg] = None
               /\ work[q].snap = [state |-> InitialState, revision |-> 0]
    <3>1. q # p /\ Creates(q)
      BY <1>7, <1>8, <2>2
    <3>2. /\ work[q].entry.agg \in used /\ snapshot[work[q].entry.agg] = None
          /\ work[q].snap = [state |-> InitialState, revision |-> 0]
      BY <3>1 DEF IInv, CreationOK
    <3>3. txn[p].cas = "ok" => b # work[q].entry.agg
      BY <1>5, <3>1, <3>2 DEF IInv, CreationOK
    <3>4. work[q].entry.agg \in Aggs
      BY <3>2 DEF IInv, TypeInv, TypeOK
    <3> QED
      BY <1>5, <1>6, <3>2, <3>3, <3>4
  <2>3. \A q, r \in Procs : Creates(q)' /\ Creates(r)' /\ q # r => work[q].entry.agg # work[r].entry.agg
    BY <1>7, <1>8 DEF IInv, CreationOK
  <2> QED
    BY <1>1, <2>1, <2>2, <2>3 DEF CreationOK
<1>10. ASSUME NEW a \in Aggs, snapshot[a] # None
       PROVE  /\ snapshot[a] \in Snap /\ snapshot'[a] \in Snap /\ snapshot'[a] # None
              /\ snapshot'[a] = snapshot[a] \/ snapshot'[a].revision = snapshot[a].revision + 1
  <2>1. snapshot[a] \in Snap /\ None \notin Snap
    BY <1>6, <1>10, NoneAssumption
  <2> QED
    BY <1>5, <1>6, <1>10, <2>1
<1>11. ViewOK'
  <2> SUFFICES ASSUME NEW q \in Procs, pc'[q] = "decide", view[q] # None
               PROVE  StillAt(Cmd[cur[q]].agg, view[q])'
    BY <1>1 DEF ViewOK
  <2> DEFINE a == Cmd[cur[q]].agg
  <2>1. q # p /\ pc[q] = "decide"
    BY <1>1
  <2>2. StillAt(a, view[q])
    BY <2>1 DEF IInv, ViewOK
  <2>3. a \in Aggs /\ view[q] \in Snap
    BY <2>1, CmdAssumption DEF IInv, TypeInv, TypeOK, LocalsOK
  <2>4. view[q].revision \in Nat /\ snapshot[a].revision \in Nat
    BY <1>10, <2>2, <2>3 DEF StillAt, Snap
  <2>5. cur'[q] = cur[q] /\ view'[q] = view[q]
    BY <1>1
  <2> QED
    BY <1>10, <2>2, <2>3, <2>4, <2>5 DEF StillAt
<1>12. MoveOK'
  <2> SUFFICES ASSUME NEW q \in Procs, Moves(q)'
               PROVE  /\ snapshot'[work[q].entry.agg] # None
                      /\ work[q].expected <= snapshot'[work[q].entry.agg].revision
                      /\ work[q].expected = snapshot'[work[q].entry.agg].revision =>
                             LegalMove(snapshot'[work[q].entry.agg], work[q].snap)
    BY <1>1 DEF MoveOK, LegalMove, AppliedSnapshot
  <2> DEFINE a == work[q].entry.agg
  <2>1. q # p /\ Moves(q) /\ pc[q] \in InTx
    BY <1>7, <1>8 DEF Moves
  <2>2. /\ snapshot[a] # None /\ work[q].expected <= snapshot[a].revision
        /\ work[q].expected = snapshot[a].revision => LegalMove(snapshot[a], work[q].snap)
    BY <2>1 DEF IInv, MoveOK
  <2>3. a \in Aggs /\ work[q].expected \in Nat
    <3>1. work[q] \in Work /\ WorkOK(work[q])
      BY <2>1 DEF IInv, TypeInv, LocalsOK
    <3> QED
      BY <2>1, <3>1 DEF WorkOK, Work, Moves
  <2>4. snapshot[a].revision \in Nat
    BY <1>10, <2>2, <2>3 DEF Snap
  <2> QED
    BY <1>10, <2>2, <2>3, <2>4
<1>13. SeqOK'
  <2>1. \A q \in Procs : txn[q].seq \in Nat
    <3>1. \A q \in Procs : txn[q] \in Txn
      BY DEF IInv, TypeInv, TypeOK
    <3> QED
      BY <3>1 DEF Txn
  <2> QED
    BY <1>1, <1>2, <2>1 DEF IInv, SeqOK
<1>14. ReadsFresh'
  <2> SUFFICES ASSUME NEW q \in Procs, q # p, pc[q] \in {"insert", "flush"} PROVE txn[q].seq # nextSeq'
    BY <1>1 DEF ReadsFresh
  <2>1. txn[q].seq <= nextSeq
    BY DEF IInv, SeqOK
  <2>2. txn[q].seq \in Nat
    <3>1. txn[q] \in Txn
      BY DEF IInv, TypeInv, TypeOK
    <3> QED
      BY <3>1 DEF Txn
  <2> QED
    BY <1>2, <2>1, <2>2
<1>15. SnapshotIsLastWon'
  <2> SUFFICES ASSUME NEW a \in Aggs
               PROVE  IF snapshot'[a] = None THEN WonSeqs(a)' = {}
                      ELSE \E s \in WonSeqs(a)' :
                              /\ \A r \in WonSeqs(a)' : r <= s
                              /\ snapshot'[a] = [state |-> journal'[s].to, revision |-> journal'[s].revision]
    BY DEF SnapshotIsLastWon
  <2>1. IF snapshot[a] = None THEN WonSeqs(a) = {}
        ELSE \E s \in WonSeqs(a) :
                /\ \A r \in WonSeqs(a) : r <= s
                /\ snapshot[a] = [state |-> journal[s].to, revision |-> journal[s].revision]
    BY DEF IInv, SnapshotIsLastWon
  <2>2. WonSeqs(a) \subseteq 1 .. (nextSeq - 1)
    BY DEF WonSeqs, IInv, JournalDense
  <2>3. \A s \in WonSeqs(a) : journal'[s] = journal[s]
    BY <2>2, FlushJournal
  <2>4. CASE txn[p].cas = "ok" /\ a = b
    <3>1. WonSeqs(a)' = WonSeqs(a) \cup {nextSeq}
      BY <2>4, FlushWon
    <3>2. snapshot'[a] = work[p].snap /\ snapshot'[a] # None
      BY <1>5, <1>6, <2>4, NoneAssumption
    <3>3. work[p].snap = [state |-> journal'[nextSeq].to, revision |-> journal'[nextSeq].revision]
      <4>1. WorkOK(work[p]) /\ work[p].snap # None
        BY <1>1, <3>2 DEF IInv, InTx
      <4> QED
        BY <1>2, <4>1 DEF WorkOK
    <3>4. \A r \in WonSeqs(a)' : r <= nextSeq
      BY <1>2, <2>2, <3>1
    <3> QED
      BY <3>1, <3>2, <3>3, <3>4
  <2>5. CASE ~(txn[p].cas = "ok" /\ a = b)
    <3>1. WonSeqs(a)' = WonSeqs(a)
      BY <2>5, FlushWon
    <3>2. snapshot'[a] = snapshot[a]
      BY <1>5, <1>6, <2>5
    <3> QED
      BY <2>1, <2>3, <3>1, <3>2
  <2> QED
    BY <2>4, <2>5
<1>16. OneResultPerCommand'
  <2>1. cur[p] \in CmdIds /\ result[p] \in Result
    BY <1>1 DEF IInv, TypeInv, LocalsOK
  <2>2. idempotency \in [CmdIds -> Result \cup {None}]
    BY DEF IInv, TypeInv, TypeOK
  <2>3. idempotency' = IF txn[p].ins = "inserted" /\ idempotency[cur[p]] = None
                       THEN [idempotency EXCEPT ![cur[p]] = result[p]] ELSE idempotency
    BY DEF FlushOk
  <2>4. idempotency'[cur[p]] = result[p] /\ result[p] # None
    BY <2>1, <2>2, <2>3, FlushIsFresh, NoneAssumption
  <2>5. \A c \in CmdIds : idempotency[c] # None => idempotency'[c] = idempotency[c]
    BY <2>1, <2>2, <2>3
  <2>6. \A q \in Procs : q # p /\ pc[q] = "done" => cur[q] \in CmdIds
    BY DEF IInv, TypeInv, LocalsOK
  <2> QED
    BY <1>1, <2>4, <2>5, <2>6 DEF IInv, OneResultPerCommand
<1> QED
  BY <1>3, <1>4, <1>9, <1>11, <1>12, <1>13, <1>14, <1>15, <1>16 DEF IInv

(* A step that touches neither the store nor another call, and leaves the  *)
(* stepping call outside a transaction or with reads that are fresh.       *)
LEMMA LocalIInv ==
    ASSUME IInv, TypeInv', NEW p \in Procs, UNCHANGED <<journal, nextSeq, snapshot, idempotency, used>>,
           \A q \in Procs : q # p =>
               /\ pc'[q] = pc[q] /\ cur'[q] = cur[q] /\ view'[q] = view[q] /\ work'[q] = work[q]
               /\ txn'[q] = txn[q] /\ result'[q] = result[q],
           pc'[p] \in InTx => pc[p] \in InTx /\ work'[p] = work[p],
           pc'[p] = "decide" => view'[p] = snapshot[Cmd[cur'[p]].agg],
           pc'[p] \in {"cas", "insert", "flush"} => 1 <= txn'[p].seq /\ txn'[p].seq <= nextSeq,
           txn'[p].seq = nextSeq =>
               /\ pc'[p] \in {"insert", "flush"} =>
                     /\ txn'[p].cas = CasOutcome(p)'
                     /\ txn'[p].cas = "conflict" => txn'[p].denialSeq = nextSeq + 1
               /\ pc'[p] = "flush" =>
                     IF idempotency[cur'[p]] = None
                     THEN txn'[p].ins = "inserted" /\ result'[p] = OwnResult(p)'
                     ELSE txn'[p].ins = "exists" /\ result'[p] = idempotency[cur'[p]],
           pc'[p] = "done" => /\ idempotency[cur'[p]] # None
                              /\ result'[p].seq = idempotency[cur'[p]].seq
    PROVE  IInv'
<1>1. JournalDense' /\ SnapshotIsLastWon'
  BY StoreUnchanged DEF IInv
<1>2. (\A q \in Procs : pc[q] \in InTx => WorkOK(work[q]))'
  BY DEF IInv, WorkOK
<1>3. \A q \in Procs : /\ Creates(q)' => Creates(q) /\ work'[q] = work[q]
                       /\ Moves(q)' => Moves(q) /\ work'[q] = work[q]
  BY DEF Creates, Moves
<1>4. CreationOK'
  BY <1>3 DEF IInv, CreationOK
<1>5. MoveOK'
  BY <1>3 DEF IInv, MoveOK, LegalMove
<1>6. ViewOK'
  <2> SUFFICES ASSUME NEW q \in Procs, pc'[q] = "decide", view'[q] # None
               PROVE  StillAt(Cmd[cur[q]].agg, view[q])'
    BY DEF ViewOK
  <2>1. CASE q = p
    <3>1. Cmd[cur'[q]].agg \in Aggs
      BY CmdAssumption DEF TypeInv, TypeOK, LocalsOK
    <3>2. view'[q] \in Snap
      BY DEF TypeInv, TypeOK
    <3> QED
      BY <2>1, <3>1, <3>2 DEF StillAt, Snap
  <2>2. CASE q # p
    BY <2>2 DEF IInv, ViewOK, StillAt
  <2> QED
    BY <2>1, <2>2
<1>7. SeqOK'
  BY DEF IInv, SeqOK
<1>8. ReadsFresh'
  <2>1. \A q \in Procs : q # p => CasOutcome(q)' = CasOutcome(q) /\ OwnResult(q)' = OwnResult(q)
    BY DEF CasOutcome, OwnResult, RevisionOf, ResultOf
  <2> QED
    BY <2>1 DEF IInv, ReadsFresh
<1>9. OneResultPerCommand'
  BY DEF IInv, OneResultPerCommand
<1> QED
  BY <1>1, <1>2, <1>4, <1>5, <1>6, <1>7, <1>8, <1>9 DEF IInv

LEMMA NextIInv == IInv /\ [Next]_vars => IInv'
<1> SUFFICES ASSUME IInv, [Next]_vars PROVE IInv'
  OBVIOUS
<1>t. TypeInv /\ TypeInv'
  BY NextTypeInv DEF IInv
<1>1. CASE UNCHANGED vars
  <2>1. JournalDense' /\ SnapshotIsLastWon'
    BY <1>1, StoreUnchanged DEF IInv, vars, durable
  <2>2. /\ CreationOK' /\ ViewOK' /\ MoveOK' /\ SeqOK' /\ OneResultPerCommand'
        /\ (\A p \in Procs : pc[p] \in InTx => WorkOK(work[p]))'
    BY <1>1 DEF IInv, vars, durable, local, CreationOK, Creates, ViewOK, StillAt, MoveOK, Moves,
       LegalMove, SeqOK, OneResultPerCommand, WorkOK
  <2>3. ReadsFresh'
    BY <1>1 DEF IInv, vars, durable, local, ReadsFresh, CasOutcome, OwnResult, RevisionOf, ResultOf
  <2> QED
    BY <1>t, <2>1, <2>2, <2>3 DEF IInv
<1>2. CASE Crash
  <2>1. /\ UNCHANGED <<journal, nextSeq, snapshot, used>> /\ \A p \in Procs : pc'[p] = "idle"
    BY <1>2 DEF Crash, durable
  <2>2. JournalDense' /\ SnapshotIsLastWon'
    BY <2>1, StoreUnchanged DEF IInv
  <2>3. CreationOK'
    BY <2>1 DEF IInv, CreationOK, Creates, InTx
  <2>4. /\ ViewOK' /\ MoveOK' /\ SeqOK' /\ ReadsFresh' /\ OneResultPerCommand'
        /\ (\A p \in Procs : pc[p] \in InTx => WorkOK(work[p]))'
    BY <2>1 DEF ViewOK, MoveOK, Moves, SeqOK, ReadsFresh, OneResultPerCommand, InTx
  <2> QED
    BY <1>t, <2>2, <2>3, <2>4 DEF IInv
<1>3. ASSUME NEW p \in Procs, NEW c \in CmdIds, Submit(p, c) PROVE IInv'
  <2>1. pc'[p] = "idempotency"
    BY <1>3, <1>t DEF Submit, TypeInv, TypeOK
  <2> QED
    BY <1>3, <1>t, <2>1, LocalIInv DEF Submit, durable, InTx, TypeInv, TypeOK, IInv, ReadsFresh
<1>4. ASSUME NEW p \in Procs, CheckIdempotency(p) PROVE IInv'
  <2>1. pc'[p] \in {"done", "policy"}
    BY <1>4, <1>t DEF CheckIdempotency, TypeInv, TypeOK
  <2>2. pc'[p] = "done" => /\ idempotency[cur'[p]] # None
                           /\ result'[p].seq = idempotency[cur'[p]].seq
    BY <1>4, <1>t DEF CheckIdempotency, TypeInv, TypeOK, ResultOf
  <2> QED
    BY <1>4, <1>t, <2>1, <2>2, LocalIInv DEF CheckIdempotency, durable, InTx, TypeInv, TypeOK
<1>5. ASSUME NEW p \in Procs, EvaluatePolicy(p) PROVE IInv'
  <2>1. CASE pc' = [pc EXCEPT ![p] = "handle"] /\ UNCHANGED work
    <3>1. pc'[p] = "handle"
      BY <1>t, <2>1 DEF TypeInv, TypeOK
    <3> QED
      BY <1>5, <1>t, <2>1, <3>1, LocalIInv DEF EvaluatePolicy, durable, InTx, TypeInv, TypeOK
  <2> DEFINE w == JournalWork(DenialEntry("policy.denied", cur[p], None, "preflight"))
  <2>2. CASE Commit(p, w)
    <3>1. cur[p] \in CmdIds /\ pc[p] \notin InTx
      BY <1>5, <1>t DEF TypeInv, LocalsOK, EvaluatePolicy, InTx
    <3>2. w \in Work
      BY <3>1, JournalWorkType, DenialEntryType DEF DenialTypes
    <3>3. WorkOK(w) /\ w.snap = None
      BY DEF WorkOK, JournalWork, WorkOf, DenialEntry, EntryOf, Mutating
    <3>4. UNCHANGED <<durable, used, cur, view, txn, result>>
      BY <1>5 DEF EvaluatePolicy
    <3> QED
      BY <1>t, <2>2, <3>1, <3>2, <3>3, <3>4, CommitIInv
  <2> QED
    BY <1>5, <2>1, <2>2 DEF EvaluatePolicy
<1>6. ASSUME NEW p \in Procs, HandleCreate(p) PROVE IInv'
  <2>1. /\ cur[p] \in CmdIds /\ pc[p] \notin InTx
        /\ UNCHANGED <<durable, cur, view, txn, result>>
    BY <1>6, <1>t DEF TypeInv, LocalsOK, HandleCreate, InTx
  <2>2. ASSUME NEW a \in Aggs \ used, used' = used \cup {a},
               Commit(p, WorkOf(EntryOf("aggregate.created", cur[p], a, InitialState, 0, "preflight"),
                                [state |-> InitialState, revision |-> 0], -1, FALSE))
        PROVE  IInv'
    <3> DEFINE e == EntryOf("aggregate.created", cur[p], a, InitialState, 0, "preflight")
               w == WorkOf(e, [state |-> InitialState, revision |-> 0], -1, FALSE)
    <3>1. e \in Entry
      BY <2>1, EntryOfType, RuleAssumption DEF SuccessTypes
    <3>2. [state |-> InitialState, revision |-> 0] \in Snap
      BY RuleAssumption DEF Snap
    <3>3. w \in Work
      BY <3>1, <3>2, WorkOfType
    <3>4. WorkOK(w)
      BY <3>2, NoneAssumption DEF WorkOK, WorkOf, EntryOf, Mutating
    <3>5. /\ w.entry.agg = a /\ w.snap = [state |-> InitialState, revision |-> 0] /\ w.expected = -1
      BY DEF WorkOf, EntryOf
    <3>6. Commit(p, w) /\ used \subseteq used' /\ a \notin used /\ a \in used'
      BY <2>2
    <3> HIDE DEF w
    <3> QED
      BY <1>t, <2>1, <3>3, <3>4, <3>5, <3>6, CommitIInv
  <2>3. ASSUME used' = used,
               Commit(p, JournalWork(DenialEntry("validation.denied", cur[p], None, "preflight")))
        PROVE  IInv'
    <3> DEFINE w == JournalWork(DenialEntry("validation.denied", cur[p], None, "preflight"))
    <3>1. w \in Work
      BY <2>1, JournalWorkType, DenialEntryType DEF DenialTypes
    <3>2. WorkOK(w) /\ w.snap = None
      BY DEF WorkOK, JournalWork, WorkOf, DenialEntry, EntryOf, Mutating
    <3> QED
      BY <1>t, <2>1, <2>3, <3>1, <3>2, CommitIInv
  <2> QED
    BY <1>6, <2>2, <2>3 DEF HandleCreate
<1>7. ASSUME NEW p \in Procs, LoadSnapshot(p) PROVE IInv'
  <2>1. pc'[p] = "decide" /\ view'[p] = snapshot[Cmd[cur[p]].agg] /\ cur' = cur
    BY <1>7, <1>t DEF LoadSnapshot, TypeInv, TypeOK
  <2> QED
    BY <1>7, <1>t, <2>1, LocalIInv DEF LoadSnapshot, durable, InTx, TypeInv, TypeOK
<1>8. ASSUME NEW p \in Procs, DecideTransition(p) PROVE IInv'
  <2> DEFINE c == cur[p]
             a == Cmd[c].agg
             v == view[p]
  <2>1. /\ c \in CmdIds /\ a \in Aggs /\ v \in Snap \cup {None} /\ pc[p] = "decide" /\ pc[p] \notin InTx
        /\ UNCHANGED <<durable, used, cur, view, txn, result>>
    BY <1>8, <1>t, CmdAssumption DEF TypeInv, TypeOK, LocalsOK, DecideTransition, InTx
  <2>2. ASSUME NEW type \in {"transition.denied", "revision.conflict"},
               Commit(p, JournalWork(DenialEntry(type, c, a, "preflight")))
        PROVE  IInv'
    <3> DEFINE w == JournalWork(DenialEntry(type, c, a, "preflight"))
    <3>1. w \in Work
      BY <2>1, JournalWorkType, DenialEntryType DEF DenialTypes
    <3>2. WorkOK(w) /\ w.snap = None
      BY DEF WorkOK, JournalWork, WorkOf, DenialEntry, EntryOf, Mutating
    <3> QED
      BY <1>t, <2>1, <2>2, <3>1, <3>2, CommitIInv
  <2>3. ASSUME NEW t \in Transitions,
               Commit(p, WorkOf(EntryOf("checkpoint.created", c, a, t.to, 0, "preflight"), None, -1, TRUE))
        PROVE  IInv'
    <3> DEFINE e == EntryOf("checkpoint.created", c, a, t.to, 0, "preflight")
               w == WorkOf(e, None, -1, TRUE)
    <3>1. e \in Entry
      BY <2>1, RuleAssumption DEF EntryOf, Entry, SuccessTypes
    <3>2. w \in Work
      BY <3>1, WorkOfType
    <3>3. WorkOK(w) /\ w.snap = None
      BY <2>1 DEF WorkOK, WorkOf, EntryOf, Mutating
    <3> QED
      BY <1>t, <2>1, <2>3, <3>2, <3>3, CommitIInv
  <2>4. ASSUME v # None, NEW t \in Transitions, t.from = v.state, ~t.checkpoint,
               Commit(p, WorkOf(EntryOf("transition.applied", c, a, t.to, v.revision + 1, "preflight"),
                                AppliedSnapshot(v, t), v.revision, FALSE))
        PROVE  IInv'
    <3> DEFINE e == EntryOf("transition.applied", c, a, t.to, v.revision + 1, "preflight")
               w == WorkOf(e, AppliedSnapshot(v, t), v.revision, FALSE)
    <3>1. t.to \in States /\ v \in Snap /\ v.revision \in Nat
      BY <2>1, <2>4, RuleAssumption DEF Snap
    <3>2. AppliedSnapshot(v, t) \in Snap /\ AppliedSnapshot(v, t) = [state |-> t.to, revision |-> v.revision + 1]
      BY <3>1 DEF AppliedSnapshot, Snap
    <3>3. e \in Entry
      BY <2>1, <3>1 DEF EntryOf, Entry, SuccessTypes
    <3>4. w \in Work
      BY <3>1, <3>2, <3>3, WorkOfType
    <3>5. /\ w.entry = e /\ w.entry.agg = a /\ w.snap = AppliedSnapshot(v, t) /\ w.expected = v.revision
          /\ w.entry.to = t.to /\ w.entry.revision = v.revision + 1 /\ w.entry.where = "preflight"
          /\ w.entry.type = "transition.applied" /\ w.checkpoint = FALSE
      BY DEF WorkOf, EntryOf
    <3>6. WorkOK(w)
      BY <2>1, <3>2, <3>5, NoneAssumption DEF WorkOK, Mutating
    <3>7. StillAt(a, v)
      BY <2>1, <2>4 DEF IInv, ViewOK
    <3>8. /\ snapshot[a] # None /\ v.revision <= snapshot[a].revision
          /\ v.revision = snapshot[a].revision => LegalMove(snapshot[a], AppliedSnapshot(v, t))
      BY <2>4, <3>7 DEF StillAt, LegalMove
    <3>9. Commit(p, w)
      BY <2>4
    <3>10. v.revision # -1
      BY <3>1
    <3> HIDE DEF w
    <3> QED
      BY <1>t, <2>1, <3>4, <3>5, <3>6, <3>8, <3>9, <3>10, CommitIInv
  <2> QED
    BY <1>8, <2>2, <2>3, <2>4 DEF DecideTransition, Candidates
<1>9. ASSUME NEW p \in Procs, DecideEventAppend(p) PROVE IInv'
  <2> DEFINE c == cur[p]
             a == Cmd[c].agg
  <2>1. /\ c \in CmdIds /\ a \in Aggs /\ pc[p] \notin InTx
        /\ UNCHANGED <<durable, used, cur, view, txn, result>>
    BY <1>9, <1>t, CmdAssumption DEF TypeInv, TypeOK, LocalsOK, DecideEventAppend, InTx
  <2>2. ASSUME NEW e \in Entry, e.where = "preflight", e.type \notin Mutating, Commit(p, JournalWork(e))
        PROVE  IInv'
    <3> DEFINE w == JournalWork(e)
    <3>1. w \in Work
      BY JournalWorkType
    <3>2. WorkOK(w) /\ w.snap = None
      BY <2>2 DEF WorkOK, JournalWork, WorkOf
    <3>3. Commit(p, w)
      BY <2>2
    <3> HIDE DEF w
    <3> QED
      BY <1>t, <2>1, <3>1, <3>2, <3>3, CommitIInv
  <2>3. /\ DenialEntry("validation.denied", c, a, "preflight") \in Entry
        /\ EntryOf("event.appended", c, a, None, 0, "preflight") \in Entry
    BY <2>1 DEF DenialEntry, EntryOf, Entry, SuccessTypes, DenialTypes
  <2>4. /\ DenialEntry("validation.denied", c, a, "preflight").where = "preflight"
        /\ DenialEntry("validation.denied", c, a, "preflight").type \notin Mutating
        /\ EntryOf("event.appended", c, a, None, 0, "preflight").where = "preflight"
        /\ EntryOf("event.appended", c, a, None, 0, "preflight").type \notin Mutating
    BY DEF DenialEntry, EntryOf, Mutating
  <2> QED
    BY <1>9, <2>2, <2>3, <2>4 DEF DecideEventAppend
<1>10. ASSUME NEW p \in Procs, TxAppend(p) PROVE IInv'
  <2>1. pc'[p] = "cas" /\ pc[p] = "append" /\ work' = work /\ txn'[p].seq = nextSeq
    BY <1>10, <1>t, TxnFields DEF TxAppend, TypeInv, TypeOK
  <2>2. nextSeq \in Nat /\ 1 <= nextSeq
    BY <1>t DEF TypeInv, TypeOK
  <2> QED
    BY <1>10, <1>t, <2>1, <2>2, LocalIInv DEF TxAppend, durable, InTx, TypeInv, TypeOK
<1>11. ASSUME NEW p \in Procs, TxCas(p) PROVE IInv'
  <2>1. /\ pc'[p] = "insert" /\ pc[p] = "cas" /\ work' = work /\ snapshot' = snapshot
        /\ txn'[p] = TxnOf(txn[p].seq, CasOutcome(p),
                           IF CasOutcome(p) = "conflict" THEN nextSeq + 1 ELSE 0, "unread")
    BY <1>11, <1>t DEF TxCas, TypeInv, TypeOK, durable
  <2>2. /\ txn'[p].seq = txn[p].seq /\ txn'[p].cas = CasOutcome(p)
        /\ CasOutcome(p) = "conflict" => txn'[p].denialSeq = nextSeq + 1
    BY <2>1, TxnFields
  <2>3. CasOutcome(p)' = CasOutcome(p)
    BY <2>1 DEF CasOutcome, RevisionOf
  <2>4. 1 <= txn[p].seq /\ txn[p].seq <= nextSeq
    BY <2>1 DEF IInv, SeqOK
  <2> QED
    BY <1>11, <1>t, <2>1, <2>2, <2>3, <2>4, LocalIInv DEF TxCas, durable, InTx, TypeInv, TypeOK
<1>12. ASSUME NEW p \in Procs, TxInsertIdempotency(p) PROVE IInv'
  <2>1. /\ pc'[p] = "flush" /\ pc[p] = "insert" /\ work' = work /\ snapshot' = snapshot /\ cur' = cur
        /\ txn'[p] = InsertRead(p)
        /\ result'[p] = IF idempotency[cur[p]] # None THEN idempotency[cur[p]] ELSE OwnResult(p)
    BY <1>12, <1>t DEF TxInsertIdempotency, TypeInv, TypeOK, durable
  <2>2. /\ txn'[p].seq = txn[p].seq /\ txn'[p].cas = txn[p].cas /\ txn'[p].denialSeq = txn[p].denialSeq
        /\ txn'[p].ins = IF idempotency[cur[p]] # None THEN "exists" ELSE "inserted"
    BY <2>1, TxnFields DEF InsertRead
  <2>3. CasOutcome(p)' = CasOutcome(p) /\ OwnResult(p)' = OwnResult(p)
    BY <2>1, <2>2 DEF CasOutcome, RevisionOf, OwnResult, ResultOf
  <2>4. /\ 1 <= txn[p].seq /\ txn[p].seq <= nextSeq
        /\ txn[p].seq = nextSeq => /\ txn[p].cas = CasOutcome(p)
                                   /\ txn[p].cas = "conflict" => txn[p].denialSeq = nextSeq + 1
    BY <2>1 DEF IInv, SeqOK, ReadsFresh
  <2> QED
    BY <1>12, <1>t, <2>1, <2>2, <2>3, <2>4, LocalIInv
       DEF TxInsertIdempotency, durable, InTx, TypeInv, TypeOK
<1>13. ASSUME NEW p \in Procs, FlushOk(p) PROVE IInv'
  BY <1>13, <1>t, FlushIInv
<1>14. ASSUME NEW p \in Procs, FlushThrows(p) PROVE IInv'
  <2>1. pc'[p] = "thrown"
    BY <1>14, <1>t DEF FlushThrows, TypeInv, TypeOK
  <2> QED
    BY <1>14, <1>t, <2>1, LocalIInv DEF FlushThrows, durable, InTx, TypeInv, TypeOK
<1>15. ASSUME NEW p \in Procs, Return(p) PROVE IInv'
  <2>1. pc'[p] = "idle"
    BY <1>15, <1>t DEF Return, TypeInv, TypeOK
  <2> QED
    BY <1>15, <1>t, <2>1, LocalIInv DEF Return, durable, InTx, TypeInv, TypeOK
<1> QED
  BY <1>1, <1>2, <1>3, <1>4, <1>5, <1>6, <1>7, <1>8, <1>9, <1>10, <1>11, <1>12, <1>13,
     <1>14, <1>15 DEF Next, Step

----
(* The theorems. *)

LEMMA Invariance == Spec => []IInv
  BY InitIInv, NextIInv, PTL DEF Spec

(* Whatever the interleaving of unlocked transactions, the journal has no  *)
(* gap and no repeated seq (JournalDense).                                 *)
THEOREM JournalIsDense == Spec => []JournalDense
<1>1. IInv => JournalDense
  BY DEF IInv
<1> QED
  BY Invariance, <1>1, PTL

(* Every call that returns for a command_id returns its one stored result  *)
(* (OneResultPerCommand, K12).                                             *)
THEOREM CommandsHaveOneResult == Spec => []OneResultPerCommand
<1>1. IInv => OneResultPerCommand
  BY DEF IInv
<1> QED
  BY Invariance, <1>1, PTL

(* The snapshot is always the last journal entry whose compare-and-set     *)
(* succeeded (SnapshotIsLastWon).                                          *)
THEOREM SnapshotFollowsJournal == Spec => []SnapshotIsLastWon
<1>1. IInv => SnapshotIsLastWon
  BY DEF IInv
<1> QED
  BY Invariance, <1>1, PTL

(* Only a flush changes the journal, the results and the snapshots. *)
LEMMA OnlyFlushWrites ==
    ASSUME IInv, [Next]_vars
    PROVE  \/ UNCHANGED <<journal, idempotency, snapshot>>
           \/ \E p \in Procs : FlushOk(p)
  BY DEF Next, Step, Submit, CheckIdempotency, EvaluatePolicy, HandleCreate, LoadSnapshot,
     DecideTransition, DecideEventAppend, TxAppend, TxCas, TxInsertIdempotency, FlushThrows,
     Return, Crash, vars, durable

(* No step changes a committed entry or a stored result                    *)
(* (CommittedIsForever).                                                   *)
THEOREM NothingCommittedChanges == Spec => CommittedIsForever
<1> DEFINE Kept == /\ \A s \in DOMAIN journal : s \in DOMAIN journal' /\ journal'[s] = journal[s]
                   /\ \A c \in CmdIds : idempotency[c] # None => idempotency'[c] = idempotency[c]
<1>1. IInv /\ [Next]_vars => [Kept]_vars
  <2> SUFFICES ASSUME IInv, [Next]_vars PROVE Kept
    OBVIOUS
  <2>1. CASE UNCHANGED <<journal, idempotency, snapshot>>
    BY <2>1
  <2>2. ASSUME NEW p \in Procs, FlushOk(p) PROVE Kept
    <3>1. /\ nextSeq \in Nat /\ nextSeq' \in Nat /\ nextSeq < nextSeq'
          /\ DOMAIN journal = 1 .. (nextSeq - 1) /\ DOMAIN journal' = 1 .. (nextSeq' - 1)
          /\ \A s \in 1 .. (nextSeq - 1) : journal'[s] = journal[s]
      BY <2>2, FlushJournal DEF IInv, JournalDense
    <3>2. \A s \in DOMAIN journal : s \in DOMAIN journal' /\ journal'[s] = journal[s]
      BY <3>1
    <3>3. \A c \in CmdIds : idempotency[c] # None => idempotency'[c] = idempotency[c]
      <4>1. idempotency \in [CmdIds -> Result \cup {None}]
        BY DEF IInv, TypeInv, TypeOK
      <4>2. idempotency' = IF txn[p].ins = "inserted" /\ idempotency[cur[p]] = None
                           THEN [idempotency EXCEPT ![cur[p]] = result[p]] ELSE idempotency
        BY <2>2 DEF FlushOk
      <4> QED
        BY <4>1, <4>2
    <3> QED
      BY <3>2, <3>3
  <2> QED
    BY <2>1, <2>2, OnlyFlushWrites
<1> QED
  BY Invariance, <1>1, PTL DEF Spec, CommittedIsForever

(* The commit path implements the abstract aggregate: every step creates   *)
(* an aggregate, moves one along the rule by one revision, or leaves all   *)
(* of them alone (AggregateRefinement).                                    *)
THEOREM ImplementsAggregate == Spec => AggregateRefinement
<1>1. Init => Aggregate!Init
  BY DEF Init, Aggregate!Init
<1>2. IInv /\ [Next]_vars => [Aggregate!Next]_snapshot
  <2> SUFFICES ASSUME IInv, [Next]_vars PROVE [Aggregate!Next]_snapshot
    OBVIOUS
  <2>1. CASE UNCHANGED <<journal, idempotency, snapshot>>
    BY <2>1
  <2>2. ASSUME NEW p \in Procs, FlushOk(p) PROVE [Aggregate!Next]_snapshot
    <3> DEFINE b == work[p].entry.agg
    <3>1. CASE txn[p].cas # "ok"
      BY <2>2, <3>1, FlushSnapshot
    <3>2. CASE txn[p].cas = "ok"
      <4>1. /\ b \in Aggs /\ snapshot' = [snapshot EXCEPT ![b] = work[p].snap]
            /\ \/ Creates(p) /\ snapshot[b] = None
               \/ /\ snapshot[b] # None /\ LegalMove(snapshot[b], work[p].snap)
        BY <2>2, <3>2, FlushSnapshot
      <4>2. CASE Creates(p) /\ snapshot[b] = None
        <5>1. work[p].snap = [state |-> InitialState, revision |-> 0]
          BY <4>2 DEF IInv, CreationOK
        <5> QED
          BY <4>1, <4>2, <5>1 DEF Aggregate!Next, Aggregate!Create
      <4>3. CASE snapshot[b] # None /\ LegalMove(snapshot[b], work[p].snap)
        BY <4>1, <4>3 DEF Aggregate!Next, Aggregate!Apply, LegalMove, AppliedSnapshot
      <4> QED
        BY <4>1, <4>2, <4>3
    <3> QED
      BY <3>1, <3>2
  <2> QED
    BY <2>1, <2>2, OnlyFlushWrites
<1> QED
  BY Invariance, <1>1, <1>2, PTL DEF Spec, AggregateRefinement, Aggregate!Spec
====
