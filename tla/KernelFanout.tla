---- MODULE KernelFanout ----
(***************************************************************************)
(* What RuntimeKernel.execute does around its commit: the block wait it    *)
(* registers first, the fan-out of what it finds in the journal after      *)
(* (waits, reactions, projections, the reaction queue), the outbox         *)
(* acknowledgement, and the recovery that drains the outbox at boot.       *)
(*                                                                         *)
(* A worker is one call of execute or the recovery.  A step is what runs   *)
(* between two awaits.  The commit itself is one step here; KernelCommit   *)
(* has its detail.                                                         *)
(***************************************************************************)
EXTENDS Integers, Sequences, FiniteSets, FiniteSetsExt

CONSTANTS
    Calls,         \* calls of execute, each made once
    Cmd,           \* Cmd[c]: the command of call c, a member of Command
    Aggs,          \* aggregates
    Types,         \* success entry types the conditions and filters tell apart
    Reactions,     \* reaction ids
    Filter,        \* Filter[r]: the entry type reaction r reacts to
    After,         \* After[c]: the calls the client of c waits for before it calls
    Slots,         \* how many calls run at the same time
    MaxCrashes,    \* bound on crashes
    MaxThrows,     \* bound on actions and flushes that throw
    Rec,           \* the recovery worker
    None           \* absent value (undefined, null)

Workers == Calls \cup {Rec}

Kinds == {"append", "transition", "wait.register", "wait.cancel",
          "reaction.register", "reaction.disable", "reaction.replay"}

(* A command.  "append" stands for the commands that only add an entry of  *)
(* type `type' (aggregate.create, event.append).  `agg' is the command's   *)
(* aggregate and `pagg' the one its provenance names; `on' is the entry    *)
(* type a wait or a block_on asks for, None when it does not block; `wait',*)
(* `reaction' and `source' are what cancel, disable and replay name.       *)
Command == [kind : Kinds, agg : Aggs \cup {None}, pagg : Aggs \cup {None},
            type : Types, on : Types \cup {None}, bound : BOOLEAN,
            wait : Calls \cup {None}, reaction : Reactions \cup {None},
            source : Nat, bypass : BOOLEAN]

(* A command names what its kind needs. *)
WellFormed(cmd) ==
    /\ cmd.kind = "wait.cancel" => cmd.wait # None
    /\ cmd.kind \in {"reaction.register", "reaction.disable", "reaction.replay"} => cmd.reaction # None

(* The types of the entries the kernel itself appends. *)
KernelTypes == {"policy.denied", "denied", "wait.registered", "wait.cancelled",
                "reaction.registered", "reaction.disabled"}

(* Rows of the wait and reaction tables, and the answers to a blocked call. *)
WaitRecord == [status : {"pending", "resolved", "cancelled"}, on : Types \cup {None},
               agg : Aggs \cup {None}, bound : BOOLEAN]
ReactionRecord == [enabled : BOOLEAN, since : Nat]
Answer == [by : Workers, denial : BOOLEAN]

(* A promise nobody has resolved. *)
Open == [by |-> None, denial |-> FALSE]

ASSUME CallAssumption ==
    /\ Rec \notin Calls /\ IsFiniteSet(Calls)
    /\ Cmd \in [Calls -> Command] /\ After \in [Calls -> SUBSET Calls]
    /\ \A c \in Calls : WellFormed(Cmd[c])
ASSUME FilterAssumption == Filter \in [Reactions -> Types] /\ Types \cap KernelTypes = {}
ASSUME BoundAssumption == Slots \in Nat /\ MaxCrashes \in Nat /\ MaxThrows \in Nat
ASSUME NoneAssumption ==
    /\ None \notin Workers /\ None \notin Reactions
    /\ None \notin WaitRecord /\ None \notin ReactionRecord /\ None \notin Answer
    /\ None # Open

VARIABLES
    journal,     \* journal_events, in seq order
    acked,       \* seqs whose outbox row has processed_at
    retryLater,  \* seqs whose outbox row has next_attempt_at in the future
    waits,       \* wait rows, by the call that registered them
    reactions,   \* reaction rows
    dedup,       \* dedup_ledger: <<reaction, seq>>
    queue,       \* reaction_queue
    applied,     \* projection_applied
    proj,        \* projection state (audit tail), by aggregate
    delivered,   \* invocations of the action port, by <<reaction, seq>>
    deferred,    \* the in-process promise of a blocking call
    up,          \* "serving", or "booting" while the recovery runs
    crashes, throws,
    pc, before, tail, left, todo, read, denied, items

store == <<journal, acked, retryLater, waits, reactions, dedup, queue, applied, proj>>
control == <<up, crashes, throws>>
local == <<pc, before, tail, left, todo, read, denied, items>>
vars == <<store, delivered, deferred, control, local>>

Seqs == 1 .. Len(journal)
Outbox == Seqs \ acked

Over == {"new", "await", "done", "thrown", "gone"}
Running == {w \in Workers : pc[w] \notin Over}

Goto(w, l) == pc' = [pc EXCEPT ![w] = l]
Blocks(c) == Cmd[c].kind = "transition" /\ Cmd[c].on # None

Init ==
    /\ journal = << >> /\ acked = {} /\ retryLater = {}
    /\ waits = [c \in Calls |-> None]
    /\ reactions = [r \in Reactions |-> None]
    /\ dedup = {} /\ queue = << >>
    /\ applied = {} /\ proj = [a \in Aggs \cup {None} |-> << >>]
    /\ delivered = [rs \in {} |-> 0]
    /\ deferred = [c \in Calls |-> None]
    /\ up = "serving" /\ crashes = 0 /\ throws = 0
    /\ pc = [w \in Workers |-> IF w = Rec THEN "done" ELSE "new"]
    /\ before = [w \in Workers |-> 0]
    /\ tail = [w \in Workers |-> {}]
    /\ left = [w \in Workers |-> {}]
    /\ todo = [w \in Workers |-> {}]
    /\ read = [w \in Workers |-> None]
    /\ denied = [w \in Workers |-> FALSE]
    /\ items = [w \in Workers |-> {}]

(* The call is over, or only awaits its promise: its locals are not used   *)
(* again.                                                                  *)
Leave(c, l) ==
    /\ Goto(c, l)
    /\ before' = [before EXCEPT ![c] = 0]
    /\ tail' = [tail EXCEPT ![c] = {}]
    /\ left' = [left EXCEPT ![c] = {}]
    /\ todo' = [todo EXCEPT ![c] = {}]
    /\ read' = [read EXCEPT ![c] = None]
    /\ denied' = [denied EXCEPT ![c] = FALSE]
    /\ items' = [items EXCEPT ![c] = {}]

EntryOf(c, type, agg, ok) == [call |-> c, type |-> type, agg |-> agg, ok |-> ok]
----
(* PolicyPort.evaluate: a denial is committed and returned at once. *)
Begin(c) ==
    /\ pc[c] = "new" /\ up = "serving"
    /\ Cardinality(Running) < Slots
    /\ \A b \in After[c] : pc[b] \in {"done", "thrown", "gone"}
    /\ \/ /\ Goto(c, IF Blocks(c) THEN "register" ELSE "readMax")
          /\ UNCHANGED journal
       \/ /\ journal' = Append(journal, EntryOf(c, "policy.denied", None, FALSE))
          /\ Goto(c, "done")
    /\ UNCHANGED <<acked, retryLater, waits, reactions, dedup, queue, applied, proj,
                   delivered, deferred, control, before, tail, left, todo, read, denied, items>>

WaitRow(on, agg, bound) == [status |-> "pending", on |-> on, agg |-> agg, bound |-> bound]

(* registerBlockWait: the row is committed, with the provenance's          *)
(* aggregate, before there is a promise to resolve.                        *)
RegisterBlockWait(c) ==
    /\ pc[c] = "register"
    /\ waits' = [waits EXCEPT ![c] = WaitRow(Cmd[c].on, Cmd[c].pagg, TRUE)]
    /\ Goto(c, "defer")
    /\ UNCHANGED <<journal, acked, retryLater, reactions, dedup, queue, applied, proj,
                   delivered, deferred, control, before, tail, left, todo, read, denied, items>>

(* registerDeferred is called twice, in registerBlockWait and again by     *)
(* execute, which awaits the second promise.                               *)
RegisterDeferred(c) ==
    /\ pc[c] \in {"defer", "deferAgain"}
    /\ deferred' = [deferred EXCEPT ![c] = Open]
    /\ Goto(c, IF pc[c] = "defer" THEN "deferAgain" ELSE "readMax")
    /\ UNCHANGED <<store, delivered, control, before, tail, left, todo, read, denied, items>>

(* maxSeqBefore. *)
ReadMaxSeq(c) ==
    /\ pc[c] = "readMax"
    /\ before' = [before EXCEPT ![c] = Len(journal)]
    /\ Goto(c, IF Cmd[c].kind \in {"append", "transition", "wait.register"} THEN "commit" ELSE "load")
    /\ UNCHANGED <<store, delivered, deferred, control, tail, left, todo, read, denied, items>>

(* What the other handlers read before they commit: a wait row, a reaction *)
(* row, or the current max seq.                                            *)
Load(c) ==
    /\ pc[c] = "load"
    /\ read' = [read EXCEPT ![c] =
           CASE Cmd[c].kind = "wait.cancel" -> waits[Cmd[c].wait]
             [] Cmd[c].kind \in {"reaction.disable", "reaction.replay"} -> reactions[Cmd[c].reaction]
             [] OTHER -> [maxSeq |-> Len(journal)]]
    /\ Goto(c, CASE Cmd[c].kind = "reaction.replay" -> "replay"
                 [] Cmd[c].kind = "reaction.disable" -> "disable"
                 [] OTHER -> "commit")
    /\ UNCHANGED <<store, delivered, deferred, control, before, tail, left, todo, denied, items>>

(* reaction.disable writes the row in a transaction of its own, before the *)
(* one that appends the entry.                                             *)
DisableReaction(c) ==
    /\ pc[c] = "disable"
    /\ reactions' = IF read[c] = None THEN reactions
                    ELSE [reactions EXCEPT ![Cmd[c].reaction] = [enabled |-> FALSE, since |-> read[c].since]]
    /\ Goto(c, "commit")
    /\ UNCHANGED <<journal, acked, retryLater, waits, dedup, queue, applied, proj,
                   delivered, deferred, control, before, tail, left, todo, read, denied, items>>

(* A command that appends entries, with the rows of the same transaction.  *)
Commits(c, entries, isDenial) ==
    /\ journal' = journal \o entries
    /\ denied' = [denied EXCEPT ![c] = isDenial]
    /\ Goto(c, "tail")

(* A success, a denial, or, when another call won the race for the         *)
(* revision, both entries (commitSuccess).                                 *)
CommitEntry(c) ==
    /\ pc[c] = "commit"
    /\ Cmd[c].kind \in {"append", "transition"}
    /\ LET ok == EntryOf(c, Cmd[c].type, Cmd[c].agg, TRUE)
           no == EntryOf(c, "denied", Cmd[c].agg, FALSE)
       IN  \/ Commits(c, <<ok>>, FALSE)
           \/ Commits(c, <<no>>, TRUE)
           \/ /\ Cmd[c].kind = "transition" /\ Cardinality(Running) > 1
              /\ Commits(c, <<ok, no>>, TRUE)
    /\ UNCHANGED <<acked, retryLater, waits, reactions, dedup, queue, applied, proj,
                   delivered, deferred, control, before, tail, left, todo, read, items>>

(* The flush finds its seq taken by another call: the transaction is rolled *)
(* back and the call rejects.                                              *)
CommitThrows(c) ==
    /\ pc[c] = "commit" /\ Cardinality(Running) > 1
    /\ throws < MaxThrows /\ throws' = throws + 1
    /\ Leave(c, "thrown")
    /\ UNCHANGED <<store, delivered, deferred, up, crashes>>

CommitWaitRegister(c) ==
    /\ pc[c] = "commit" /\ Cmd[c].kind = "wait.register"
    /\ Commits(c, <<EntryOf(c, "wait.registered", Cmd[c].agg, TRUE)>>, FALSE)
    /\ waits' = [waits EXCEPT ![c] = WaitRow(Cmd[c].on, Cmd[c].agg, Cmd[c].bound)]
    /\ UNCHANGED <<acked, retryLater, reactions, dedup, queue, applied, proj,
                   delivered, deferred, control, before, tail, left, todo, read, items>>

(* The row as it was read is written back as cancelled; an unknown wait is *)
(* a denial that leaves no entry.                                          *)
CommitWaitCancel(c) ==
    /\ pc[c] = "commit" /\ Cmd[c].kind = "wait.cancel"
    /\ IF read[c] = None
       THEN /\ denied' = [denied EXCEPT ![c] = TRUE]
            /\ Goto(c, "tail")
            /\ UNCHANGED <<journal, waits>>
       ELSE /\ Commits(c, <<EntryOf(c, "wait.cancelled", None, TRUE)>>, FALSE)
            /\ waits' = [waits EXCEPT ![Cmd[c].wait] = [status |-> "cancelled", on |-> read[c].on,
                                                        agg |-> read[c].agg, bound |-> read[c].bound]]
    /\ UNCHANGED <<acked, retryLater, reactions, dedup, queue, applied, proj,
                   delivered, deferred, control, before, tail, left, todo, read, items>>

CommitReactionRegister(c) ==
    /\ pc[c] = "commit" /\ Cmd[c].kind = "reaction.register"
    /\ Commits(c, <<EntryOf(c, "reaction.registered", None, TRUE)>>, FALSE)
    /\ reactions' = [reactions EXCEPT ![Cmd[c].reaction] = [enabled |-> TRUE, since |-> read[c].maxSeq + 1]]
    /\ UNCHANGED <<acked, retryLater, waits, dedup, queue, applied, proj,
                   delivered, deferred, control, before, tail, left, todo, read, items>>

CommitReactionDisable(c) ==
    /\ pc[c] = "commit" /\ Cmd[c].kind = "reaction.disable"
    /\ Commits(c, <<EntryOf(c, "reaction.disabled", None, TRUE)>>, FALSE)
    /\ UNCHANGED <<acked, retryLater, waits, reactions, dedup, queue, applied, proj,
                   delivered, deferred, control, before, tail, left, todo, read, items>>

(* reaction.replay appends no entry: it consults the dedup ledger, unless  *)
(* told not to, and invokes the action itself.                             *)
Replay(c) ==
    LET found == read[c] # None /\ Cmd[c].source \in Seqs
    IN  /\ pc[c] = "replay"
        /\ denied' = [denied EXCEPT ![c] = ~found]
        /\ read' = [read EXCEPT ![c] = [exists |-> <<Cmd[c].reaction, Cmd[c].source>> \in dedup]]
        /\ Goto(c, IF ~found THEN "tail" ELSE IF Cmd[c].bypass THEN "replayInvoke" ELSE "replayDedup")
        /\ UNCHANGED <<store, delivered, deferred, control, before, tail, left, todo, items>>

ReplayDedup(c) ==
    /\ pc[c] = "replayDedup"
    /\ dedup' = dedup \cup {<<Cmd[c].reaction, Cmd[c].source>>}
    /\ Goto(c, IF read[c].exists THEN "tail" ELSE "replayInvoke")
    /\ UNCHANGED <<journal, acked, retryLater, waits, reactions, queue, applied, proj,
                   delivered, deferred, control, before, tail, left, todo, read, denied, items>>

(* The action port, outside the kernel: the side effect happens. *)
SideEffect(rs) ==
    delivered' = [x \in DOMAIN delivered \cup {rs} |->
                     (IF x \in DOMAIN delivered THEN delivered[x] ELSE 0) + (IF x = rs THEN 1 ELSE 0)]

ReplayInvoke(c) ==
    /\ pc[c] = "replayInvoke"
    /\ SideEffect(<<Cmd[c].reaction, Cmd[c].source>>)
    /\ Goto(c, "tail")
    /\ UNCHANGED <<store, deferred, control, before, tail, left, todo, read, denied, items>>
----
(* The seqs after s (tailJournal); they are taken in order. *)
SeqsAfter(s) == {i \in Seqs : i > s}

(* A call fans out everything after the max seq it read, other calls'      *)
(* entries included.                                                       *)
TailJournal(c) ==
    /\ pc[c] = "tail"
    /\ tail' = [tail EXCEPT ![c] = SeqsAfter(before[c])]
    /\ left' = [left EXCEPT ![c] = SeqsAfter(before[c])]
    /\ Goto(c, "entry")
    /\ UNCHANGED <<store, delivered, deferred, control, before, todo, read, denied, items>>

(* boundWaitId && boundCommandDenied: only the call's own wait is resolved *)
(* and the rest of the entry's fan-out is skipped.                         *)
SkipsAsBound(w) == w # Rec /\ Blocks(w) /\ denied[w]

(* listPendingWaits: an entry without an aggregate concerns every wait of  *)
(* the scope, one with an aggregate the waits on it.                       *)
Concerns(e, x) == waits[x] # None /\ (e.agg = None \/ waits[x].agg = e.agg)
PendingWaits(e) == {x \in Calls : Concerns(e, x) /\ waits[x].status = "pending"}

DispatchEntry(w) ==
    /\ pc[w] = "entry"
    /\ IF left[w] = {}
       THEN Goto(w, "claim") /\ UNCHANGED todo
       ELSE /\ todo' = [todo EXCEPT ![w] =
                    IF SkipsAsBound(w) THEN {w} ELSE PendingWaits(journal[Min(left[w])])]
            /\ Goto(w, "waits")
    /\ UNCHANGED <<store, delivered, deferred, control, before, tail, left, read, denied, items>>

NextEntry(w) ==
    /\ left' = [left EXCEPT ![w] = @ \ {Min(@)}]
    /\ Goto(w, "entry")

(* Mutant: a denied bound command does not resolve its own wait. *)
AnswerOfMatchOnly(w, x) ==
    LET e == journal[Min(left[w])]
    IN  IF e.ok /\ e.type = waits[x].on THEN [by |-> e.call, denial |-> FALSE] ELSE None

(* The resolution a worker has for a listed wait: the worker's own denial  *)
(* for a wait bound to a command (whichever command that is), the entry    *)
(* when it matches the condition, or none.                                 *)
AnswerOf(w, x) ==
    LET e == journal[Min(left[w])]
    IN  IF SkipsAsBound(w) \/ (waits[x].bound /\ denied[w]) THEN [by |-> w, denial |-> TRUE]
        ELSE IF e.ok /\ e.type = waits[x].on THEN [by |-> e.call, denial |-> FALSE]
        ELSE None

(* Mutant: the row is resolved but nobody is notified. *)
NotifyWaitSilent(w, x) ==
    /\ pc[w] = "waits" /\ x \in todo[w]
    /\ IF AnswerOf(w, x) = None
       THEN /\ todo' = [todo EXCEPT ![w] = @ \ {x}]
            /\ UNCHANGED <<pc, read>>
       ELSE /\ read' = [read EXCEPT ![w] = [wait |-> x]]
            /\ Goto(w, "update")
            /\ UNCHANGED todo
    /\ UNCHANGED <<store, delivered, deferred, control, before, tail, left, denied, items>>

(* NotifyPort.resolveWait settles the in-process promise, if there is one. *)
NotifyWait(w, x) ==
    /\ pc[w] = "waits" /\ x \in todo[w]
    /\ IF AnswerOf(w, x) = None
       THEN /\ todo' = [todo EXCEPT ![w] = @ \ {x}]
            /\ UNCHANGED <<deferred, pc, read>>
       ELSE /\ deferred' = IF deferred[x] = Open THEN [deferred EXCEPT ![x] = AnswerOf(w, x)] ELSE deferred
            /\ read' = [read EXCEPT ![w] = [wait |-> x]]
            /\ Goto(w, "update")
            /\ UNCHANGED todo
    /\ UNCHANGED <<store, delivered, control, before, tail, left, denied, items>>

(* The row is then written back as resolved, whatever it has become. *)
UpdateWait(w) ==
    LET x == read[w].wait
    IN  /\ pc[w] = "update"
        /\ waits' = [waits EXCEPT ![x] = [status |-> "resolved", on |-> @.on, agg |-> @.agg, bound |-> @.bound]]
        /\ todo' = [todo EXCEPT ![w] = @ \ {x}]
        /\ Goto(w, "waits")
        /\ UNCHANGED <<journal, acked, retryLater, reactions, dedup, queue, applied, proj,
                       delivered, deferred, control, before, tail, left, read, denied, items>>

SkipEntry(w) ==
    /\ pc[w] = "waits" /\ todo[w] = {} /\ SkipsAsBound(w)
    /\ NextEntry(w)
    /\ UNCHANGED <<store, delivered, deferred, control, before, tail, todo, read, denied, items>>

(* Mutant: the registration watermark is off by one. *)
MatchesReactionLate(r, s) ==
    /\ reactions[r] # None /\ reactions[r].enabled
    /\ s > reactions[r].since + 1
    /\ journal[s].type = Filter[r]

(* matchesReaction: enabled, not older than the registration, of a type    *)
(* the filter names.                                                       *)
MatchesReaction(r, s) ==
    /\ reactions[r] # None /\ reactions[r].enabled
    /\ s >= reactions[r].since
    /\ journal[s].type = Filter[r]

ListReactions(w) ==
    /\ pc[w] = "waits" /\ todo[w] = {} /\ ~SkipsAsBound(w)
    /\ todo' = [todo EXCEPT ![w] = {r \in Reactions : MatchesReaction(r, Min(left[w]))}]
    /\ Goto(w, "reactions")
    /\ UNCHANGED <<store, delivered, deferred, control, before, tail, left, read, denied, items>>

(* Mutant: the dedup row is not consulted. *)
DedupReadBlind(w, r) ==
    /\ pc[w] = "reactions" /\ r \in todo[w]
    /\ read' = [read EXCEPT ![w] = [reaction |-> r, exists |-> FALSE]]
    /\ Goto(w, "enqueue")
    /\ UNCHANGED <<store, delivered, deferred, control, before, tail, left, todo, denied, items>>

(* insertDedup reads the ledger (dedup.required reactions, inside their    *)
(* window); the row and the queue item are written by the flush.           *)
DedupRead(w, r) ==
    /\ pc[w] = "reactions" /\ r \in todo[w]
    /\ read' = [read EXCEPT ![w] = [reaction |-> r, exists |-> <<r, Min(left[w])>> \in dedup]]
    /\ Goto(w, "enqueue")
    /\ UNCHANGED <<store, delivered, deferred, control, before, tail, left, todo, denied, items>>

EnqueueReaction(w) ==
    LET r == read[w].reaction
        s == Min(left[w])
    IN  /\ pc[w] = "enqueue"
        /\ IF read[w].exists THEN UNCHANGED <<dedup, queue>>
           ELSE /\ dedup' = dedup \cup {<<r, s>>}
                /\ queue' = Append(queue, [reaction |-> r, seq |-> s, status |-> "pending"])
        /\ todo' = [todo EXCEPT ![w] = @ \ {r}]
        /\ Goto(w, "reactions")
        /\ UNCHANGED <<journal, acked, retryLater, waits, reactions, applied, proj,
                       delivered, deferred, control, before, tail, left, read, denied, items>>

(* Mutant: an entry that was applied before is applied again. *)
MarkProjectionAlways(w) ==
    /\ pc[w] = "reactions" /\ todo[w] = {}
    /\ Goto(w, "projLoad") /\ UNCHANGED left
    /\ UNCHANGED <<store, delivered, deferred, control, before, tail, todo, read, denied, items>>

(* dispatchProjection: tryMarkProjectionApplied, then the prior state, then*)
(* the flush of both.                                                      *)
MarkProjection(w) ==
    /\ pc[w] = "reactions" /\ todo[w] = {}
    /\ IF Min(left[w]) \in applied THEN NextEntry(w) ELSE Goto(w, "projLoad") /\ UNCHANGED left
    /\ UNCHANGED <<store, delivered, deferred, control, before, tail, todo, read, denied, items>>

LoadProjection(w) ==
    /\ pc[w] = "projLoad"
    /\ read' = [read EXCEPT ![w] = [prior |-> proj[journal[Min(left[w])].agg]]]
    /\ Goto(w, "projFlush")
    /\ UNCHANGED <<store, delivered, deferred, control, before, tail, left, todo, denied, items>>

FlushProjection(w) ==
    LET s == Min(left[w])
    IN  /\ pc[w] = "projFlush"
        /\ proj' = [proj EXCEPT ![journal[s].agg] = Append(read[w].prior, s)]
        /\ applied' = applied \cup {s}
        /\ NextEntry(w)
        /\ UNCHANGED <<journal, acked, retryLater, waits, reactions, dedup, queue,
                       delivered, deferred, control, before, tail, todo, read, denied, items>>

Pending(i) == queue[i].status = "pending"
SetStatus(is, st) == [i \in DOMAIN queue |->
    IF i \in is THEN [reaction |-> queue[i].reaction, seq |-> queue[i].seq, status |-> st] ELSE queue[i]]

(* drainReactionQueue: every pending item, whoever queued it, is claimed.  *)
ClaimReactionBatch(w) ==
    /\ pc[w] = "claim"
    /\ items' = [items EXCEPT ![w] = {i \in DOMAIN queue : Pending(i)}]
    /\ queue' = SetStatus({i \in DOMAIN queue : Pending(i)}, "processing")
    /\ Goto(w, "invoke")
    /\ UNCHANGED <<journal, acked, retryLater, waits, reactions, dedup, applied, proj,
                   delivered, deferred, control, before, tail, left, todo, read, denied>>

InvokeAction(w) ==
    LET q == queue[Min(items[w])]
    IN  /\ pc[w] = "invoke" /\ items[w] # {}
        /\ SideEffect(<<q.reaction, q.seq>>)
        /\ Goto(w, "complete")
        /\ UNCHANGED <<store, deferred, control, before, tail, left, todo, read, denied, items>>

CompleteReaction(w) ==
    /\ pc[w] = "complete"
    /\ queue' = SetStatus({Min(items[w])}, "done")
    /\ items' = [items EXCEPT ![w] = @ \ {Min(@)}]
    /\ Goto(w, "invoke")
    /\ UNCHANGED <<journal, acked, retryLater, waits, reactions, dedup, applied, proj,
                   delivered, deferred, control, before, tail, left, todo, read, denied>>

Drained(w) ==
    /\ pc[w] = "invoke" /\ items[w] = {}
    /\ Goto(w, "ack")
    /\ UNCHANGED <<store, delivered, deferred, control, before, tail, left, todo, read, denied, items>>
----
(* ackFanout, one seq at a time. *)
AckFanout(c) ==
    /\ pc[c] = "ack" /\ tail[c] # {}
    /\ acked' = acked \cup {Min(tail[c])}
    /\ tail' = [tail EXCEPT ![c] = @ \ {Min(@)}]
    /\ UNCHANGED <<journal, retryLater, waits, reactions, dedup, queue, applied, proj,
                   delivered, deferred, control, pc, before, left, todo, read, denied, items>>

(* A blocking call goes on to await its promise. *)
Finish(c) ==
    /\ pc[c] = "ack" /\ tail[c] = {}
    /\ Leave(c, IF Blocks(c) THEN "await" ELSE "done")
    /\ UNCHANGED <<store, delivered, deferred, control>>

Unblock(c) ==
    /\ pc[c] = "await" /\ deferred[c] \notin {None, Open}
    /\ Goto(c, "done")
    /\ UNCHANGED <<store, delivered, deferred, control, before, tail, left, todo, read, denied, items>>

(* An action that throws makes the call reject, before it acknowledges. *)
InvokeThrows(c) ==
    /\ \/ pc[c] = "invoke" /\ items[c] # {}
       \/ pc[c] = "replayInvoke"
    /\ throws < MaxThrows /\ throws' = throws + 1
    /\ Leave(c, "thrown")
    /\ UNCHANGED <<store, delivered, deferred, up, crashes>>

Call(c) ==
    \/ RegisterBlockWait(c) \/ RegisterDeferred(c) \/ ReadMaxSeq(c) \/ Load(c)
    \/ DisableReaction(c) \/ CommitEntry(c) \/ CommitThrows(c) \/ CommitWaitRegister(c) \/ CommitWaitCancel(c)
    \/ CommitReactionRegister(c) \/ CommitReactionDisable(c)
    \/ Replay(c) \/ ReplayDedup(c) \/ ReplayInvoke(c)
    \/ TailJournal(c) \/ AckFanout(c) \/ Finish(c) \/ Unblock(c) \/ InvokeThrows(c)

Dispatch(w) ==
    \/ DispatchEntry(w) \/ UpdateWait(w) \/ SkipEntry(w) \/ ListReactions(w)
    \/ \E x \in Calls : NotifyWait(w, x)
    \/ \E r \in Reactions : DedupRead(w, r)
    \/ EnqueueReaction(w) \/ MarkProjection(w) \/ LoadProjection(w) \/ FlushProjection(w)
    \/ ClaimReactionBatch(w) \/ InvokeAction(w) \/ CompleteReaction(w) \/ Drained(w)
----
(* Mutant: an entry that is already projected is taken for done. *)
DueUnprojected(s) == s \in Outbox /\ s \notin retryLater /\ s \notin applied

(* claimFanoutBatch's WHERE clause; the recovery may take over its own     *)
(* leases.                                                                 *)
Due(s) == s \in Outbox /\ s \notin retryLater

(* drainOutbox: claims the rows that are due until there are none, and     *)
(* only then does the daemon serve.                                        *)
ClaimFanoutBatch ==
    LET batch == {s \in Seqs : Due(s)}
    IN  /\ pc[Rec] = "boot"
        /\ tail' = [tail EXCEPT ![Rec] = batch]
        /\ IF batch = {}
           THEN up' = "serving" /\ Goto(Rec, "done") /\ UNCHANGED left
           ELSE left' = [left EXCEPT ![Rec] = {Min(batch)}] /\ Goto(Rec, "entry") /\ UNCHANGED up
        /\ UNCHANGED <<store, delivered, deferred, crashes, throws, before, todo, read, denied, items>>

(* The next entry of the claimed batch, or the next batch. *)
NextOfBatch ==
    /\ tail' = [tail EXCEPT ![Rec] = @ \ {Min(@)}]
    /\ IF tail'[Rec] = {}
       THEN left' = [left EXCEPT ![Rec] = {}] /\ Goto(Rec, "boot")
       ELSE left' = [left EXCEPT ![Rec] = {Min(tail'[Rec])}] /\ Goto(Rec, "entry")

RecoveryAck ==
    /\ pc[Rec] = "ack"
    /\ acked' = acked \cup {Min(tail[Rec])}
    /\ NextOfBatch
    /\ UNCHANGED <<journal, retryLater, waits, reactions, dedup, queue, applied, proj,
                   delivered, deferred, control, before, todo, read, denied, items>>

(* failFanout puts the row off by five seconds. *)
RecoveryFails ==
    /\ pc[Rec] = "invoke" /\ items[Rec] # {}
    /\ throws < MaxThrows /\ throws' = throws + 1
    /\ retryLater' = retryLater \cup {Min(tail[Rec])}
    /\ items' = [items EXCEPT ![Rec] = {}]
    /\ NextOfBatch
    /\ UNCHANGED <<journal, acked, waits, reactions, dedup, queue, applied, proj,
                   delivered, deferred, up, crashes, before, todo, read, denied>>

RetryDue ==
    /\ retryLater # {} /\ retryLater' = {}
    /\ UNCHANGED <<journal, acked, waits, reactions, dedup, queue, applied, proj,
                   delivered, deferred, control, local>>

(* The daemon dies: promises and calls in flight are gone; it boots again. *)
Crash ==
    /\ crashes < MaxCrashes /\ crashes' = crashes + 1
    /\ up' = "booting"
    /\ deferred' = [c \in Calls |-> None]
    /\ pc' = [w \in Workers |-> IF w = Rec THEN "boot"
                                ELSE IF pc[w] \in {"new", "done", "thrown"} THEN pc[w] ELSE "gone"]
    /\ before' = [w \in Workers |-> 0]
    /\ tail' = [w \in Workers |-> {}]
    /\ left' = [w \in Workers |-> {}]
    /\ todo' = [w \in Workers |-> {}]
    /\ read' = [w \in Workers |-> None]
    /\ items' = [w \in Workers |-> {}]
    /\ denied' = [w \in Workers |-> FALSE]
    /\ UNCHANGED <<store, delivered, throws>>

Recovery == ClaimFanoutBatch \/ RecoveryAck \/ RecoveryFails \/ Dispatch(Rec)

Next ==
    \/ \E c \in Calls : Begin(c) \/ Call(c) \/ Dispatch(c)
    \/ Recovery \/ RetryDue \/ Crash

Spec == Init /\ [][Next]_vars

(* The event loop runs every continuation that is ready; nothing obliges a *)
(* client to call, the daemon to crash or an action to throw.              *)
Fairness ==
    /\ \A c \in Calls : WF_vars(Call(c) \/ Dispatch(c))
    /\ WF_vars(Recovery)

FairSpec == Spec /\ Fairness
----
EntryTypes == Types \cup KernelTypes

(* Every row of the store has its shape, and every seq that a row or a call *)
(* holds on to (outbox, dedup ledger, queue, projections) is in the journal. *)
TypeOK ==
    /\ journal \in Seq([call : Calls, type : EntryTypes, agg : Aggs \cup {None}, ok : BOOLEAN])
    /\ acked \subseteq Seqs /\ retryLater \subseteq Seqs /\ applied \subseteq Seqs
    /\ waits \in [Calls -> WaitRecord \cup {None}]
    /\ reactions \in [Reactions -> ReactionRecord \cup {None}]
    /\ dedup \subseteq Reactions \X Seqs /\ DOMAIN delivered \subseteq dedup \cup Reactions \X Seqs
    /\ queue \in Seq([reaction : Reactions, seq : Seqs, status : {"pending", "processing", "done"}])
    /\ proj \in [Aggs \cup {None} -> Seq(Seqs)]
    /\ deferred \in [Calls -> {None, Open} \cup Answer]
    /\ up \in {"serving", "booting"}
    /\ denied \in [Workers -> BOOLEAN]
    /\ \A w \in Workers : left[w] \subseteq Seqs /\ tail[w] \subseteq Seqs

(* The reaction was there, and stayed, when the entry was committed. *)
Awaits(r, s) ==
    /\ journal[s].type = Filter[r]
    /\ \E q \in 1 .. (s - 1) : journal[q].type = "reaction.registered" /\ Cmd[journal[q].call].reaction = r
    /\ reactions[r].enabled

(* The wait was there when the entry was committed: its registration is an *)
(* earlier entry, or it blocks the call that committed the entry.          *)
WaitsFor(x, s) ==
    /\ Concerns(journal[s], x)
    /\ journal[s].ok /\ journal[s].type = waits[x].on
    /\ \/ \E q \in 1 .. (s - 1) : journal[q].type = "wait.registered" /\ journal[q].call = x
       \/ journal[s].call = x

(* K15: a seq leaves the outbox only when its fan-out has been done: its   *)
(* waits are settled, its reactions are in the dedup ledger and it is      *)
(* projected, whichever calls share the work and wherever the daemon       *)
(* crashed (dispatchFanout before ackFanout, drainOutbox).                 *)
AckedIsFannedOut ==
    \A s \in acked :
        /\ s \in applied
        /\ \A r \in Reactions : Awaits(r, s) => <<r, s>> \in dedup
        /\ \A x \in Calls : WaitsFor(x, s) => waits[x].status # "pending"

(* The rows that an action failed on stay in the outbox; all others have   *)
(* left it when the daemon starts to serve again (drainOutbox precedes     *)
(* serve).                                                                 *)
BootDrainsOutbox == [][(up = "booting" /\ up' = "serving") => Outbox \subseteq retryLater]_vars

(* K15: what was committed before a restart is eventually acknowledged, or *)
(* an action failed on it.                                                 *)
RestartFansOut ==
    \A s \in 1 .. Cardinality(Calls) :
        (up = "booting" /\ s \in Seqs) ~> s \in acked \cup retryLater

(* K18: the side effect of a reaction on an entry happens at most once     *)
(* unless a replay asks for more, across crashes and retries.              *)
OneDelivery ==
    (\A c \in Calls : Cmd[c].kind = "reaction.replay" => ~Cmd[c].bypass)
        => \A rs \in DOMAIN delivered : delivered[rs] <= 1

(* "at-least-once": an acknowledged entry's side effects have happened. *)
DeliveredOnceAcked ==
    \A s \in acked : \A r \in Reactions : Awaits(r, s) => <<r, s>> \in DOMAIN delivered

(* K9, "incremental matches rebuild": the projection of an aggregate has   *)
(* every entry that is marked as applied to it, once, whoever fanned it    *)
(* out and however often (tryMarkProjectionApplied, dispatchProjection).   *)
ProjectionComplete ==
    \A a \in Aggs \cup {None} :
        LET marked == {s \in applied : journal[s].agg = a}
        IN  /\ Len(proj[a]) = Cardinality(marked)
            /\ {proj[a][i] : i \in DOMAIN proj[a]} = marked

(* K14: a blocked call is answered with its own command's denial, never    *)
(* with that of another command.                                           *)
DenialReachesItsOwner ==
    \A c \in Calls : deferred[c] \notin {None, Open} /\ deferred[c].denial => deferred[c].by = c

(* "denials append; fan-out follows": a call that returns has had its      *)
(* entries fanned out.                                                     *)
ReturnedIsFannedOut ==
    \A s \in Seqs : pc[journal[s].call] = "done" => s \in acked

(* A blocked call whose wait has been settled has its answer: no wake-up   *)
(* is lost between the wait row and the promise (registerBlockWait).       *)
NoLostWakeup ==
    \A c \in Calls : pc[c] = "await" /\ waits[c].status = "resolved" => deferred[c] # Open

(* "hold until match OR bound denial": a blocked call whose own command is *)
(* denied, or commits the entry it waits for, returns.                     *)
BlockedCallReturns ==
    \A c \in Calls :
        (Blocks(c) /\ \E s \in Seqs : journal[s].call = c /\ (~journal[s].ok \/ journal[s].type = Cmd[c].on))
            ~> pc[c] \in {"done", "thrown", "gone"}
====
