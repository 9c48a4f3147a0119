------------------------- MODULE KernelFanoutProofs -------------------------
(***************************************************************************)
(* Proofs about KernelFanout.                                              *)
(*                                                                         *)
(* Types hold of every behaviour.  That an acknowledged entry has been     *)
(* fanned out is proved for any number of concurrent calls, of crashes and *)
(* of throwing actions, when no call blocks and a reaction is registered   *)
(* once (Unblocked): what a worker still has to do for the entry it is at  *)
(* is in its todo set, and what is done for an entry stays done.  That     *)
(* effects happen once, that projections are complete and that no wake-up  *)
(* is lost is proved for the kernel that runs one call at a time           *)
(* (Slots = 1): what the worker read is still so when it writes.           *)
(***************************************************************************)
EXTENDS KernelFanout, FiniteSetTheorems, WellFoundedInduction, TLAPS

Before == {"new", "register", "defer", "deferAgain", "readMax", "load", "disable", "commit"}
AtEntry == {"waits", "update", "reactions", "enqueue", "projLoad", "projFlush"}
Draining == {"claim", "invoke", "complete", "ack"}
Labels == Before \cup AtEntry \cup Draining \cup
          {"replay", "replayDedup", "replayInvoke", "tail", "entry", "await", "done", "thrown", "gone", "boot"}

(* What a worker keeps of what it read. *)
Reads == {None} \cup WaitRecord \cup ReactionRecord \cup [maxSeq : Nat] \cup [exists : BOOLEAN]
         \cup [wait : Calls] \cup [reaction : Reactions, exists : BOOLEAN] \cup [prior : Seq(Nat)]

Pair(i) == <<queue[i].reaction, queue[i].seq>>

(* The types of the locals, and which worker can be at which label. *)
LocalTypes ==
    /\ crashes \in Nat /\ throws \in Nat
    /\ pc \in [Workers -> Labels]
    /\ before \in [Workers -> Nat]
    /\ tail \in [Workers -> SUBSET Seqs] /\ left \in [Workers -> SUBSET Seqs]
    /\ todo \in [Workers -> SUBSET (Calls \cup Reactions)]
    /\ read \in [Workers -> Reads]
    /\ items \in [Workers -> SUBSET DOMAIN queue]
    /\ pc[Rec] \in {"done", "boot", "entry"} \cup AtEntry \cup Draining
    /\ \A c \in Calls : pc[c] # "boot"
    /\ up = "serving" <=> pc[Rec] = "done"

(* What a worker has when it is at a label. *)
Work(w) ==
    /\ pc[w] \in AtEntry => left[w] # {}
    /\ pc[w] \in Draining => left[w] = {}
    /\ pc[w] \in {"waits", "update"} => \A x \in todo[w] : x \in Calls /\ waits[x] # None
    /\ pc[w] = "update" => read[w] \in [wait : Calls] /\ read[w].wait \in todo[w]
    /\ pc[w] \in {"reactions", "enqueue"} => todo[w] \subseteq Reactions
    /\ pc[w] = "enqueue" => read[w] \in [reaction : Reactions, exists : BOOLEAN]
    /\ pc[w] = "projFlush" => read[w] \in [prior : Seq(Seqs)]
    /\ pc[w] = "complete" => items[w] # {}

(* What a call has read, and what its command is, when it is at a label. *)
CallWork(c) ==
    /\ Blocks(c) /\ pc[c] \notin {"new", "register", "done", "thrown", "gone"} => waits[c] # None
    /\ pc[c] \in {"register", "defer", "deferAgain"} => Blocks(c)
    /\ pc[c] \in {"load", "disable", "replay", "replayDedup", "replayInvoke"} =>
          Cmd[c].kind \in {"wait.cancel", "reaction.register", "reaction.disable", "reaction.replay"}
    /\ pc[c] \in {"replay", "replayDedup", "replayInvoke"} => Cmd[c].kind = "reaction.replay"
    /\ pc[c] \in {"replayDedup", "replayInvoke"} =>
          read[c] \in [exists : BOOLEAN] /\ Cmd[c].source \in Seqs
    /\ pc[c] = "disable" => Cmd[c].kind = "reaction.disable" /\ read[c] \in ReactionRecord \cup {None}
    /\ pc[c] = "commit" /\ Cmd[c].kind = "wait.cancel" => read[c] \in WaitRecord \cup {None}
    /\ pc[c] = "commit" /\ Cmd[c].kind = "reaction.register" => read[c] \in [maxSeq : Nat]

WorkOK == (\A w \in Workers : Work(w)) /\ (\A c \in Calls : CallWork(c))

(* The recovery is at work on a batch. *)
FansOut == {"entry"} \cup AtEntry \cup Draining
RecBatch == pc[Rec] \in FansOut => tail[Rec] # {}

TypeInv == TypeOK /\ LocalTypes /\ WorkOK /\ RecBatch

-----------------------------------------------------------------------------
(* Least elements, and how the journal grows. *)

LEMMA MinIn ==
  ASSUME NEW S, S \subseteq Nat, S # {}
  PROVE  Min(S) \in S
  <1> DEFINE R == OpToRel(<, Nat)
  <1>1. PICK x \in S : \A y \in S : ~ (<<y, x>> \in R)
    BY NatLessThanWellFounded, WFMin
  <1>2. \A y \in S : x <= y
    <2> SUFFICES ASSUME NEW y \in S, ~ (x <= y) PROVE FALSE
      OBVIOUS
    <2>1. y < x /\ x \in Nat /\ y \in Nat
      OBVIOUS
    <2>2. <<y, x>> \in R
      BY <2>1 DEF OpToRel
    <2> QED
      BY <1>1, <2>2
  <1> QED
    BY <1>2 DEF Min

Entry == [call : Calls, type : EntryTypes, agg : Aggs \cup {None}, ok : BOOLEAN]

LEMMA EntryIsTyped ==
  ASSUME NEW c \in Calls, NEW type \in EntryTypes, NEW agg \in Aggs \cup {None}, NEW ok \in BOOLEAN
  PROVE  EntryOf(c, type, agg, ok) \in Entry
  BY DEF EntryOf, Entry

LEMMA CmdIsTyped ==
  ASSUME NEW c \in Calls
  PROVE  /\ Cmd[c] \in Command /\ WellFormed(Cmd[c])
         /\ Cmd[c].type \in Types /\ Cmd[c].type \in EntryTypes
         /\ Cmd[c].agg \in Aggs \cup {None} /\ Cmd[c].pagg \in Aggs \cup {None}
         /\ Cmd[c].on \in Types \cup {None} /\ Cmd[c].bound \in BOOLEAN
         /\ Cmd[c].wait \in Calls \cup {None} /\ Cmd[c].reaction \in Reactions \cup {None}
         /\ Cmd[c].kind \in Kinds /\ Cmd[c].source \in Nat
  BY CallAssumption DEF Command, EntryTypes

\* What may be said of a store that a later one keeps.
StoreGrows ==
    /\ journal' \in Seq(Entry) /\ Len(journal) <= Len(journal') /\ Seqs \subseteq Seqs'
    /\ \A s \in Seqs : journal'[s] = journal[s]
    /\ \A x \in Calls : waits[x] # None => waits'[x] # None
    /\ DOMAIN queue \subseteq DOMAIN queue'

LEMMA JournalGrows ==
  ASSUME journal \in Seq(Entry), NEW entries \in Seq(Entry), journal' = journal \o entries
  PROVE  /\ journal' \in Seq(Entry) /\ Len(journal') = Len(journal) + Len(entries)
         /\ Len(journal) <= Len(journal') /\ Seqs \subseteq Seqs'
         /\ \A s \in Seqs : journal'[s] = journal[s]
         /\ \A s \in Seqs' : s \notin Seqs => s - Len(journal) \in 1 .. Len(entries)
                                               /\ journal'[s] = entries[s - Len(journal)]
  BY DEF Seqs

LEMMA SeqMonotone ==
  ASSUME NEW S, NEW T, S \subseteq T
  PROVE  Seq(S) \subseteq Seq(T)
  OBVIOUS

\* The worker keeps its locals.
Same(v) ==
    /\ pc'[v] = pc[v] /\ before'[v] = before[v] /\ tail'[v] = tail[v] /\ left'[v] = left[v]
    /\ todo'[v] = todo[v] /\ read'[v] = read[v] /\ denied'[v] = denied[v] /\ items'[v] = items[v]

LEMMA WorkKept ==
  ASSUME TypeInv, StoreGrows, NEW v \in Workers, Same(v)
  PROVE  Work(v)' /\ (v \in Calls => CallWork(v)')
  <1>1. Work(v) /\ (v \in Calls => CallWork(v))
    BY DEF TypeInv, WorkOK
  <1>2. Seqs \subseteq Seqs' /\ \A x \in Calls : waits[x] # None => waits'[x] # None
    BY DEF StoreGrows
  <1>3. Seq(Seqs) \subseteq Seq(Seqs')
    BY <1>2, SeqMonotone
  <1>4. [prior : Seq(Seqs)] \subseteq [prior : Seq(Seqs')]
    BY <1>3
  <1>5. Work(v)'
    BY <1>1, <1>2, <1>4 DEF Work, Same
  <1>6. ASSUME v \in Calls PROVE CallWork(v)'
    BY <1>1, <1>2, <1>6 DEF CallWork, Same, Blocks
  <1> QED
    BY <1>5, <1>6

(* Worker w takes a step: the others keep their locals and the store only  *)
(* grows.                                                                  *)
Frame(w) == StoreGrows /\ \A v \in Workers : v # w => Same(v)

LEMMA TypeStep ==
  ASSUME TypeInv, NEW w \in Workers, Frame(w), TypeOK', LocalTypes', Work(w)', w \in Calls => CallWork(w)', RecBatch'
  PROVE  TypeInv'
  <1>1. ASSUME NEW v \in Workers PROVE Work(v)' /\ (v \in Calls => CallWork(v)')
    BY WorkKept DEF Frame
  <1>2. Calls \subseteq Workers
    BY DEF Workers
  <1> QED
    BY <1>1, <1>2 DEF TypeInv, WorkOK

LEMMA ReadIsTyped ==
  /\ None \in Reads /\ WaitRecord \subseteq Reads /\ ReactionRecord \subseteq Reads
  /\ \A n \in Nat : [maxSeq |-> n] \in Reads
  /\ \A b \in BOOLEAN : [exists |-> b] \in Reads
  /\ \A x \in Calls : [wait |-> x] \in Reads
  /\ \A r \in Reactions, b \in BOOLEAN : [reaction |-> r, exists |-> b] \in Reads
  /\ \A p \in Seq(Nat) : [prior |-> p] \in Reads
  BY DEF Reads

LEMMA WaitRowIsTyped ==
  ASSUME NEW on \in Types \cup {None}, NEW agg \in Aggs \cup {None}, NEW bound \in BOOLEAN
  PROVE  WaitRow(on, agg, bound) \in WaitRecord /\ WaitRow(on, agg, bound) # None
  <1>1. WaitRow(on, agg, bound) \in WaitRecord
    BY DEF WaitRow, WaitRecord
  <1> QED
    BY <1>1, NoneAssumption

(* The rest of the store stays as it is when the journal grows. *)
LEMMA TypesGrow ==
  ASSUME TypeOK, StoreGrows,
         UNCHANGED <<acked, retryLater, dedup, queue, applied, proj, delivered, deferred, up>>,
         waits' \in [Calls -> WaitRecord \cup {None}], reactions' \in [Reactions -> ReactionRecord \cup {None}],
         denied' \in [Workers -> BOOLEAN],
         \A w \in Workers : left'[w] \subseteq Seqs' /\ tail'[w] \subseteq Seqs'
  PROVE  TypeOK'
  <1>1. journal' \in Seq(Entry) /\ Seqs \subseteq Seqs'
    BY DEF StoreGrows
  <1>2. proj \in [Aggs \cup {None} -> Seq(Seqs')]
    BY <1>1, SeqMonotone DEF TypeOK
  <1>3. queue \in Seq([reaction : Reactions, seq : Seqs', status : {"pending", "processing", "done"}])
    <2> DEFINE Q(S) == [reaction : Reactions, seq : S, status : {"pending", "processing", "done"}]
    <2>1. Q(Seqs) \subseteq Q(Seqs')
      BY <1>1
    <2>2. queue \in Seq(Q(Seqs))
      BY DEF TypeOK
    <2> HIDE DEF Q
    <2>3. queue \in Seq(Q(Seqs'))
      BY <2>1, <2>2, SeqMonotone
    <2> QED
      BY <2>3 DEF Q
  <1>4. dedup \subseteq Reactions \X Seqs' /\ DOMAIN delivered \subseteq dedup \cup Reactions \X Seqs'
    BY <1>1 DEF TypeOK
  <1>5. acked \subseteq Seqs' /\ retryLater \subseteq Seqs' /\ applied \subseteq Seqs'
    BY <1>1 DEF TypeOK
  <1>6. deferred' \in [Calls -> {None, Open} \cup Answer]
    BY DEF TypeOK, Open, Answer
  <1>7. up' \in {"serving", "booting"}
    BY DEF TypeOK
  <1> QED
    BY <1>1, <1>2, <1>3, <1>4, <1>5, <1>6, <1>7 DEF TypeOK, Entry

LEMMA FirstIsTyped ==
  ASSUME TypeInv, NEW w \in Workers, left[w] # {}
  PROVE  /\ Min(left[w]) \in Seqs /\ Min(left[w]) \in left[w] /\ journal[Min(left[w])] \in Entry
         /\ journal[Min(left[w])].agg \in Aggs \cup {None} /\ journal[Min(left[w])].call \in Calls
  <1>1. left[w] \subseteq Seqs /\ Seqs \subseteq Nat /\ journal \in Seq(Entry)
    BY DEF TypeInv, TypeOK, Seqs, Entry
  <1>2. Min(left[w]) \in left[w]
    BY <1>1, MinIn
  <1>3. journal[Min(left[w])] \in Entry
    BY <1>1, <1>2 DEF Seqs
  <1> QED
    BY <1>1, <1>2, <1>3 DEF Entry

LEMMA Singletons ==
  ASSUME NEW S, NEW e \in S, NEW f \in S
  PROVE  <<e>> \in Seq(S) /\ <<e, f>> \in Seq(S)
  OBVIOUS

LEMMA SeqOf ==
  ASSUME NEW S, NEW q \in Seq(S)
  PROVE  /\ \A i \in DOMAIN q : q[i] \in S
         /\ \A e \in S : Append(q, e) \in Seq(S) /\ Append(q, e) = q \o <<e>>
  OBVIOUS

LEMMA TypesKept ==
  ASSUME TypeOK, UNCHANGED <<journal, acked, retryLater, applied, waits, reactions, dedup, delivered, queue,
                             proj, deferred, up, denied>>,
         \A w \in Workers : left'[w] \subseteq Seqs /\ tail'[w] \subseteq Seqs
  PROVE  TypeOK'
  BY DEF TypeOK, Seqs

LEMMA StatusIsTyped ==
  ASSUME TypeOK, NEW is, NEW st \in {"pending", "processing", "done"}
  PROVE  /\ SetStatus(is, st) \in Seq([reaction : Reactions, seq : Seqs, status : {"pending", "processing", "done"}])
         /\ DOMAIN SetStatus(is, st) = DOMAIN queue
  <1> DEFINE Q == [reaction : Reactions, seq : Seqs, status : {"pending", "processing", "done"}]
             q == SetStatus(is, st)
  <1>1. queue \in Seq(Q)
    BY DEF TypeOK
  <1>2. DOMAIN queue = 1 .. Len(queue) /\ Len(queue) \in Nat
    BY <1>1
  <1>3. ASSUME NEW i \in 1 .. Len(queue) PROVE q[i] \in Q
    <2>1. queue[i] \in Q
      <3> HIDE DEF Q
      <3> QED
        BY <1>1, <1>2, SeqOf
    <2>2. q[i] = IF i \in is THEN [reaction |-> queue[i].reaction, seq |-> queue[i].seq, status |-> st] ELSE queue[i]
      BY <1>2 DEF SetStatus
    <2> QED
      BY <2>1, <2>2
  <1>4. q = [i \in 1 .. Len(queue) |-> q[i]]
    BY <1>2 DEF SetStatus
  <1> HIDE DEF q, Q
  <1>5. q \in Seq(Q) /\ DOMAIN q = 1 .. Len(queue)
    BY <1>2, <1>3, <1>4
  <1> QED
    BY <1>2, <1>5 DEF q, Q

LEMMA BeginTypes ==
  ASSUME TypeInv, NEW c \in Calls, Begin(c)
  PROVE  TypeInv' /\ Frame(c)
  <1>1. c \in Workers /\ TypeOK /\ LocalTypes /\ Work(c) /\ (c \in Calls => CallWork(c))
    BY DEF TypeInv, WorkOK, Workers
  <1>a. EntryOf(c, "policy.denied", None, FALSE) \in Entry
    BY <1>1, EntryIsTyped DEF EntryTypes, KernelTypes
  <1>b. PICK entries \in Seq(Entry) : journal' = journal \o entries
    <2>1. CASE UNCHANGED journal
      <3>1. journal' = journal \o << >> /\ << >> \in Seq(Entry)
        BY <1>1, <2>1 DEF TypeOK, Entry
      <3> QED
        BY <3>1
    <2>2. CASE journal' = Append(journal, EntryOf(c, "policy.denied", None, FALSE))
      <3> DEFINE e == EntryOf(c, "policy.denied", None, FALSE)
      <3>1. journal' = journal \o <<e>> /\ <<e>> \in Seq(Entry)
        <4>1. journal \in Seq(Entry)
          BY <1>1 DEF TypeOK, Entry
        <4> HIDE DEF e
        <4>2. <<e>> \in Seq(Entry) /\ Append(journal, e) = journal \o <<e>>
          BY <1>a, <4>1, Singletons, SeqOf DEF e
        <4> QED
          BY <2>2, <4>2 DEF e
      <3> QED
        BY <3>1
    <2> QED
      BY <2>1, <2>2 DEF Begin
  <1>c. /\ journal' \in Seq(Entry) /\ Len(journal) <= Len(journal') /\ Seqs \subseteq Seqs'
        /\ \A s \in Seqs : journal'[s] = journal[s]
    BY <1>1, <1>b, JournalGrows DEF TypeOK, Entry
  <1>d. waits' \in [Calls -> WaitRecord \cup {None}] /\ reactions' \in [Reactions -> ReactionRecord \cup {None}]
        /\ denied' \in [Workers -> BOOLEAN]
    BY <1>1 DEF TypeOK, Begin, Commits, Goto
  <1>e. \A x \in Calls : waits[x] # None => waits'[x] # None
    BY DEF Begin
  <1>f. UNCHANGED <<acked, retryLater, dedup, queue, applied, proj, delivered, deferred, up, crashes, throws, tail, left>>
    BY DEF Begin, control, Commits
  <1>2. \A v \in Workers : v # c => Same(v)
    BY <1>1 DEF Begin, Same, TypeOK, LocalTypes, store, control, local, Seqs, Goto, Leave, Commits, NextEntry
  <1>3. StoreGrows
    BY <1>c, <1>e, <1>f DEF StoreGrows
  <1>4. TypeOK'
    BY <1>1, <1>3, <1>c, <1>d, <1>f, TypesGrow DEF TypeOK
  <1>5. LocalTypes'
    <2>1. pc' \in [Workers -> Labels]
      BY <1>1 DEF Begin, LocalTypes, Goto, Leave, NextEntry, Commits, Labels, Before, AtEntry, Draining
    <2>2. tail' \in [Workers -> SUBSET Seqs'] /\ left' \in [Workers -> SUBSET Seqs']
      BY <1>1, <1>c DEF Begin, LocalTypes, Leave, NextEntry, store, Seqs, TypeOK
    <2>3. todo' \in [Workers -> SUBSET (Calls \cup Reactions)] /\ before' \in [Workers -> Nat]
      BY <1>1, <1>c DEF Begin, LocalTypes, Leave, TypeOK
    <2>4. read' \in [Workers -> Reads]
      BY <1>1, <1>c, ReadIsTyped DEF Begin, LocalTypes, Leave
    <2>5. items' \in [Workers -> SUBSET DOMAIN queue']
      BY <1>1, <1>c DEF Begin, LocalTypes, Leave, store
    <2>6. crashes' \in Nat /\ throws' \in Nat /\ up' = up
      BY <1>1 DEF Begin, LocalTypes, control
    <2>7. /\ pc'[Rec] \in {"done", "boot", "entry"} \cup AtEntry \cup Draining
          /\ \A d \in Calls : pc'[d] # "boot"
          /\ up = "serving" <=> pc'[Rec] = "done"
      BY <1>1, CallAssumption DEF Begin, LocalTypes, Goto, Leave, NextEntry, Commits, AtEntry, Draining, Workers
    <2> QED
      BY <2>1, <2>2, <2>3, <2>4, <2>5, <2>6, <2>7 DEF LocalTypes
  <1>6. Work(c)'
    BY <1>1 DEF Begin, store, control, local, Seqs, Goto, Leave, Commits, NextEntry, LocalTypes, Work, Labels, Before, AtEntry, Draining
  <1>7. c \in Calls => CallWork(c)'
    BY <1>1 DEF Begin, store, control, local, Seqs, Goto, Leave, Commits, NextEntry, LocalTypes, CallWork, Labels, Before, AtEntry, Draining, Blocks
  <1>8. RecBatch'
    BY <1>1, <1>2, CallAssumption DEF TypeInv, RecBatch, Same, Workers
  <1> QED
    BY <1>1, <1>2, <1>3, <1>4, <1>5, <1>6, <1>7, <1>8, TypeStep DEF Frame

LEMMA RegisterBlockWaitTypes ==
  ASSUME TypeInv, NEW c \in Calls, RegisterBlockWait(c)
  PROVE  TypeInv' /\ Frame(c)
  <1>1. c \in Workers /\ TypeOK /\ LocalTypes /\ Work(c) /\ (c \in Calls => CallWork(c))
    BY DEF TypeInv, WorkOK, Workers
  <1>a. WaitRow(Cmd[c].on, Cmd[c].pagg, TRUE) \in WaitRecord /\ WaitRow(Cmd[c].on, Cmd[c].pagg, TRUE) # None
    BY CmdIsTyped, WaitRowIsTyped
  <1>2. \A v \in Workers : v # c => Same(v)
    BY <1>1 DEF RegisterBlockWait, Same, TypeOK, LocalTypes, store, control, local, Seqs, Goto, Leave, Commits, NextEntry
  <1>3. StoreGrows
    <2>1. \A x \in Calls : waits[x] # None => waits'[x] # None
      BY <1>1, <1>a DEF RegisterBlockWait, TypeOK
    <2>2. UNCHANGED <<journal, queue>>
      BY DEF RegisterBlockWait
    <2> QED
      BY <1>1, <2>1, <2>2 DEF StoreGrows, Seqs, TypeOK, Entry
  <1>4. TypeOK'
    BY <1>1, <1>3, <1>a DEF RegisterBlockWait, store, control, local, Seqs, Goto, Leave, Commits, NextEntry, TypeOK
  <1>5. LocalTypes'
    BY <1>1 DEF RegisterBlockWait, store, control, local, Seqs, Goto, Leave, Commits, NextEntry, TypeOK, LocalTypes, Labels, Before, AtEntry, Draining, Workers
  <1>6. Work(c)'
    BY <1>1 DEF RegisterBlockWait, store, control, local, Seqs, Goto, Leave, Commits, NextEntry, LocalTypes, Work, Labels, Before, AtEntry, Draining
  <1>7. c \in Calls => CallWork(c)'
    <2>1. waits'[c] # None /\ pc'[c] = "defer" /\ Blocks(c)
      BY <1>1, <1>a DEF RegisterBlockWait, TypeOK, LocalTypes, Goto, CallWork
    <2> QED
      BY <2>1 DEF CallWork, Blocks
  <1>8. RecBatch'
    BY <1>1, <1>2, CallAssumption DEF TypeInv, RecBatch, Same, Workers
  <1> QED
    BY <1>1, <1>2, <1>3, <1>4, <1>5, <1>6, <1>7, <1>8, TypeStep DEF Frame

LEMMA RegisterDeferredTypes ==
  ASSUME TypeInv, NEW c \in Calls, RegisterDeferred(c)
  PROVE  TypeInv' /\ Frame(c)
  <1>1. c \in Workers /\ TypeOK /\ LocalTypes /\ Work(c) /\ (c \in Calls => CallWork(c))
    BY DEF TypeInv, WorkOK, Workers
  <1>2. \A v \in Workers : v # c => Same(v)
    BY <1>1 DEF RegisterDeferred, Same, TypeOK, LocalTypes, store, control, local, Seqs, Goto, Leave, Commits, NextEntry
  <1>3. StoreGrows
    BY <1>1 DEF RegisterDeferred, StoreGrows, store, control, local, Seqs, Goto, Leave, Commits, NextEntry, TypeOK, Entry
  <1>4. TypeOK'
    BY <1>1, <1>3 DEF RegisterDeferred, store, control, local, Seqs, Goto, Leave, Commits, NextEntry, TypeOK
  <1>5. LocalTypes'
    BY <1>1 DEF RegisterDeferred, store, control, local, Seqs, Goto, Leave, Commits, NextEntry, TypeOK, LocalTypes, Labels, Before, AtEntry, Draining, Workers
  <1>6. Work(c)'
    BY <1>1 DEF RegisterDeferred, store, control, local, Seqs, Goto, Leave, Commits, NextEntry, LocalTypes, Work, Labels, Before, AtEntry, Draining
  <1>7. c \in Calls => CallWork(c)'
    BY <1>1 DEF RegisterDeferred, store, control, local, Seqs, Goto, Leave, Commits, NextEntry, LocalTypes, CallWork, Labels, Before, AtEntry, Draining, Blocks
  <1>8. RecBatch'
    BY <1>1, <1>2, CallAssumption DEF TypeInv, RecBatch, Same, Workers
  <1> QED
    BY <1>1, <1>2, <1>3, <1>4, <1>5, <1>6, <1>7, <1>8, TypeStep DEF Frame

LEMMA ReadMaxSeqTypes ==
  ASSUME TypeInv, NEW c \in Calls, ReadMaxSeq(c)
  PROVE  TypeInv' /\ Frame(c)
  <1>1. c \in Workers /\ TypeOK /\ LocalTypes /\ Work(c) /\ (c \in Calls => CallWork(c))
    BY DEF TypeInv, WorkOK, Workers
  <1>2. \A v \in Workers : v # c => Same(v)
    BY <1>1 DEF ReadMaxSeq, Same, TypeOK, LocalTypes, store, control, local, Seqs, Goto, Leave, Commits, NextEntry
  <1>3. StoreGrows
    BY <1>1 DEF ReadMaxSeq, StoreGrows, store, control, local, Seqs, Goto, Leave, Commits, NextEntry, TypeOK, Entry
  <1>4. TypeOK'
    BY <1>1, <1>3 DEF ReadMaxSeq, store, control, local, Seqs, Goto, Leave, Commits, NextEntry, TypeOK
  <1>5. LocalTypes'
    BY <1>1 DEF ReadMaxSeq, store, control, local, Seqs, Goto, Leave, Commits, NextEntry, TypeOK, LocalTypes, Labels, Before, AtEntry, Draining, Workers
  <1>6. Work(c)'
    BY <1>1 DEF ReadMaxSeq, store, control, local, Seqs, Goto, Leave, Commits, NextEntry, LocalTypes, Work, Labels, Before, AtEntry, Draining
  <1>7. c \in Calls => CallWork(c)'
    BY <1>1, CmdIsTyped DEF ReadMaxSeq, store, control, local, Seqs, Goto, Leave, Commits, NextEntry, LocalTypes, CallWork, Labels, Before, AtEntry, Draining, Blocks, Kinds
  <1>8. RecBatch'
    BY <1>1, <1>2, CallAssumption DEF TypeInv, RecBatch, Same, Workers
  <1> QED
    BY <1>1, <1>2, <1>3, <1>4, <1>5, <1>6, <1>7, <1>8, TypeStep DEF Frame

LEMMA LoadTypes ==
  ASSUME TypeInv, NEW c \in Calls, Load(c)
  PROVE  TypeInv' /\ Frame(c)
  <1>1. c \in Workers /\ TypeOK /\ LocalTypes /\ Work(c) /\ (c \in Calls => CallWork(c))
    BY DEF TypeInv, WorkOK, Workers
  <1>a. read'[c] \in Reads /\ read' \in [Workers -> Reads]
    <2>1. Cmd[c].kind = "wait.cancel" => waits[Cmd[c].wait] \in WaitRecord \cup {None}
      BY <1>1, CmdIsTyped DEF TypeOK, WellFormed
    <2>2. Cmd[c].kind \in {"reaction.disable", "reaction.replay"} => reactions[Cmd[c].reaction] \in ReactionRecord \cup {None}
      BY <1>1, CmdIsTyped DEF TypeOK, WellFormed
    <2>3. [maxSeq |-> Len(journal)] \in Reads
      BY <1>1, ReadIsTyped DEF TypeOK
    <2> QED
      BY <1>1, <2>1, <2>2, <2>3, ReadIsTyped DEF Load, LocalTypes
  <1>b. UNCHANGED <<store, delivered, deferred, control, before, tail, left, todo, denied, items>>
    BY DEF Load
  <1>2. \A v \in Workers : v # c => Same(v)
    BY <1>1 DEF Load, Same, TypeOK, LocalTypes, store, control, local, Seqs, Goto, Leave, Commits, NextEntry
  <1>3. StoreGrows
    BY <1>1 DEF Load, StoreGrows, store, control, local, Seqs, Goto, Leave, Commits, NextEntry, TypeOK, Entry
  <1>4. TypeOK'
    BY <1>1, <1>3 DEF Load, store, control, local, Seqs, Goto, Leave, Commits, NextEntry, TypeOK
  <1>5. LocalTypes'
    BY <1>1, <1>a, <1>b DEF Load, Goto, LocalTypes, Labels, Before, AtEntry, Draining, Workers, control, store, Seqs
  <1>6. Work(c)'
    BY <1>1 DEF Load, store, control, local, Seqs, Goto, Leave, Commits, NextEntry, LocalTypes, Work, Labels, Before, AtEntry, Draining
  <1>7. c \in Calls => CallWork(c)'
    <2>1. Cmd[c].kind = "wait.cancel" => waits[Cmd[c].wait] \in WaitRecord \cup {None}
      BY <1>1, CmdIsTyped DEF TypeOK, WellFormed
    <2>2. Cmd[c].kind \in {"reaction.disable", "reaction.replay"} => reactions[Cmd[c].reaction] \in ReactionRecord \cup {None}
      BY <1>1, CmdIsTyped DEF TypeOK, WellFormed
    <2>3. [maxSeq |-> Len(journal)] \in [maxSeq : Nat]
      BY <1>1 DEF TypeOK
    <2>4. pc'[c] \in {"replay", "disable", "commit"} /\ (pc'[c] = "replay" => Cmd[c].kind = "reaction.replay")
          /\ (pc'[c] = "disable" => Cmd[c].kind = "reaction.disable")
      BY <1>1 DEF Load, Goto, LocalTypes
    <2>5. /\ Cmd[c].kind = "wait.cancel" => read'[c] = waits[Cmd[c].wait]
          /\ Cmd[c].kind = "reaction.disable" => read'[c] = reactions[Cmd[c].reaction]
          /\ Cmd[c].kind = "reaction.register" => read'[c] = [maxSeq |-> Len(journal)]
      BY <1>1 DEF Load, LocalTypes
    <2>6. waits' = waits /\ pc[c] = "load" /\ Seqs' = Seqs
      BY DEF Load, store, Seqs
    <2> QED
      BY <1>1, <2>1, <2>2, <2>3, <2>4, <2>5, <2>6 DEF CallWork, Blocks
  <1>8. RecBatch'
    BY <1>1, <1>2, CallAssumption DEF TypeInv, RecBatch, Same, Workers
  <1> QED
    BY <1>1, <1>2, <1>3, <1>4, <1>5, <1>6, <1>7, <1>8, TypeStep DEF Frame

LEMMA DisableReactionTypes ==
  ASSUME TypeInv, NEW c \in Calls, DisableReaction(c)
  PROVE  TypeInv' /\ Frame(c)
  <1>1. c \in Workers /\ TypeOK /\ LocalTypes /\ Work(c) /\ (c \in Calls => CallWork(c))
    BY DEF TypeInv, WorkOK, Workers
  <1>a. read[c] # None => Cmd[c].reaction \in Reactions /\ [enabled |-> FALSE, since |-> read[c].since] \in ReactionRecord
    BY <1>1, CmdIsTyped DEF DisableReaction, CallWork, WellFormed, ReactionRecord
  <1>2. \A v \in Workers : v # c => Same(v)
    BY <1>1 DEF DisableReaction, Same, TypeOK, LocalTypes, store, control, local, Seqs, Goto, Leave, Commits, NextEntry
  <1>3. StoreGrows
    BY <1>1 DEF DisableReaction, StoreGrows, store, control, local, Seqs, Goto, Leave, Commits, NextEntry, TypeOK, Entry
  <1>4. TypeOK'
    BY <1>1, <1>3, <1>a DEF DisableReaction, store, control, local, Seqs, Goto, Leave, Commits, NextEntry, TypeOK
  <1>5. LocalTypes'
    BY <1>1 DEF DisableReaction, store, control, local, Seqs, Goto, Leave, Commits, NextEntry, TypeOK, LocalTypes, Labels, Before, AtEntry, Draining, Workers
  <1>6. Work(c)'
    BY <1>1 DEF DisableReaction, store, control, local, Seqs, Goto, Leave, Commits, NextEntry, LocalTypes, Work, Labels, Before, AtEntry, Draining
  <1>7. c \in Calls => CallWork(c)'
    BY <1>1 DEF DisableReaction, store, control, local, Seqs, Goto, Leave, Commits, NextEntry, LocalTypes, CallWork, Labels, Before, AtEntry, Draining, Blocks
  <1>8. RecBatch'
    BY <1>1, <1>2, CallAssumption DEF TypeInv, RecBatch, Same, Workers
  <1> QED
    BY <1>1, <1>2, <1>3, <1>4, <1>5, <1>6, <1>7, <1>8, TypeStep DEF Frame

LEMMA CommitEntryTypes ==
  ASSUME TypeInv, NEW c \in Calls, CommitEntry(c)
  PROVE  TypeInv' /\ Frame(c)
  <1>1. c \in Workers /\ TypeOK /\ LocalTypes /\ Work(c) /\ (c \in Calls => CallWork(c))
    BY DEF TypeInv, WorkOK, Workers
  <1>a. EntryOf(c, Cmd[c].type, Cmd[c].agg, TRUE) \in Entry /\ EntryOf(c, "denied", Cmd[c].agg, FALSE) \in Entry
    BY <1>1, CmdIsTyped, EntryIsTyped DEF EntryTypes, KernelTypes
  <1>b. PICK entries \in Seq(Entry) : journal' = journal \o entries
    BY <1>a, Singletons DEF CommitEntry, Commits
  <1>c. /\ journal' \in Seq(Entry) /\ Len(journal) <= Len(journal') /\ Seqs \subseteq Seqs'
        /\ \A s \in Seqs : journal'[s] = journal[s]
    BY <1>1, <1>b, JournalGrows DEF TypeOK, Entry
  <1>d. waits' \in [Calls -> WaitRecord \cup {None}] /\ reactions' \in [Reactions -> ReactionRecord \cup {None}]
        /\ denied' \in [Workers -> BOOLEAN]
    BY <1>1 DEF TypeOK, CommitEntry, Commits, Goto
  <1>e. \A x \in Calls : waits[x] # None => waits'[x] # None
    BY DEF CommitEntry
  <1>f. UNCHANGED <<acked, retryLater, dedup, queue, applied, proj, delivered, deferred, up, crashes, throws, tail, left>>
    BY DEF CommitEntry, control, Commits
  <1>2. \A v \in Workers : v # c => Same(v)
    BY <1>1 DEF CommitEntry, Same, TypeOK, LocalTypes, store, control, local, Seqs, Goto, Leave, Commits, NextEntry
  <1>3. StoreGrows
    BY <1>c, <1>e, <1>f DEF StoreGrows
  <1>4. TypeOK'
    BY <1>1, <1>3, <1>c, <1>d, <1>f, TypesGrow DEF TypeOK
  <1>5. LocalTypes'
    <2>1. pc' \in [Workers -> Labels]
      BY <1>1 DEF CommitEntry, LocalTypes, Goto, Leave, NextEntry, Commits, Labels, Before, AtEntry, Draining
    <2>2. tail' \in [Workers -> SUBSET Seqs'] /\ left' \in [Workers -> SUBSET Seqs']
      BY <1>1, <1>c DEF CommitEntry, LocalTypes, Leave, NextEntry, store, Seqs, TypeOK
    <2>3. todo' \in [Workers -> SUBSET (Calls \cup Reactions)] /\ before' \in [Workers -> Nat]
      BY <1>1, <1>c DEF CommitEntry, LocalTypes, Leave, TypeOK
    <2>4. read' \in [Workers -> Reads]
      BY <1>1, <1>c, ReadIsTyped DEF CommitEntry, LocalTypes, Leave
    <2>5. items' \in [Workers -> SUBSET DOMAIN queue']
      BY <1>1, <1>c DEF CommitEntry, LocalTypes, Leave, store
    <2>6. crashes' \in Nat /\ throws' \in Nat /\ up' = up
      BY <1>1 DEF CommitEntry, LocalTypes, control
    <2>7. /\ pc'[Rec] \in {"done", "boot", "entry"} \cup AtEntry \cup Draining
          /\ \A d \in Calls : pc'[d] # "boot"
          /\ up = "serving" <=> pc'[Rec] = "done"
      BY <1>1, CallAssumption DEF CommitEntry, LocalTypes, Goto, Leave, NextEntry, Commits, AtEntry, Draining, Workers
    <2> QED
      BY <2>1, <2>2, <2>3, <2>4, <2>5, <2>6, <2>7 DEF LocalTypes
  <1>6. Work(c)'
    BY <1>1 DEF CommitEntry, store, control, local, Seqs, Goto, Leave, Commits, NextEntry, LocalTypes, Work, Labels, Before, AtEntry, Draining
  <1>7. c \in Calls => CallWork(c)'
    BY <1>1 DEF CommitEntry, store, control, local, Seqs, Goto, Leave, Commits, NextEntry, LocalTypes, CallWork, Labels, Before, AtEntry, Draining, Blocks
  <1>8. RecBatch'
    BY <1>1, <1>2, CallAssumption DEF TypeInv, RecBatch, Same, Workers
  <1> QED
    BY <1>1, <1>2, <1>3, <1>4, <1>5, <1>6, <1>7, <1>8, TypeStep DEF Frame

LEMMA CommitThrowsTypes ==
  ASSUME TypeInv, NEW c \in Calls, CommitThrows(c)
  PROVE  TypeInv' /\ Frame(c)
  <1>1. c \in Workers /\ TypeOK /\ LocalTypes /\ Work(c) /\ (c \in Calls => CallWork(c))
    BY DEF TypeInv, WorkOK, Workers
  <1>2. \A v \in Workers : v # c => Same(v)
    BY <1>1 DEF CommitThrows, Same, TypeOK, LocalTypes, store, control, local, Seqs, Goto, Leave, Commits, NextEntry
  <1>3. StoreGrows
    BY <1>1 DEF CommitThrows, StoreGrows, store, control, local, Seqs, Goto, Leave, Commits, NextEntry, TypeOK, Entry
  <1>4. TypeOK'
    BY <1>1, <1>3 DEF CommitThrows, store, control, local, Seqs, Goto, Leave, Commits, NextEntry, TypeOK
  <1>5. LocalTypes'
    BY <1>1, ReadIsTyped, BoundAssumption DEF CommitThrows, store, control, local, Seqs, Goto, Leave, Commits, NextEntry, TypeOK, LocalTypes, Labels, Before, AtEntry, Draining, Workers
  <1>6. Work(c)'
    BY <1>1 DEF CommitThrows, store, control, local, Seqs, Goto, Leave, Commits, NextEntry, LocalTypes, Work, Labels, Before, AtEntry, Draining
  <1>7. c \in Calls => CallWork(c)'
    BY <1>1 DEF CommitThrows, store, control, local, Seqs, Goto, Leave, Commits, NextEntry, LocalTypes, CallWork, Labels, Before, AtEntry, Draining, Blocks
  <1>8. RecBatch'
    BY <1>1, <1>2, CallAssumption DEF TypeInv, RecBatch, Same, Workers
  <1> QED
    BY <1>1, <1>2, <1>3, <1>4, <1>5, <1>6, <1>7, <1>8, TypeStep DEF Frame

LEMMA CommitWaitRegisterTypes ==
  ASSUME TypeInv, NEW c \in Calls, CommitWaitRegister(c)
  PROVE  TypeInv' /\ Frame(c)
  <1>1. c \in Workers /\ TypeOK /\ LocalTypes /\ Work(c) /\ (c \in Calls => CallWork(c))
    BY DEF TypeInv, WorkOK, Workers
  <1>a. EntryOf(c, "wait.registered", Cmd[c].agg, TRUE) \in Entry
    BY <1>1, CmdIsTyped, EntryIsTyped DEF EntryTypes, KernelTypes
  <1>b. PICK entries \in Seq(Entry) : journal' = journal \o entries
    BY <1>a, Singletons DEF CommitWaitRegister, Commits
  <1>c. /\ journal' \in Seq(Entry) /\ Len(journal) <= Len(journal') /\ Seqs \subseteq Seqs'
        /\ \A s \in Seqs : journal'[s] = journal[s]
    BY <1>1, <1>b, JournalGrows DEF TypeOK, Entry
  <1>d. waits' \in [Calls -> WaitRecord \cup {None}] /\ reactions' \in [Reactions -> ReactionRecord \cup {None}]
        /\ denied' \in [Workers -> BOOLEAN]
    BY <1>1, CmdIsTyped, WaitRowIsTyped DEF TypeOK, CommitWaitRegister, Commits, Goto
  <1>e. \A x \in Calls : waits[x] # None => waits'[x] # None
    BY <1>1, CmdIsTyped, WaitRowIsTyped DEF TypeOK, CommitWaitRegister
  <1>f. UNCHANGED <<acked, retryLater, dedup, queue, applied, proj, delivered, deferred, up, crashes, throws, tail, left>>
    BY DEF CommitWaitRegister, control, Commits
  <1>2. \A v \in Workers : v # c => Same(v)
    BY <1>1 DEF CommitWaitRegister, Same, TypeOK, LocalTypes, store, control, local, Seqs, Goto, Leave, Commits, NextEntry
  <1>3. StoreGrows
    BY <1>c, <1>e, <1>f DEF StoreGrows
  <1>4. TypeOK'
    BY <1>1, <1>3, <1>c, <1>d, <1>f, TypesGrow DEF TypeOK
  <1>5. LocalTypes'
    BY <1>1, <1>c, <1>f DEF CommitWaitRegister, LocalTypes, Goto, Commits, Labels, Before, AtEntry, Draining, Workers, Reads
  <1>6. Work(c)'
    BY <1>1 DEF CommitWaitRegister, store, control, local, Seqs, Goto, Leave, Commits, NextEntry, LocalTypes, Work, Labels, Before, AtEntry, Draining
  <1>7. c \in Calls => CallWork(c)'
    BY <1>1 DEF CommitWaitRegister, store, control, local, Seqs, Goto, Leave, Commits, NextEntry, LocalTypes, CallWork, Labels, Before, AtEntry, Draining, Blocks
  <1>8. RecBatch'
    BY <1>1, <1>2, CallAssumption DEF TypeInv, RecBatch, Same, Workers
  <1> QED
    BY <1>1, <1>2, <1>3, <1>4, <1>5, <1>6, <1>7, <1>8, TypeStep DEF Frame

LEMMA CommitWaitCancelTypes ==
  ASSUME TypeInv, NEW c \in Calls, CommitWaitCancel(c)
  PROVE  TypeInv' /\ Frame(c)
  <1>1. c \in Workers /\ TypeOK /\ LocalTypes /\ Work(c) /\ (c \in Calls => CallWork(c))
    BY DEF TypeInv, WorkOK, Workers
  <1>a. EntryOf(c, "wait.cancelled", None, TRUE) \in Entry
    BY <1>1, CmdIsTyped, EntryIsTyped DEF EntryTypes, KernelTypes
  <1>b. PICK entries \in Seq(Entry) : journal' = journal \o entries
    <2>1. CASE UNCHANGED journal
      <3>1. journal' = journal \o << >> /\ << >> \in Seq(Entry)
        BY <1>1, <2>1 DEF TypeOK, Entry
      <3> QED
        BY <3>1
    <2>2. CASE journal' = journal \o <<EntryOf(c, "wait.cancelled", None, TRUE)>>
      BY <1>a, <2>2, Singletons
    <2> QED
      BY <2>1, <2>2 DEF CommitWaitCancel, Commits
  <1>c. /\ journal' \in Seq(Entry) /\ Len(journal) <= Len(journal') /\ Seqs \subseteq Seqs'
        /\ \A s \in Seqs : journal'[s] = journal[s]
    BY <1>1, <1>b, JournalGrows DEF TypeOK, Entry
  <1>d. read[c] # None => Cmd[c].wait \in Calls /\ read[c] \in WaitRecord /\
        [status |-> "cancelled", on |-> read[c].on, agg |-> read[c].agg, bound |-> read[c].bound] \in WaitRecord
    BY <1>1, CmdIsTyped, NoneAssumption DEF CommitWaitCancel, CallWork, WellFormed, WaitRecord
  <1>e. waits' \in [Calls -> WaitRecord \cup {None}] /\ reactions' \in [Reactions -> ReactionRecord \cup {None}]
        /\ denied' \in [Workers -> BOOLEAN]
    BY <1>1, <1>d DEF TypeOK, CommitWaitCancel, Commits, Goto
  <1>f. \A x \in Calls : waits[x] # None => waits'[x] # None
    BY <1>1, <1>d, NoneAssumption DEF TypeOK, CommitWaitCancel, Commits
  <1>g. UNCHANGED <<acked, retryLater, dedup, queue, applied, proj, delivered, deferred, up, crashes, throws, tail, left>>
    BY DEF CommitWaitCancel, control, Commits
  <1>2. \A v \in Workers : v # c => Same(v)
    BY <1>1 DEF CommitWaitCancel, Same, TypeOK, LocalTypes, store, control, local, Seqs, Goto, Leave, Commits, NextEntry
  <1>3. StoreGrows
    BY <1>c, <1>f, <1>g DEF StoreGrows
  <1>4. TypeOK'
    BY <1>1, <1>3, <1>c, <1>e, <1>g, TypesGrow DEF TypeOK
  <1>5. LocalTypes'
    BY <1>1, <1>c, <1>g DEF CommitWaitCancel, LocalTypes, Goto, Commits, Labels, Before, AtEntry, Draining, Workers
  <1>6. Work(c)'
    BY <1>1 DEF CommitWaitCancel, store, control, local, Seqs, Goto, Leave, Commits, NextEntry, LocalTypes, Work, Labels, Before, AtEntry, Draining
  <1>7. c \in Calls => CallWork(c)'
    BY <1>1 DEF CommitWaitCancel, store, control, local, Seqs, Goto, Leave, Commits, NextEntry, LocalTypes, CallWork, Labels, Before, AtEntry, Draining, Blocks
  <1>8. RecBatch'
    BY <1>1, <1>2, CallAssumption DEF TypeInv, RecBatch, Same, Workers
  <1> QED
    BY <1>1, <1>2, <1>3, <1>4, <1>5, <1>6, <1>7, <1>8, TypeStep DEF Frame

LEMMA CommitReactionRegisterTypes ==
  ASSUME TypeInv, NEW c \in Calls, CommitReactionRegister(c)
  PROVE  TypeInv' /\ Frame(c)
  <1>1. c \in Workers /\ TypeOK /\ LocalTypes /\ Work(c) /\ (c \in Calls => CallWork(c))
    BY DEF TypeInv, WorkOK, Workers
  <1>a. EntryOf(c, "reaction.registered", None, TRUE) \in Entry
    BY <1>1, CmdIsTyped, EntryIsTyped DEF EntryTypes, KernelTypes
  <1>b. PICK entries \in Seq(Entry) : journal' = journal \o entries
    BY <1>a, Singletons DEF CommitReactionRegister, Commits
  <1>c. /\ journal' \in Seq(Entry) /\ Len(journal) <= Len(journal') /\ Seqs \subseteq Seqs'
        /\ \A s \in Seqs : journal'[s] = journal[s]
    BY <1>1, <1>b, JournalGrows DEF TypeOK, Entry
  <1>d. Cmd[c].reaction \in Reactions /\ [enabled |-> TRUE, since |-> read[c].maxSeq + 1] \in ReactionRecord
    BY <1>1, CmdIsTyped DEF CommitReactionRegister, CallWork, WellFormed, ReactionRecord
  <1>e. waits' \in [Calls -> WaitRecord \cup {None}] /\ reactions' \in [Reactions -> ReactionRecord \cup {None}]
        /\ denied' \in [Workers -> BOOLEAN]
    BY <1>1, <1>d DEF TypeOK, CommitReactionRegister, Commits, Goto
  <1>f. \A x \in Calls : waits[x] # None => waits'[x] # None
    BY DEF CommitReactionRegister
  <1>g. UNCHANGED <<acked, retryLater, dedup, queue, applied, proj, delivered, deferred, up, crashes, throws, tail, left>>
    BY DEF CommitReactionRegister, control, Commits
  <1>2. \A v \in Workers : v # c => Same(v)
    BY <1>1 DEF CommitReactionRegister, Same, TypeOK, LocalTypes, store, control, local, Seqs, Goto, Leave, Commits, NextEntry
  <1>3. StoreGrows
    BY <1>c, <1>f, <1>g DEF StoreGrows
  <1>4. TypeOK'
    BY <1>1, <1>3, <1>c, <1>e, <1>g, TypesGrow DEF TypeOK
  <1>5. LocalTypes'
    BY <1>1, <1>c, <1>g DEF CommitReactionRegister, LocalTypes, Goto, Commits, Labels, Before, AtEntry, Draining, Workers, Reads
  <1>6. Work(c)'
    BY <1>1 DEF CommitReactionRegister, store, control, local, Seqs, Goto, Leave, Commits, NextEntry, LocalTypes, Work, Labels, Before, AtEntry, Draining
  <1>7. c \in Calls => CallWork(c)'
    BY <1>1 DEF CommitReactionRegister, store, control, local, Seqs, Goto, Leave, Commits, NextEntry, LocalTypes, CallWork, Labels, Before, AtEntry, Draining, Blocks
  <1>8. RecBatch'
    BY <1>1, <1>2, CallAssumption DEF TypeInv, RecBatch, Same, Workers
  <1> QED
    BY <1>1, <1>2, <1>3, <1>4, <1>5, <1>6, <1>7, <1>8, TypeStep DEF Frame

LEMMA CommitReactionDisableTypes ==
  ASSUME TypeInv, NEW c \in Calls, CommitReactionDisable(c)
  PROVE  TypeInv' /\ Frame(c)
  <1>1. c \in Workers /\ TypeOK /\ LocalTypes /\ Work(c) /\ (c \in Calls => CallWork(c))
    BY DEF TypeInv, WorkOK, Workers
  <1>a. EntryOf(c, "reaction.disabled", None, TRUE) \in Entry
    BY <1>1, CmdIsTyped, EntryIsTyped DEF EntryTypes, KernelTypes
  <1>b. PICK entries \in Seq(Entry) : journal' = journal \o entries
    BY <1>a, Singletons DEF CommitReactionDisable, Commits
  <1>c. /\ journal' \in Seq(Entry) /\ Len(journal) <= Len(journal') /\ Seqs \subseteq Seqs'
        /\ \A s \in Seqs : journal'[s] = journal[s]
    BY <1>1, <1>b, JournalGrows DEF TypeOK, Entry
  <1>d. waits' \in [Calls -> WaitRecord \cup {None}] /\ reactions' \in [Reactions -> ReactionRecord \cup {None}]
        /\ denied' \in [Workers -> BOOLEAN]
    BY <1>1 DEF TypeOK, CommitReactionDisable, Commits, Goto
  <1>e. \A x \in Calls : waits[x] # None => waits'[x] # None
    BY DEF CommitReactionDisable
  <1>f. UNCHANGED <<acked, retryLater, dedup, queue, applied, proj, delivered, deferred, up, crashes, throws, tail, left>>
    BY DEF CommitReactionDisable, control, Commits
  <1>2. \A v \in Workers : v # c => Same(v)
    BY <1>1 DEF CommitReactionDisable, Same, TypeOK, LocalTypes, store, control, local, Seqs, Goto, Leave, Commits, NextEntry
  <1>3. StoreGrows
    BY <1>c, <1>e, <1>f DEF StoreGrows
  <1>4. TypeOK'
    BY <1>1, <1>3, <1>c, <1>d, <1>f, TypesGrow DEF TypeOK
  <1>5. LocalTypes'
    BY <1>1, <1>c, <1>f DEF CommitReactionDisable, LocalTypes, Goto, Commits, Labels, Before, AtEntry, Draining, Workers, Reads
  <1>6. Work(c)'
    BY <1>1 DEF CommitReactionDisable, store, control, local, Seqs, Goto, Leave, Commits, NextEntry, LocalTypes, Work, Labels, Before, AtEntry, Draining
  <1>7. c \in Calls => CallWork(c)'
    BY <1>1 DEF CommitReactionDisable, store, control, local, Seqs, Goto, Leave, Commits, NextEntry, LocalTypes, CallWork, Labels, Before, AtEntry, Draining, Blocks
  <1>8. RecBatch'
    BY <1>1, <1>2, CallAssumption DEF TypeInv, RecBatch, Same, Workers
  <1> QED
    BY <1>1, <1>2, <1>3, <1>4, <1>5, <1>6, <1>7, <1>8, TypeStep DEF Frame

LEMMA ReplayTypes ==
  ASSUME TypeInv, NEW c \in Calls, Replay(c)
  PROVE  TypeInv' /\ Frame(c)
  <1>1. c \in Workers /\ TypeOK /\ LocalTypes /\ Work(c) /\ (c \in Calls => CallWork(c))
    BY DEF TypeInv, WorkOK, Workers
  <1>a. (<<Cmd[c].reaction, Cmd[c].source>> \in dedup) \in BOOLEAN
    OBVIOUS
  <1>2. \A v \in Workers : v # c => Same(v)
    BY <1>1 DEF Replay, Same, TypeOK, LocalTypes, store, control, local, Seqs, Goto, Leave, Commits, NextEntry
  <1>3. StoreGrows
    BY <1>1 DEF Replay, StoreGrows, store, control, local, Seqs, Goto, Leave, Commits, NextEntry, TypeOK, Entry
  <1>4. TypeOK'
    BY <1>1, <1>3 DEF Replay, store, control, local, Seqs, Goto, Leave, Commits, NextEntry, TypeOK
  <1>5. LocalTypes'
    BY <1>1, <1>a, ReadIsTyped DEF Replay, store, control, local, Seqs, Goto, Leave, Commits, NextEntry, TypeOK, LocalTypes, Labels, Before, AtEntry, Draining, Workers
  <1>6. Work(c)'
    BY <1>1 DEF Replay, store, control, local, Seqs, Goto, Leave, Commits, NextEntry, LocalTypes, Work, Labels, Before, AtEntry, Draining
  <1>7. c \in Calls => CallWork(c)'
    BY <1>1 DEF Replay, store, control, local, Seqs, Goto, Leave, Commits, NextEntry, LocalTypes, CallWork, Labels, Before, AtEntry, Draining, Blocks
  <1>8. RecBatch'
    BY <1>1, <1>2, CallAssumption DEF TypeInv, RecBatch, Same, Workers
  <1> QED
    BY <1>1, <1>2, <1>3, <1>4, <1>5, <1>6, <1>7, <1>8, TypeStep DEF Frame

LEMMA ReplayDedupTypes ==
  ASSUME TypeInv, NEW c \in Calls, ReplayDedup(c)
  PROVE  TypeInv' /\ Frame(c)
  <1>1. c \in Workers /\ TypeOK /\ LocalTypes /\ Work(c) /\ (c \in Calls => CallWork(c))
    BY DEF TypeInv, WorkOK, Workers
  <1>a. Cmd[c].reaction \in Reactions /\ <<Cmd[c].reaction, Cmd[c].source>> \in Reactions \X Seqs
    BY <1>1, CmdIsTyped DEF ReplayDedup, CallWork, WellFormed
  <1>2. \A v \in Workers : v # c => Same(v)
    BY <1>1 DEF ReplayDedup, Same, TypeOK, LocalTypes, store, control, local, Seqs, Goto, Leave, Commits, NextEntry
  <1>3. StoreGrows
    BY <1>1 DEF ReplayDedup, StoreGrows, store, control, local, Seqs, Goto, Leave, Commits, NextEntry, TypeOK, Entry
  <1>4. TypeOK'
    BY <1>1, <1>3, <1>a DEF ReplayDedup, store, control, local, Seqs, Goto, Leave, Commits, NextEntry, TypeOK, SideEffect
  <1>5. LocalTypes'
    BY <1>1 DEF ReplayDedup, store, control, local, Seqs, Goto, Leave, Commits, NextEntry, TypeOK, LocalTypes, Labels, Before, AtEntry, Draining, Workers
  <1>6. Work(c)'
    BY <1>1 DEF ReplayDedup, store, control, local, Seqs, Goto, Leave, Commits, NextEntry, LocalTypes, Work, Labels, Before, AtEntry, Draining
  <1>7. c \in Calls => CallWork(c)'
    BY <1>1 DEF ReplayDedup, store, control, local, Seqs, Goto, Leave, Commits, NextEntry, LocalTypes, CallWork, Labels, Before, AtEntry, Draining, Blocks
  <1>8. RecBatch'
    BY <1>1, <1>2, CallAssumption DEF TypeInv, RecBatch, Same, Workers
  <1> QED
    BY <1>1, <1>2, <1>3, <1>4, <1>5, <1>6, <1>7, <1>8, TypeStep DEF Frame

LEMMA ReplayInvokeTypes ==
  ASSUME TypeInv, NEW c \in Calls, ReplayInvoke(c)
  PROVE  TypeInv' /\ Frame(c)
  <1>1. c \in Workers /\ TypeOK /\ LocalTypes /\ Work(c) /\ (c \in Calls => CallWork(c))
    BY DEF TypeInv, WorkOK, Workers
  <1>a. Cmd[c].reaction \in Reactions /\ <<Cmd[c].reaction, Cmd[c].source>> \in Reactions \X Seqs
    BY <1>1, CmdIsTyped DEF ReplayInvoke, CallWork, WellFormed
  <1>2. \A v \in Workers : v # c => Same(v)
    BY <1>1 DEF ReplayInvoke, Same, TypeOK, LocalTypes, store, control, local, Seqs, Goto, Leave, Commits, NextEntry
  <1>3. StoreGrows
    BY <1>1 DEF ReplayInvoke, StoreGrows, store, control, local, Seqs, Goto, Leave, Commits, NextEntry, TypeOK, Entry
  <1>4. TypeOK'
    BY <1>1, <1>3, <1>a DEF ReplayInvoke, store, control, local, Seqs, Goto, Leave, Commits, NextEntry, TypeOK, SideEffect
  <1>5. LocalTypes'
    BY <1>1 DEF ReplayInvoke, store, control, local, Seqs, Goto, Leave, Commits, NextEntry, TypeOK, LocalTypes, Labels, Before, AtEntry, Draining, Workers
  <1>6. Work(c)'
    BY <1>1 DEF ReplayInvoke, store, control, local, Seqs, Goto, Leave, Commits, NextEntry, LocalTypes, Work, Labels, Before, AtEntry, Draining
  <1>7. c \in Calls => CallWork(c)'
    BY <1>1 DEF ReplayInvoke, store, control, local, Seqs, Goto, Leave, Commits, NextEntry, LocalTypes, CallWork, Labels, Before, AtEntry, Draining, Blocks
  <1>8. RecBatch'
    BY <1>1, <1>2, CallAssumption DEF TypeInv, RecBatch, Same, Workers
  <1> QED
    BY <1>1, <1>2, <1>3, <1>4, <1>5, <1>6, <1>7, <1>8, TypeStep DEF Frame

LEMMA TailJournalTypes ==
  ASSUME TypeInv, NEW c \in Calls, TailJournal(c)
  PROVE  TypeInv' /\ Frame(c)
  <1>1. c \in Workers /\ TypeOK /\ LocalTypes /\ Work(c) /\ (c \in Calls => CallWork(c))
    BY DEF TypeInv, WorkOK, Workers
  <1>a. SeqsAfter(before[c]) \subseteq Seqs
    BY DEF SeqsAfter
  <1>2. \A v \in Workers : v # c => Same(v)
    BY <1>1 DEF TailJournal, Same, TypeOK, LocalTypes, store, control, local, Seqs, Goto, Leave, Commits, NextEntry
  <1>3. StoreGrows
    BY <1>1 DEF TailJournal, StoreGrows, store, control, local, Seqs, Goto, Leave, Commits, NextEntry, TypeOK, Entry
  <1>4. TypeOK'
    BY <1>1, <1>3, <1>a DEF TailJournal, store, control, local, Seqs, Goto, Leave, Commits, NextEntry, TypeOK
  <1>5. LocalTypes'
    BY <1>1, <1>a DEF TailJournal, store, control, local, Seqs, Goto, Leave, Commits, NextEntry, TypeOK, LocalTypes, Labels, Before, AtEntry, Draining, Workers
  <1>6. Work(c)'
    BY <1>1 DEF TailJournal, store, control, local, Seqs, Goto, Leave, Commits, NextEntry, LocalTypes, Work, Labels, Before, AtEntry, Draining
  <1>7. c \in Calls => CallWork(c)'
    BY <1>1 DEF TailJournal, store, control, local, Seqs, Goto, Leave, Commits, NextEntry, LocalTypes, CallWork, Labels, Before, AtEntry, Draining, Blocks
  <1>8. RecBatch'
    BY <1>1, <1>2, CallAssumption DEF TypeInv, RecBatch, Same, Workers
  <1> QED
    BY <1>1, <1>2, <1>3, <1>4, <1>5, <1>6, <1>7, <1>8, TypeStep DEF Frame

LEMMA AckFanoutTypes ==
  ASSUME TypeInv, NEW c \in Calls, AckFanout(c)
  PROVE  TypeInv' /\ Frame(c)
  <1>1. c \in Workers /\ TypeOK /\ LocalTypes /\ Work(c) /\ (c \in Calls => CallWork(c))
    BY DEF TypeInv, WorkOK, Workers
  <1>a. Min(tail[c]) \in Seqs
    <2>1. tail[c] \subseteq Seqs /\ Seqs \subseteq Nat /\ tail[c] # {}
      BY <1>1 DEF AckFanout, TypeOK, Seqs
    <2> QED
      BY <2>1, MinIn
  <1>2. \A v \in Workers : v # c => Same(v)
    BY <1>1 DEF AckFanout, Same, TypeOK, LocalTypes, store, control, local, Seqs, Goto, Leave, Commits, NextEntry
  <1>3. StoreGrows
    BY <1>1 DEF AckFanout, StoreGrows, store, control, local, Seqs, Goto, Leave, Commits, NextEntry, TypeOK, Entry
  <1>4. TypeOK'
    <2>1. UNCHANGED <<journal, retryLater, applied, waits, reactions, dedup, delivered, queue, proj, deferred, up, denied, left>>
      BY DEF AckFanout, control
    <2>2. acked' \subseteq Seqs /\ \A v \in Workers : tail'[v] \subseteq tail[v]
      BY <1>1, <1>a DEF AckFanout, TypeOK, LocalTypes
    <2> QED
      BY <1>1, <2>1, <2>2 DEF TypeOK, Seqs
  <1>5. LocalTypes'
    BY <1>1 DEF AckFanout, store, control, local, Seqs, Goto, Leave, Commits, NextEntry, TypeOK, LocalTypes, Labels, Before, AtEntry, Draining, Workers
  <1>6. Work(c)'
    BY <1>1 DEF AckFanout, store, control, local, Seqs, Goto, Leave, Commits, NextEntry, LocalTypes, Work, Labels, Before, AtEntry, Draining
  <1>7. c \in Calls => CallWork(c)'
    BY <1>1 DEF AckFanout, store, control, local, Seqs, Goto, Leave, Commits, NextEntry, LocalTypes, CallWork, Labels, Before, AtEntry, Draining, Blocks
  <1>8. RecBatch'
    BY <1>1, <1>2, CallAssumption DEF TypeInv, RecBatch, Same, Workers
  <1> QED
    BY <1>1, <1>2, <1>3, <1>4, <1>5, <1>6, <1>7, <1>8, TypeStep DEF Frame

LEMMA FinishTypes ==
  ASSUME TypeInv, NEW c \in Calls, Finish(c)
  PROVE  TypeInv' /\ Frame(c)
  <1>1. c \in Workers /\ TypeOK /\ LocalTypes /\ Work(c) /\ (c \in Calls => CallWork(c))
    BY DEF TypeInv, WorkOK, Workers
  <1>2. \A v \in Workers : v # c => Same(v)
    BY <1>1 DEF Finish, Same, TypeOK, LocalTypes, store, control, local, Seqs, Goto, Leave, Commits, NextEntry
  <1>3. StoreGrows
    BY <1>1 DEF Finish, StoreGrows, store, control, local, Seqs, Goto, Leave, Commits, NextEntry, TypeOK, Entry
  <1>4. TypeOK'
    BY <1>1, <1>3 DEF Finish, store, control, local, Seqs, Goto, Leave, Commits, NextEntry, TypeOK
  <1>5. LocalTypes'
    <2>1. pc' \in [Workers -> Labels]
      BY <1>1 DEF Finish, LocalTypes, Goto, Leave, NextEntry, Commits, Labels, Before, AtEntry, Draining
    <2>2. tail' \in [Workers -> SUBSET Seqs'] /\ left' \in [Workers -> SUBSET Seqs']
      BY <1>1 DEF Finish, LocalTypes, Leave, NextEntry, store, Seqs, TypeOK
    <2>3. todo' \in [Workers -> SUBSET (Calls \cup Reactions)] /\ before' \in [Workers -> Nat]
      BY <1>1 DEF Finish, LocalTypes, Leave, TypeOK
    <2>4. read' \in [Workers -> Reads]
      BY <1>1, ReadIsTyped DEF Finish, LocalTypes, Leave
    <2>5. items' \in [Workers -> SUBSET DOMAIN queue']
      BY <1>1 DEF Finish, LocalTypes, Leave, store
    <2>6. crashes' \in Nat /\ throws' \in Nat /\ up' = up
      BY <1>1 DEF Finish, LocalTypes, control
    <2>7. /\ pc'[Rec] \in {"done", "boot", "entry"} \cup AtEntry \cup Draining
          /\ \A d \in Calls : pc'[d] # "boot"
          /\ up = "serving" <=> pc'[Rec] = "done"
      BY <1>1, CallAssumption DEF Finish, LocalTypes, Goto, Leave, NextEntry, Commits, AtEntry, Draining, Workers
    <2> QED
      BY <2>1, <2>2, <2>3, <2>4, <2>5, <2>6, <2>7 DEF LocalTypes
  <1>6. Work(c)'
    BY <1>1 DEF Finish, store, control, local, Seqs, Goto, Leave, Commits, NextEntry, LocalTypes, Work, Labels, Before, AtEntry, Draining
  <1>7. c \in Calls => CallWork(c)'
    BY <1>1 DEF Finish, store, control, local, Seqs, Goto, Leave, Commits, NextEntry, LocalTypes, CallWork, Labels, Before, AtEntry, Draining, Blocks
  <1>8. RecBatch'
    BY <1>1, <1>2, CallAssumption DEF TypeInv, RecBatch, Same, Workers
  <1> QED
    BY <1>1, <1>2, <1>3, <1>4, <1>5, <1>6, <1>7, <1>8, TypeStep DEF Frame

LEMMA UnblockTypes ==
  ASSUME TypeInv, NEW c \in Calls, Unblock(c)
  PROVE  TypeInv' /\ Frame(c)
  <1>1. c \in Workers /\ TypeOK /\ LocalTypes /\ Work(c) /\ (c \in Calls => CallWork(c))
    BY DEF TypeInv, WorkOK, Workers
  <1>2. \A v \in Workers : v # c => Same(v)
    BY <1>1 DEF Unblock, Same, TypeOK, LocalTypes, store, control, local, Seqs, Goto, Leave, Commits, NextEntry
  <1>3. StoreGrows
    BY <1>1 DEF Unblock, StoreGrows, store, control, local, Seqs, Goto, Leave, Commits, NextEntry, TypeOK, Entry
  <1>4. TypeOK'
    BY <1>1, <1>3 DEF Unblock, store, control, local, Seqs, Goto, Leave, Commits, NextEntry, TypeOK
  <1>5. LocalTypes'
    BY <1>1 DEF Unblock, store, control, local, Seqs, Goto, Leave, Commits, NextEntry, TypeOK, LocalTypes, Labels, Before, AtEntry, Draining, Workers
  <1>6. Work(c)'
    BY <1>1 DEF Unblock, store, control, local, Seqs, Goto, Leave, Commits, NextEntry, LocalTypes, Work, Labels, Before, AtEntry, Draining
  <1>7. c \in Calls => CallWork(c)'
    BY <1>1 DEF Unblock, store, control, local, Seqs, Goto, Leave, Commits, NextEntry, LocalTypes, CallWork, Labels, Before, AtEntry, Draining, Blocks
  <1>8. RecBatch'
    BY <1>1, <1>2, CallAssumption DEF TypeInv, RecBatch, Same, Workers
  <1> QED
    BY <1>1, <1>2, <1>3, <1>4, <1>5, <1>6, <1>7, <1>8, TypeStep DEF Frame

LEMMA InvokeThrowsTypes ==
  ASSUME TypeInv, NEW c \in Calls, InvokeThrows(c)
  PROVE  TypeInv' /\ Frame(c)
  <1>1. c \in Workers /\ TypeOK /\ LocalTypes /\ Work(c) /\ (c \in Calls => CallWork(c))
    BY DEF TypeInv, WorkOK, Workers
  <1>2. \A v \in Workers : v # c => Same(v)
    BY <1>1 DEF InvokeThrows, Same, TypeOK, LocalTypes, store, control, local, Seqs, Goto, Leave, Commits, NextEntry
  <1>3. StoreGrows
    BY <1>1 DEF InvokeThrows, StoreGrows, store, control, local, Seqs, Goto, Leave, Commits, NextEntry, TypeOK, Entry
  <1>4. TypeOK'
    BY <1>1, <1>3 DEF InvokeThrows, store, control, local, Seqs, Goto, Leave, Commits, NextEntry, TypeOK
  <1>5. LocalTypes'
    <2>1. pc' \in [Workers -> Labels]
      BY <1>1 DEF InvokeThrows, LocalTypes, Goto, Leave, NextEntry, Commits, Labels, Before, AtEntry, Draining
    <2>2. tail' \in [Workers -> SUBSET Seqs'] /\ left' \in [Workers -> SUBSET Seqs']
      BY <1>1 DEF InvokeThrows, LocalTypes, Leave, NextEntry, store, Seqs, TypeOK
    <2>3. todo' \in [Workers -> SUBSET (Calls \cup Reactions)] /\ before' \in [Workers -> Nat]
      BY <1>1 DEF InvokeThrows, LocalTypes, Leave, TypeOK
    <2>4. read' \in [Workers -> Reads]
      BY <1>1, ReadIsTyped DEF InvokeThrows, LocalTypes, Leave
    <2>5. items' \in [Workers -> SUBSET DOMAIN queue']
      BY <1>1 DEF InvokeThrows, LocalTypes, Leave, store
    <2>6. crashes' \in Nat /\ throws' \in Nat /\ up' = up
      BY <1>1 DEF InvokeThrows, LocalTypes, control
    <2>7. /\ pc'[Rec] \in {"done", "boot", "entry"} \cup AtEntry \cup Draining
          /\ \A d \in Calls : pc'[d] # "boot"
          /\ up = "serving" <=> pc'[Rec] = "done"
      BY <1>1, CallAssumption DEF InvokeThrows, LocalTypes, Goto, Leave, NextEntry, Commits, AtEntry, Draining, Workers
    <2> QED
      BY <2>1, <2>2, <2>3, <2>4, <2>5, <2>6, <2>7 DEF LocalTypes
  <1>6. Work(c)'
    BY <1>1 DEF InvokeThrows, store, control, local, Seqs, Goto, Leave, Commits, NextEntry, LocalTypes, Work, Labels, Before, AtEntry, Draining
  <1>7. c \in Calls => CallWork(c)'
    BY <1>1 DEF InvokeThrows, store, control, local, Seqs, Goto, Leave, Commits, NextEntry, LocalTypes, CallWork, Labels, Before, AtEntry, Draining, Blocks
  <1>8. RecBatch'
    BY <1>1, <1>2, CallAssumption DEF TypeInv, RecBatch, Same, Workers
  <1> QED
    BY <1>1, <1>2, <1>3, <1>4, <1>5, <1>6, <1>7, <1>8, TypeStep DEF Frame

LEMMA DispatchEntryTypes ==
  ASSUME TypeInv, NEW w \in Workers, DispatchEntry(w)
  PROVE  TypeInv' /\ Frame(w)
  <1>1. w \in Workers /\ TypeOK /\ LocalTypes /\ Work(w) /\ (w \in Calls => CallWork(w))
    BY DEF TypeInv, WorkOK, Workers
  <1>a. SkipsAsBound(w) => w \in Calls /\ waits[w] # None
    BY <1>1 DEF SkipsAsBound, CallWork, DispatchEntry, Workers
  <1>b. PendingWaits(journal[Min(left[w])]) \subseteq {x \in Calls : waits[x] # None}
    BY DEF PendingWaits, Concerns
  <1>2. \A v \in Workers : v # w => Same(v)
    BY <1>1 DEF DispatchEntry, Same, TypeOK, LocalTypes, store, control, local, Seqs, Goto, Leave, Commits, NextEntry
  <1>3. StoreGrows
    BY <1>1 DEF DispatchEntry, StoreGrows, store, control, local, Seqs, Goto, Leave, Commits, NextEntry, TypeOK, Entry
  <1>4. TypeOK'
    BY <1>1, <1>3 DEF DispatchEntry, store, control, local, Seqs, Goto, Leave, Commits, NextEntry, TypeOK
  <1>5. LocalTypes'
    <2>1. pc' \in [Workers -> Labels]
      BY <1>1 DEF DispatchEntry, LocalTypes, Goto, Leave, NextEntry, Commits, Labels, Before, AtEntry, Draining
    <2>2. tail' \in [Workers -> SUBSET Seqs'] /\ left' \in [Workers -> SUBSET Seqs']
      BY <1>1, <1>a, <1>b DEF DispatchEntry, LocalTypes, Leave, NextEntry, store, Seqs, TypeOK
    <2>3. todo' \in [Workers -> SUBSET (Calls \cup Reactions)] /\ before' \in [Workers -> Nat]
      <3>1. CASE left[w] = {}
        BY <1>1, <3>1 DEF DispatchEntry, LocalTypes
      <3>2. CASE left[w] # {}
        <4> DEFINE t == IF SkipsAsBound(w) THEN {w} ELSE PendingWaits(journal[Min(left[w])])
        <4>1. t \in SUBSET (Calls \cup Reactions)
          BY <1>a, <1>b
        <4>2. todo' = [todo EXCEPT ![w] = t] /\ before' = before
          BY <3>2 DEF DispatchEntry
        <4> HIDE DEF t
        <4> QED
          BY <1>1, <4>1, <4>2 DEF LocalTypes
      <3> QED
        BY <3>1, <3>2
    <2>4. read' \in [Workers -> Reads]
      BY <1>1, <1>a, <1>b, ReadIsTyped DEF DispatchEntry, LocalTypes, Leave
    <2>5. items' \in [Workers -> SUBSET DOMAIN queue']
      BY <1>1, <1>a, <1>b DEF DispatchEntry, LocalTypes, Leave, store
    <2>6. crashes' \in Nat /\ throws' \in Nat /\ up' = up
      BY <1>1 DEF DispatchEntry, LocalTypes, control
    <2>7. /\ pc'[Rec] \in {"done", "boot", "entry"} \cup AtEntry \cup Draining
          /\ \A d \in Calls : pc'[d] # "boot"
          /\ up = "serving" <=> pc'[Rec] = "done"
      BY <1>1, CallAssumption DEF DispatchEntry, LocalTypes, Goto, Leave, NextEntry, Commits, AtEntry, Draining, Workers
    <2> QED
      BY <2>1, <2>2, <2>3, <2>4, <2>5, <2>6, <2>7 DEF LocalTypes
  <1>6. Work(w)'
    BY <1>1, <1>a, <1>b DEF DispatchEntry, store, control, local, Seqs, Goto, Leave, Commits, NextEntry, LocalTypes, Work, Labels, Before, AtEntry, Draining
  <1>7. w \in Calls => CallWork(w)'
    BY <1>1 DEF DispatchEntry, store, control, local, Seqs, Goto, Leave, Commits, NextEntry, LocalTypes, CallWork, Labels, Before, AtEntry, Draining, Blocks
  <1>8. RecBatch'
    BY <1>1, <1>2 DEF TypeInv, RecBatch, Same, Workers, DispatchEntry, NextEntry, LocalTypes, FansOut, AtEntry, Draining
  <1> QED
    BY <1>1, <1>2, <1>3, <1>4, <1>5, <1>6, <1>7, <1>8, TypeStep DEF Frame

LEMMA UpdateWaitTypes ==
  ASSUME TypeInv, NEW w \in Workers, UpdateWait(w)
  PROVE  TypeInv' /\ Frame(w)
  <1>1. w \in Workers /\ TypeOK /\ LocalTypes /\ Work(w) /\ (w \in Calls => CallWork(w))
    BY DEF TypeInv, WorkOK, Workers
  <1>a. read[w].wait \in Calls /\ waits[read[w].wait] # None
    BY <1>1 DEF Work, UpdateWait
  <1>b. waits[read[w].wait] \in WaitRecord
    BY <1>1, <1>a DEF TypeOK
  <1>c. WaitRecord = WaitRecord /\ [status |-> "resolved", on |-> waits[read[w].wait].on, agg |-> waits[read[w].wait].agg,
          bound |-> waits[read[w].wait].bound] \in WaitRecord
    BY <1>b DEF WaitRecord
  <1>2. \A v \in Workers : v # w => Same(v)
    BY <1>1 DEF UpdateWait, Same, TypeOK, LocalTypes, store, control, local, Seqs, Goto, Leave, Commits, NextEntry
  <1>3. StoreGrows
    BY <1>1, <1>a, <1>b, <1>c, NoneAssumption DEF UpdateWait, StoreGrows, store, control, local, Seqs, Goto, Leave, Commits, NextEntry, TypeOK, Entry
  <1>4. TypeOK'
    BY <1>1, <1>3, <1>a, <1>b, <1>c DEF UpdateWait, store, control, local, Seqs, Goto, Leave, Commits, NextEntry, TypeOK
  <1>5. LocalTypes'
    BY <1>1 DEF UpdateWait, store, control, local, Seqs, Goto, Leave, Commits, NextEntry, TypeOK, LocalTypes, Labels, Before, AtEntry, Draining, Workers
  <1>6. Work(w)'
    BY <1>1 DEF UpdateWait, store, control, local, Seqs, Goto, Leave, Commits, NextEntry, LocalTypes, Work, Labels, Before, AtEntry, Draining
  <1>7. w \in Calls => CallWork(w)'
    BY <1>1, <1>3 DEF UpdateWait, store, control, local, Seqs, Goto, Leave, Commits, NextEntry, LocalTypes, CallWork, Labels, Before, AtEntry, Draining, Blocks, StoreGrows
  <1>8. RecBatch'
    BY <1>1, <1>2 DEF TypeInv, RecBatch, Same, Workers, UpdateWait, NextEntry, LocalTypes, FansOut, AtEntry, Draining
  <1> QED
    BY <1>1, <1>2, <1>3, <1>4, <1>5, <1>6, <1>7, <1>8, TypeStep DEF Frame

LEMMA SkipEntryTypes ==
  ASSUME TypeInv, NEW w \in Workers, SkipEntry(w)
  PROVE  TypeInv' /\ Frame(w)
  <1>1. w \in Workers /\ TypeOK /\ LocalTypes /\ Work(w) /\ (w \in Calls => CallWork(w))
    BY DEF TypeInv, WorkOK, Workers
  <1>2. \A v \in Workers : v # w => Same(v)
    BY <1>1 DEF SkipEntry, Same, TypeOK, LocalTypes, store, control, local, Seqs, Goto, Leave, Commits, NextEntry
  <1>3. StoreGrows
    BY <1>1 DEF SkipEntry, StoreGrows, store, control, local, Seqs, Goto, Leave, Commits, NextEntry, TypeOK, Entry
  <1>4. TypeOK'
    BY <1>1, <1>3 DEF SkipEntry, store, control, local, Seqs, Goto, Leave, Commits, NextEntry, TypeOK
  <1>5. LocalTypes'
    BY <1>1 DEF SkipEntry, store, control, local, Seqs, Goto, Leave, Commits, NextEntry, TypeOK, LocalTypes, Labels, Before, AtEntry, Draining, Workers
  <1>6. Work(w)'
    BY <1>1 DEF SkipEntry, store, control, local, Seqs, Goto, Leave, Commits, NextEntry, LocalTypes, Work, Labels, Before, AtEntry, Draining
  <1>7. w \in Calls => CallWork(w)'
    BY <1>1 DEF SkipEntry, store, control, local, Seqs, Goto, Leave, Commits, NextEntry, LocalTypes, CallWork, Labels, Before, AtEntry, Draining, Blocks
  <1>8. RecBatch'
    BY <1>1, <1>2 DEF TypeInv, RecBatch, Same, Workers, SkipEntry, NextEntry, LocalTypes, FansOut, AtEntry, Draining
  <1> QED
    BY <1>1, <1>2, <1>3, <1>4, <1>5, <1>6, <1>7, <1>8, TypeStep DEF Frame

LEMMA ListReactionsTypes ==
  ASSUME TypeInv, NEW w \in Workers, ListReactions(w)
  PROVE  TypeInv' /\ Frame(w)
  <1>1. w \in Workers /\ TypeOK /\ LocalTypes /\ Work(w) /\ (w \in Calls => CallWork(w))
    BY DEF TypeInv, WorkOK, Workers
  <1>2. \A v \in Workers : v # w => Same(v)
    BY <1>1 DEF ListReactions, Same, TypeOK, LocalTypes, store, control, local, Seqs, Goto, Leave, Commits, NextEntry
  <1>3. StoreGrows
    BY <1>1 DEF ListReactions, StoreGrows, store, control, local, Seqs, Goto, Leave, Commits, NextEntry, TypeOK, Entry
  <1>4. TypeOK'
    BY <1>1, <1>3 DEF ListReactions, store, control, local, Seqs, Goto, Leave, Commits, NextEntry, TypeOK
  <1>5. LocalTypes'
    BY <1>1 DEF ListReactions, store, control, local, Seqs, Goto, Leave, Commits, NextEntry, TypeOK, LocalTypes, Labels, Before, AtEntry, Draining, Workers
  <1>6. Work(w)'
    BY <1>1 DEF ListReactions, store, control, local, Seqs, Goto, Leave, Commits, NextEntry, LocalTypes, Work, Labels, Before, AtEntry, Draining
  <1>7. w \in Calls => CallWork(w)'
    BY <1>1 DEF ListReactions, store, control, local, Seqs, Goto, Leave, Commits, NextEntry, LocalTypes, CallWork, Labels, Before, AtEntry, Draining, Blocks
  <1>8. RecBatch'
    BY <1>1, <1>2 DEF TypeInv, RecBatch, Same, Workers, ListReactions, NextEntry, LocalTypes, FansOut, AtEntry, Draining
  <1> QED
    BY <1>1, <1>2, <1>3, <1>4, <1>5, <1>6, <1>7, <1>8, TypeStep DEF Frame

LEMMA NotifyWaitTypes ==
  ASSUME TypeInv, NEW w \in Workers, NEW x \in Calls, NotifyWait(w, x)
  PROVE  TypeInv' /\ Frame(w)
  <1>1. w \in Workers /\ TypeOK /\ LocalTypes /\ Work(w) /\ (w \in Calls => CallWork(w))
    BY DEF TypeInv, WorkOK, Workers
  <1>a. AnswerOf(w, x) # None => AnswerOf(w, x) \in Answer
    <2>1. left[w] # {}
      BY <1>1 DEF Work, NotifyWait, AtEntry
    <2>2. journal[Min(left[w])].call \in Workers
      BY <1>1, <2>1, FirstIsTyped DEF Workers
    <2> QED
      BY <1>1, <2>2 DEF AnswerOf, Answer
  <1>2. \A v \in Workers : v # w => Same(v)
    BY <1>1 DEF NotifyWait, Same, TypeOK, LocalTypes, store, control, local, Seqs, Goto, Leave, Commits, NextEntry
  <1>3. StoreGrows
    BY <1>1 DEF NotifyWait, StoreGrows, store, control, local, Seqs, Goto, Leave, Commits, NextEntry, TypeOK, Entry
  <1>4. TypeOK'
    BY <1>1, <1>3, <1>a DEF NotifyWait, store, control, local, Seqs, Goto, Leave, Commits, NextEntry, TypeOK
  <1>5. LocalTypes'
    <2>1. pc' \in [Workers -> Labels]
      BY <1>1 DEF NotifyWait, LocalTypes, Goto, Leave, NextEntry, Commits, Labels, Before, AtEntry, Draining
    <2>2. tail' \in [Workers -> SUBSET Seqs'] /\ left' \in [Workers -> SUBSET Seqs']
      BY <1>1 DEF NotifyWait, LocalTypes, Leave, NextEntry, store, Seqs, TypeOK
    <2>3. todo' \in [Workers -> SUBSET (Calls \cup Reactions)] /\ before' \in [Workers -> Nat]
      <3>1. before' = before /\ (todo' = todo \/ todo' = [todo EXCEPT ![w] = @ \ {x}])
        BY DEF NotifyWait
      <3> QED
        BY <1>1, <3>1 DEF LocalTypes
    <2>4. read' \in [Workers -> Reads]
      BY <1>1, ReadIsTyped DEF NotifyWait, LocalTypes, Leave
    <2>5. items' \in [Workers -> SUBSET DOMAIN queue']
      BY <1>1 DEF NotifyWait, LocalTypes, Leave, store
    <2>6. crashes' \in Nat /\ throws' \in Nat /\ up' = up
      BY <1>1 DEF NotifyWait, LocalTypes, control
    <2>7. /\ pc'[Rec] \in {"done", "boot", "entry"} \cup AtEntry \cup Draining
          /\ \A d \in Calls : pc'[d] # "boot"
          /\ up = "serving" <=> pc'[Rec] = "done"
      BY <1>1, CallAssumption DEF NotifyWait, LocalTypes, Goto, Leave, NextEntry, Commits, AtEntry, Draining, Workers
    <2> QED
      BY <2>1, <2>2, <2>3, <2>4, <2>5, <2>6, <2>7 DEF LocalTypes
  <1>6. Work(w)'
    BY <1>1 DEF NotifyWait, store, control, local, Seqs, Goto, Leave, Commits, NextEntry, LocalTypes, Work, Labels, Before, AtEntry, Draining
  <1>7. w \in Calls => CallWork(w)'
    BY <1>1 DEF NotifyWait, store, control, local, Seqs, Goto, Leave, Commits, NextEntry, LocalTypes, CallWork, Labels, Before, AtEntry, Draining, Blocks
  <1>8. RecBatch'
    BY <1>1, <1>2 DEF TypeInv, RecBatch, Same, Workers, NotifyWait, NextEntry, LocalTypes, FansOut, AtEntry, Draining
  <1> QED
    BY <1>1, <1>2, <1>3, <1>4, <1>5, <1>6, <1>7, <1>8, TypeStep DEF Frame

LEMMA DedupReadTypes ==
  ASSUME TypeInv, NEW w \in Workers, NEW r \in Reactions, DedupRead(w, r)
  PROVE  TypeInv' /\ Frame(w)
  <1>1. w \in Workers /\ TypeOK /\ LocalTypes /\ Work(w) /\ (w \in Calls => CallWork(w))
    BY DEF TypeInv, WorkOK, Workers
  <1>a. (<<r, Min(left[w])>> \in dedup) \in BOOLEAN
    OBVIOUS
  <1>2. \A v \in Workers : v # w => Same(v)
    BY <1>1 DEF DedupRead, Same, TypeOK, LocalTypes, store, control, local, Seqs, Goto, Leave, Commits, NextEntry
  <1>3. StoreGrows
    BY <1>1 DEF DedupRead, StoreGrows, store, control, local, Seqs, Goto, Leave, Commits, NextEntry, TypeOK, Entry
  <1>4. TypeOK'
    BY <1>1, <1>3 DEF DedupRead, store, control, local, Seqs, Goto, Leave, Commits, NextEntry, TypeOK
  <1>5. LocalTypes'
    BY <1>1, <1>a, ReadIsTyped DEF DedupRead, store, control, local, Seqs, Goto, Leave, Commits, NextEntry, TypeOK, LocalTypes, Labels, Before, AtEntry, Draining, Workers
  <1>6. Work(w)'
    BY <1>1 DEF DedupRead, store, control, local, Seqs, Goto, Leave, Commits, NextEntry, LocalTypes, Work, Labels, Before, AtEntry, Draining
  <1>7. w \in Calls => CallWork(w)'
    BY <1>1 DEF DedupRead, store, control, local, Seqs, Goto, Leave, Commits, NextEntry, LocalTypes, CallWork, Labels, Before, AtEntry, Draining, Blocks
  <1>8. RecBatch'
    BY <1>1, <1>2 DEF TypeInv, RecBatch, Same, Workers, DedupRead, NextEntry, LocalTypes, FansOut, AtEntry, Draining
  <1> QED
    BY <1>1, <1>2, <1>3, <1>4, <1>5, <1>6, <1>7, <1>8, TypeStep DEF Frame

LEMMA EnqueueReactionTypes ==
  ASSUME TypeInv, NEW w \in Workers, EnqueueReaction(w)
  PROVE  TypeInv' /\ Frame(w)
  <1>1. w \in Workers /\ TypeOK /\ LocalTypes /\ Work(w) /\ (w \in Calls => CallWork(w))
    BY DEF TypeInv, WorkOK, Workers
  <1>a. left[w] # {} /\ Min(left[w]) \in Seqs /\ journal[Min(left[w])].agg \in Aggs \cup {None}
    BY <1>1, FirstIsTyped DEF Work, AtEntry, EnqueueReaction
  <1>b. read[w].reaction \in Reactions
    BY <1>1 DEF Work, EnqueueReaction
  <1>c. [reaction |-> read[w].reaction, seq |-> Min(left[w]), status |-> "pending"] \in
          [reaction : Reactions, seq : Seqs, status : {"pending", "processing", "done"}]
    BY <1>a, <1>b
  <1>2. \A v \in Workers : v # w => Same(v)
    BY <1>1 DEF EnqueueReaction, Same, TypeOK, LocalTypes, store, control, local, Seqs, Goto, Leave, Commits, NextEntry
  <1>3. StoreGrows
    BY <1>1 DEF EnqueueReaction, StoreGrows, store, control, local, Seqs, Goto, Leave, Commits, NextEntry, TypeOK, Entry
  <1>4. TypeOK'
    <2>1. dedup' \subseteq Reactions \X Seqs
      BY <1>1, <1>a, <1>b DEF EnqueueReaction, TypeOK
    <2>2. queue' \in Seq([reaction : Reactions, seq : Seqs, status : {"pending", "processing", "done"}])
      <3> DEFINE Q == [reaction : Reactions, seq : Seqs, status : {"pending", "processing", "done"}]
                 e == [reaction |-> read[w].reaction, seq |-> Min(left[w]), status |-> "pending"]
      <3>1. queue \in Seq(Q) /\ e \in Q
        BY <1>1, <1>c DEF TypeOK
      <3>2. queue' = queue \/ queue' = Append(queue, e)
        BY DEF EnqueueReaction
      <3> HIDE DEF Q, e
      <3>3. queue' \in Seq(Q)
        BY <3>1, <3>2, SeqOf
      <3> QED
        BY <3>3 DEF Q
    <2>3. UNCHANGED <<journal, acked, retryLater, applied, waits, reactions, delivered, proj, deferred, up, denied, left, tail>>
      BY DEF EnqueueReaction, control
    <2> QED
      BY <1>1, <2>1, <2>2, <2>3 DEF TypeOK, Seqs
  <1>5. LocalTypes'
    BY <1>1 DEF EnqueueReaction, store, control, local, Seqs, Goto, Leave, Commits, NextEntry, TypeOK, LocalTypes, Labels, Before, AtEntry, Draining, Workers
  <1>6. Work(w)'
    BY <1>1 DEF EnqueueReaction, store, control, local, Seqs, Goto, Leave, Commits, NextEntry, LocalTypes, Work, Labels, Before, AtEntry, Draining
  <1>7. w \in Calls => CallWork(w)'
    BY <1>1 DEF EnqueueReaction, store, control, local, Seqs, Goto, Leave, Commits, NextEntry, LocalTypes, CallWork, Labels, Before, AtEntry, Draining, Blocks
  <1>8. RecBatch'
    BY <1>1, <1>2 DEF TypeInv, RecBatch, Same, Workers, EnqueueReaction, NextEntry, LocalTypes, FansOut, AtEntry, Draining
  <1> QED
    BY <1>1, <1>2, <1>3, <1>4, <1>5, <1>6, <1>7, <1>8, TypeStep DEF Frame

LEMMA MarkProjectionTypes ==
  ASSUME TypeInv, NEW w \in Workers, MarkProjection(w)
  PROVE  TypeInv' /\ Frame(w)
  <1>1. w \in Workers /\ TypeOK /\ LocalTypes /\ Work(w) /\ (w \in Calls => CallWork(w))
    BY DEF TypeInv, WorkOK, Workers
  <1>a. left[w] # {} /\ Min(left[w]) \in Seqs /\ journal[Min(left[w])].agg \in Aggs \cup {None}
    BY <1>1, FirstIsTyped DEF Work, AtEntry, MarkProjection
  <1>b. left' \in [Workers -> SUBSET Seqs] /\ UNCHANGED <<store, delivered, deferred, up, denied, tail>>
    BY <1>1, <1>a DEF MarkProjection, NextEntry, LocalTypes, control
  <1>2. \A v \in Workers : v # w => Same(v)
    BY <1>1 DEF MarkProjection, Same, TypeOK, LocalTypes, store, control, local, Seqs, Goto, Leave, Commits, NextEntry
  <1>3. StoreGrows
    BY <1>1 DEF MarkProjection, StoreGrows, store, control, local, Seqs, Goto, Leave, Commits, NextEntry, TypeOK, Entry
  <1>4. TypeOK'
    BY <1>1, <1>b, TypesKept DEF store, TypeOK
  <1>5. LocalTypes'
    <2>1. pc' \in [Workers -> Labels]
      BY <1>1 DEF MarkProjection, LocalTypes, Goto, Leave, NextEntry, Commits, Labels, Before, AtEntry, Draining
    <2>2. tail' \in [Workers -> SUBSET Seqs'] /\ left' \in [Workers -> SUBSET Seqs']
      BY <1>1, <1>b DEF MarkProjection, LocalTypes, Leave, NextEntry, store, Seqs, TypeOK
    <2>3. todo' \in [Workers -> SUBSET (Calls \cup Reactions)] /\ before' \in [Workers -> Nat]
      BY <1>1, <1>b DEF MarkProjection, LocalTypes, Leave, TypeOK
    <2>4. read' \in [Workers -> Reads]
      BY <1>1, <1>b, ReadIsTyped DEF MarkProjection, LocalTypes, Leave
    <2>5. items' \in [Workers -> SUBSET DOMAIN queue']
      BY <1>1, <1>b DEF MarkProjection, LocalTypes, Leave, store
    <2>6. crashes' \in Nat /\ throws' \in Nat /\ up' = up
      BY <1>1 DEF MarkProjection, LocalTypes, control
    <2>7. /\ pc'[Rec] \in {"done", "boot", "entry"} \cup AtEntry \cup Draining
          /\ \A d \in Calls : pc'[d] # "boot"
          /\ up = "serving" <=> pc'[Rec] = "done"
      BY <1>1, CallAssumption DEF MarkProjection, LocalTypes, Goto, Leave, NextEntry, Commits, AtEntry, Draining, Workers
    <2> QED
      BY <2>1, <2>2, <2>3, <2>4, <2>5, <2>6, <2>7 DEF LocalTypes
  <1>6. Work(w)'
    BY <1>1 DEF MarkProjection, store, control, local, Seqs, Goto, Leave, Commits, NextEntry, LocalTypes, Work, Labels, Before, AtEntry, Draining
  <1>7. w \in Calls => CallWork(w)'
    BY <1>1 DEF MarkProjection, store, control, local, Seqs, Goto, Leave, Commits, NextEntry, LocalTypes, CallWork, Labels, Before, AtEntry, Draining, Blocks
  <1>8. RecBatch'
    BY <1>1, <1>2 DEF TypeInv, RecBatch, Same, Workers, MarkProjection, NextEntry, LocalTypes, FansOut, AtEntry, Draining
  <1> QED
    BY <1>1, <1>2, <1>3, <1>4, <1>5, <1>6, <1>7, <1>8, TypeStep DEF Frame

LEMMA LoadProjectionTypes ==
  ASSUME TypeInv, NEW w \in Workers, LoadProjection(w)
  PROVE  TypeInv' /\ Frame(w)
  <1>1. w \in Workers /\ TypeOK /\ LocalTypes /\ Work(w) /\ (w \in Calls => CallWork(w))
    BY DEF TypeInv, WorkOK, Workers
  <1>a. left[w] # {} /\ Min(left[w]) \in Seqs /\ journal[Min(left[w])].agg \in Aggs \cup {None}
    BY <1>1, FirstIsTyped DEF Work, AtEntry, LoadProjection
  <1>b. proj[journal[Min(left[w])].agg] \in Seq(Seqs) /\ Seq(Seqs) \subseteq Seq(Nat)
    BY <1>1, <1>a, SeqMonotone DEF TypeOK, Seqs
  <1>2. \A v \in Workers : v # w => Same(v)
    BY <1>1 DEF LoadProjection, Same, TypeOK, LocalTypes, store, control, local, Seqs, Goto, Leave, Commits, NextEntry
  <1>3. StoreGrows
    BY <1>1 DEF LoadProjection, StoreGrows, store, control, local, Seqs, Goto, Leave, Commits, NextEntry, TypeOK, Entry
  <1>4. TypeOK'
    BY <1>1, <1>3 DEF LoadProjection, store, control, local, Seqs, Goto, Leave, Commits, NextEntry, TypeOK
  <1>5. LocalTypes'
    BY <1>1, <1>a, <1>b, ReadIsTyped DEF LoadProjection, store, control, local, Seqs, Goto, Leave, Commits, NextEntry, TypeOK, LocalTypes, Labels, Before, AtEntry, Draining, Workers
  <1>6. Work(w)'
    BY <1>1, <1>a, <1>b DEF LoadProjection, store, control, local, Seqs, Goto, Leave, Commits, NextEntry, LocalTypes, Work, Labels, Before, AtEntry, Draining
  <1>7. w \in Calls => CallWork(w)'
    BY <1>1 DEF LoadProjection, store, control, local, Seqs, Goto, Leave, Commits, NextEntry, LocalTypes, CallWork, Labels, Before, AtEntry, Draining, Blocks
  <1>8. RecBatch'
    BY <1>1, <1>2 DEF TypeInv, RecBatch, Same, Workers, LoadProjection, NextEntry, LocalTypes, FansOut, AtEntry, Draining
  <1> QED
    BY <1>1, <1>2, <1>3, <1>4, <1>5, <1>6, <1>7, <1>8, TypeStep DEF Frame

LEMMA FlushProjectionTypes ==
  ASSUME TypeInv, NEW w \in Workers, FlushProjection(w)
  PROVE  TypeInv' /\ Frame(w)
  <1>1. w \in Workers /\ TypeOK /\ LocalTypes /\ Work(w) /\ (w \in Calls => CallWork(w))
    BY DEF TypeInv, WorkOK, Workers
  <1>a. left[w] # {} /\ Min(left[w]) \in Seqs /\ journal[Min(left[w])].agg \in Aggs \cup {None}
    BY <1>1, FirstIsTyped DEF Work, AtEntry, FlushProjection
  <1>b. read[w].prior \in Seq(Seqs)
    BY <1>1 DEF Work, FlushProjection
  <1>c. Append(read[w].prior, Min(left[w])) \in Seq(Seqs)
    BY <1>a, <1>b
  <1>2. \A v \in Workers : v # w => Same(v)
    BY <1>1 DEF FlushProjection, Same, TypeOK, LocalTypes, store, control, local, Seqs, Goto, Leave, Commits, NextEntry
  <1>3. StoreGrows
    BY <1>1 DEF FlushProjection, StoreGrows, store, control, local, Seqs, Goto, Leave, Commits, NextEntry, TypeOK, Entry
  <1>4. TypeOK'
    <2>1. proj' \in [Aggs \cup {None} -> Seq(Seqs)] /\ applied' \subseteq Seqs
      BY <1>1, <1>a, <1>c DEF FlushProjection, TypeOK
    <2>2. left' \in [Workers -> SUBSET Seqs]
      BY <1>1 DEF FlushProjection, NextEntry, LocalTypes
    <2>3. UNCHANGED <<journal, acked, retryLater, queue, dedup, waits, reactions, delivered, deferred, up, denied, tail>>
      BY DEF FlushProjection, control
    <2> QED
      BY <1>1, <2>1, <2>2, <2>3 DEF TypeOK, Seqs
  <1>5. LocalTypes'
    BY <1>1, <1>a DEF FlushProjection, store, control, local, Seqs, Goto, Leave, Commits, NextEntry, TypeOK, LocalTypes, Labels, Before, AtEntry, Draining, Workers
  <1>6. Work(w)'
    BY <1>1 DEF FlushProjection, store, control, local, Seqs, Goto, Leave, Commits, NextEntry, LocalTypes, Work, Labels, Before, AtEntry, Draining
  <1>7. w \in Calls => CallWork(w)'
    BY <1>1 DEF FlushProjection, store, control, local, Seqs, Goto, Leave, Commits, NextEntry, LocalTypes, CallWork, Labels, Before, AtEntry, Draining, Blocks
  <1>8. RecBatch'
    BY <1>1, <1>2 DEF TypeInv, RecBatch, Same, Workers, FlushProjection, NextEntry, LocalTypes, FansOut, AtEntry, Draining
  <1> QED
    BY <1>1, <1>2, <1>3, <1>4, <1>5, <1>6, <1>7, <1>8, TypeStep DEF Frame

LEMMA ClaimReactionBatchTypes ==
  ASSUME TypeInv, NEW w \in Workers, ClaimReactionBatch(w)
  PROVE  TypeInv' /\ Frame(w)
  <1>1. w \in Workers /\ TypeOK /\ LocalTypes /\ Work(w) /\ (w \in Calls => CallWork(w))
    BY DEF TypeInv, WorkOK, Workers
  <1>a. SetStatus({i \in DOMAIN queue : Pending(i)}, "processing") \in Seq([reaction : Reactions, seq : Seqs, status : {"pending", "processing", "done"}])
        /\ DOMAIN SetStatus({i \in DOMAIN queue : Pending(i)}, "processing") = DOMAIN queue
    BY <1>1, StatusIsTyped
  <1>b. DOMAIN queue' = DOMAIN queue /\ UNCHANGED <<journal, waits>>
    BY <1>a DEF ClaimReactionBatch
  <1>2. \A v \in Workers : v # w => Same(v)
    BY <1>1 DEF ClaimReactionBatch, Same, TypeOK, LocalTypes, store, control, local, Seqs, Goto, Leave, Commits, NextEntry
  <1>3. StoreGrows
    BY <1>1, <1>b DEF StoreGrows, Seqs, TypeOK, Entry
  <1>4. TypeOK'
    BY <1>1, <1>3, <1>a DEF ClaimReactionBatch, store, control, local, Seqs, Goto, Leave, Commits, NextEntry, TypeOK
  <1>5. LocalTypes'
    BY <1>1, <1>a DEF ClaimReactionBatch, store, control, local, Seqs, Goto, Leave, Commits, NextEntry, TypeOK, LocalTypes, Labels, Before, AtEntry, Draining, Workers
  <1>6. Work(w)'
    BY <1>1 DEF ClaimReactionBatch, store, control, local, Seqs, Goto, Leave, Commits, NextEntry, LocalTypes, Work, Labels, Before, AtEntry, Draining
  <1>7. w \in Calls => CallWork(w)'
    BY <1>1 DEF ClaimReactionBatch, store, control, local, Seqs, Goto, Leave, Commits, NextEntry, LocalTypes, CallWork, Labels, Before, AtEntry, Draining, Blocks
  <1>8. RecBatch'
    BY <1>1, <1>2 DEF TypeInv, RecBatch, Same, Workers, ClaimReactionBatch, NextEntry, LocalTypes, FansOut, AtEntry, Draining
  <1> QED
    BY <1>1, <1>2, <1>3, <1>4, <1>5, <1>6, <1>7, <1>8, TypeStep DEF Frame

LEMMA InvokeActionTypes ==
  ASSUME TypeInv, NEW w \in Workers, InvokeAction(w)
  PROVE  TypeInv' /\ Frame(w)
  <1>1. w \in Workers /\ TypeOK /\ LocalTypes /\ Work(w) /\ (w \in Calls => CallWork(w))
    BY DEF TypeInv, WorkOK, Workers
  <1>a. <<queue[Min(items[w])].reaction, queue[Min(items[w])].seq>> \in Reactions \X Seqs
    <2>1. Min(items[w]) \in DOMAIN queue
      <3>1. items[w] \subseteq DOMAIN queue /\ items[w] # {} /\ DOMAIN queue \subseteq Nat
        BY <1>1 DEF InvokeAction, LocalTypes, TypeOK
      <3> QED
        BY <3>1, MinIn
    <2> QED
      <3> DEFINE Q == [reaction : Reactions, seq : Seqs, status : {"pending", "processing", "done"}]
      <3>1. queue \in Seq(Q)
        BY <1>1 DEF TypeOK
      <3> HIDE DEF Q
      <3>2. queue[Min(items[w])] \in Q
        BY <2>1, <3>1, SeqOf
      <3> QED
        BY <3>2 DEF Q
  <1>2. \A v \in Workers : v # w => Same(v)
    BY <1>1 DEF InvokeAction, Same, TypeOK, LocalTypes, store, control, local, Seqs, Goto, Leave, Commits, NextEntry
  <1>3. StoreGrows
    BY <1>1 DEF InvokeAction, StoreGrows, store, control, local, Seqs, Goto, Leave, Commits, NextEntry, TypeOK, Entry
  <1>4. TypeOK'
    BY <1>1, <1>3, <1>a DEF InvokeAction, store, control, local, Seqs, Goto, Leave, Commits, NextEntry, TypeOK, SideEffect
  <1>5. LocalTypes'
    BY <1>1 DEF InvokeAction, store, control, local, Seqs, Goto, Leave, Commits, NextEntry, TypeOK, LocalTypes, Labels, Before, AtEntry, Draining, Workers
  <1>6. Work(w)'
    BY <1>1 DEF InvokeAction, store, control, local, Seqs, Goto, Leave, Commits, NextEntry, LocalTypes, Work, Labels, Before, AtEntry, Draining
  <1>7. w \in Calls => CallWork(w)'
    BY <1>1 DEF InvokeAction, store, control, local, Seqs, Goto, Leave, Commits, NextEntry, LocalTypes, CallWork, Labels, Before, AtEntry, Draining, Blocks
  <1>8. RecBatch'
    BY <1>1, <1>2 DEF TypeInv, RecBatch, Same, Workers, InvokeAction, NextEntry, LocalTypes, FansOut, AtEntry, Draining
  <1> QED
    BY <1>1, <1>2, <1>3, <1>4, <1>5, <1>6, <1>7, <1>8, TypeStep DEF Frame

LEMMA CompleteReactionTypes ==
  ASSUME TypeInv, NEW w \in Workers, CompleteReaction(w)
  PROVE  TypeInv' /\ Frame(w)
  <1>1. w \in Workers /\ TypeOK /\ LocalTypes /\ Work(w) /\ (w \in Calls => CallWork(w))
    BY DEF TypeInv, WorkOK, Workers
  <1>a. SetStatus({Min(items[w])}, "done") \in Seq([reaction : Reactions, seq : Seqs, status : {"pending", "processing", "done"}])
        /\ DOMAIN SetStatus({Min(items[w])}, "done") = DOMAIN queue
    BY <1>1, StatusIsTyped
  <1>2. \A v \in Workers : v # w => Same(v)
    BY <1>1 DEF CompleteReaction, Same, TypeOK, LocalTypes, store, control, local, Seqs, Goto, Leave, Commits, NextEntry
  <1>3. StoreGrows
    BY <1>1, <1>a DEF CompleteReaction, StoreGrows, store, control, local, Seqs, Goto, Leave, Commits, NextEntry, TypeOK, Entry
  <1>4. TypeOK'
    BY <1>1, <1>3, <1>a DEF CompleteReaction, store, control, local, Seqs, Goto, Leave, Commits, NextEntry, TypeOK
  <1>5. LocalTypes'
    BY <1>1, <1>a DEF CompleteReaction, store, control, local, Seqs, Goto, Leave, Commits, NextEntry, TypeOK, LocalTypes, Labels, Before, AtEntry, Draining, Workers
  <1>6. Work(w)'
    BY <1>1 DEF CompleteReaction, store, control, local, Seqs, Goto, Leave, Commits, NextEntry, LocalTypes, Work, Labels, Before, AtEntry, Draining
  <1>7. w \in Calls => CallWork(w)'
    BY <1>1 DEF CompleteReaction, store, control, local, Seqs, Goto, Leave, Commits, NextEntry, LocalTypes, CallWork, Labels, Before, AtEntry, Draining, Blocks
  <1>8. RecBatch'
    BY <1>1, <1>2 DEF TypeInv, RecBatch, Same, Workers, CompleteReaction, NextEntry, LocalTypes, FansOut, AtEntry, Draining
  <1> QED
    BY <1>1, <1>2, <1>3, <1>4, <1>5, <1>6, <1>7, <1>8, TypeStep DEF Frame

LEMMA DrainedTypes ==
  ASSUME TypeInv, NEW w \in Workers, Drained(w)
  PROVE  TypeInv' /\ Frame(w)
  <1>1. w \in Workers /\ TypeOK /\ LocalTypes /\ Work(w) /\ (w \in Calls => CallWork(w))
    BY DEF TypeInv, WorkOK, Workers
  <1>2. \A v \in Workers : v # w => Same(v)
    BY <1>1 DEF Drained, Same, TypeOK, LocalTypes, store, control, local, Seqs, Goto, Leave, Commits, NextEntry
  <1>3. StoreGrows
    BY <1>1 DEF Drained, StoreGrows, store, control, local, Seqs, Goto, Leave, Commits, NextEntry, TypeOK, Entry
  <1>4. TypeOK'
    BY <1>1, <1>3 DEF Drained, store, control, local, Seqs, Goto, Leave, Commits, NextEntry, TypeOK
  <1>5. LocalTypes'
    BY <1>1 DEF Drained, store, control, local, Seqs, Goto, Leave, Commits, NextEntry, TypeOK, LocalTypes, Labels, Before, AtEntry, Draining, Workers
  <1>6. Work(w)'
    BY <1>1 DEF Drained, store, control, local, Seqs, Goto, Leave, Commits, NextEntry, LocalTypes, Work, Labels, Before, AtEntry, Draining
  <1>7. w \in Calls => CallWork(w)'
    BY <1>1 DEF Drained, store, control, local, Seqs, Goto, Leave, Commits, NextEntry, LocalTypes, CallWork, Labels, Before, AtEntry, Draining, Blocks
  <1>8. RecBatch'
    BY <1>1, <1>2 DEF TypeInv, RecBatch, Same, Workers, Drained, NextEntry, LocalTypes, FansOut, AtEntry, Draining
  <1> QED
    BY <1>1, <1>2, <1>3, <1>4, <1>5, <1>6, <1>7, <1>8, TypeStep DEF Frame

-----------------------------------------------------------------------------
(* The recovery, the clock and a crash. *)

LEMMA ClaimFanoutBatchTypes ==
  ASSUME TypeInv, ClaimFanoutBatch
  PROVE  TypeInv' /\ Frame(Rec)
  <1> DEFINE batch == {s \in Seqs : Due(s)}
  <1>1. Rec \in Workers /\ Rec \notin Calls /\ TypeOK /\ LocalTypes /\ Work(Rec)
    BY CallAssumption DEF TypeInv, WorkOK, Workers
  <1>2. batch \subseteq Seqs /\ (batch # {} => Min(batch) \in Seqs)
    BY MinIn DEF Seqs
  <1>3. tail' = [tail EXCEPT ![Rec] = batch]
    BY DEF ClaimFanoutBatch
  <1>4. \/ batch = {} /\ up' = "serving" /\ pc' = [pc EXCEPT ![Rec] = "done"] /\ left' = left
        \/ batch # {} /\ up' = up /\ pc' = [pc EXCEPT ![Rec] = "entry"] /\ left' = [left EXCEPT ![Rec] = {Min(batch)}]
    BY DEF ClaimFanoutBatch, Goto
  <1>5. UNCHANGED <<store, delivered, deferred, crashes, throws, before, todo, read, denied, items>>
    BY DEF ClaimFanoutBatch
  <1>6. pc[Rec] = "boot"
    BY DEF ClaimFanoutBatch
  <1> HIDE DEF batch
  <1>7. StoreGrows
    BY <1>1, <1>5 DEF StoreGrows, store, Seqs, TypeOK, Entry
  <1>8. \A v \in Workers : v # Rec => Same(v)
    BY <1>1, <1>3, <1>4, <1>5 DEF Same, LocalTypes
  <1>9. tail' \in [Workers -> SUBSET Seqs] /\ left' \in [Workers -> SUBSET Seqs] /\ tail'[Rec] = batch
    BY <1>1, <1>2, <1>3, <1>4 DEF LocalTypes
  <1>10. TypeOK'
    BY <1>1, <1>4, <1>5, <1>9 DEF TypeOK, store, Seqs
  <1>11. LocalTypes'
    <2>1. pc' \in [Workers -> Labels] /\ pc'[Rec] \in {"done", "entry"} /\ (\A c \in Calls : pc'[c] # "boot")
          /\ (up' = "serving" <=> pc'[Rec] = "done")
      BY <1>1, <1>4, <1>6 DEF LocalTypes, Labels, Before, AtEntry, Draining, Workers
    <2> QED
      BY <1>1, <1>5, <1>9, <2>1 DEF LocalTypes, store, Seqs
  <1>12. Work(Rec)' /\ RecBatch'
    BY <1>1, <1>4, <1>9 DEF Work, RecBatch, LocalTypes, FansOut, AtEntry, Draining
  <1> QED
    BY <1>1, <1>7, <1>8, <1>10, <1>11, <1>12, TypeStep DEF Frame

(* What is left of the batch. *)
LEMMA BatchTypes ==
  ASSUME TypeInv, NextOfBatch, pc[Rec] \in Draining
  PROVE  /\ Min(tail[Rec]) \in Seqs /\ Min(tail[Rec]) \in tail[Rec]
         /\ tail' \in [Workers -> SUBSET Seqs] /\ left' \in [Workers -> SUBSET Seqs] /\ pc' \in [Workers -> Labels]
         /\ tail'[Rec] = tail[Rec] \ {Min(tail[Rec])}
         /\ \/ tail'[Rec] = {} /\ pc'[Rec] = "boot" /\ left'[Rec] = {}
            \/ tail'[Rec] # {} /\ pc'[Rec] = "entry" /\ left'[Rec] = {Min(tail'[Rec])}
         /\ \A v \in Workers : v # Rec => pc'[v] = pc[v] /\ left'[v] = left[v] /\ tail'[v] = tail[v]
  <1>1. Rec \in Workers /\ TypeOK /\ LocalTypes
    BY DEF TypeInv, Workers
  <1>2. tail[Rec] \subseteq Seqs /\ tail[Rec] # {} /\ Seqs \subseteq Nat
    BY <1>1 DEF TypeInv, RecBatch, FansOut, TypeOK, Seqs
  <1>3. Min(tail[Rec]) \in tail[Rec]
    BY <1>2, MinIn
  <1>4. tail' = [tail EXCEPT ![Rec] = tail[Rec] \ {Min(tail[Rec])}]
    BY DEF NextOfBatch
  <1>5. tail' \in [Workers -> SUBSET Seqs] /\ tail'[Rec] = tail[Rec] \ {Min(tail[Rec])}
        /\ \A v \in Workers : v # Rec => tail'[v] = tail[v]
    BY <1>1, <1>4 DEF LocalTypes
  <1>6. tail'[Rec] # {} => Min(tail'[Rec]) \in Seqs
    BY <1>2, <1>5, MinIn
  <1>7. \/ tail'[Rec] = {} /\ left' = [left EXCEPT ![Rec] = {}] /\ pc' = [pc EXCEPT ![Rec] = "boot"]
        \/ tail'[Rec] # {} /\ left' = [left EXCEPT ![Rec] = {Min(tail'[Rec])}] /\ pc' = [pc EXCEPT ![Rec] = "entry"]
    BY DEF NextOfBatch, Goto
  <1>8. CASE tail'[Rec] = {}
    BY <1>1, <1>2, <1>3, <1>5, <1>7, <1>8 DEF LocalTypes, Labels
  <1>9. CASE tail'[Rec] # {}
    <2> DEFINE n == Min(tail'[Rec])
    <2>1. n \in Seqs /\ left' = [left EXCEPT ![Rec] = {n}] /\ pc' = [pc EXCEPT ![Rec] = "entry"]
      BY <1>6, <1>7, <1>9
    <2> HIDE DEF n
    <2>2. left' \in [Workers -> SUBSET Seqs] /\ left'[Rec] = {n} /\ pc' \in [Workers -> Labels] /\ pc'[Rec] = "entry"
          /\ \A v \in Workers : v # Rec => pc'[v] = pc[v] /\ left'[v] = left[v]
      BY <1>1, <2>1 DEF LocalTypes, Labels
    <2> QED
      BY <1>2, <1>3, <1>5, <1>9, <2>2 DEF n
  <1> QED
    BY <1>8, <1>9

LEMMA RecoveryAckTypes ==
  ASSUME TypeInv, RecoveryAck
  PROVE  TypeInv' /\ Frame(Rec)
  <1>1. Rec \in Workers /\ Rec \notin Calls /\ TypeOK /\ LocalTypes /\ pc[Rec] = "ack"
    BY CallAssumption DEF TypeInv, WorkOK, Workers, RecoveryAck
  <1>2. NextOfBatch /\ pc[Rec] \in Draining
    BY <1>1 DEF RecoveryAck, Draining
  <1>3. UNCHANGED <<journal, retryLater, waits, reactions, dedup, queue, applied, proj,
                    delivered, deferred, control, before, todo, read, denied, items>>
    BY DEF RecoveryAck
  <1>4. acked' \subseteq Seqs
    BY <1>1, <1>2, BatchTypes DEF RecoveryAck, TypeOK
  <1>5. StoreGrows
    BY <1>1, <1>3 DEF StoreGrows, Seqs, TypeOK, Entry
  <1>6. \A v \in Workers : v # Rec => Same(v)
    BY <1>2, <1>3, BatchTypes DEF Same
  <1>7. TypeOK'
    BY <1>1, <1>2, <1>3, <1>4, BatchTypes DEF TypeOK, control, Seqs
  <1>8. LocalTypes'
    BY <1>1, <1>2, <1>3, BatchTypes DEF LocalTypes, control, Seqs, Workers
  <1>9. Work(Rec)' /\ RecBatch'
    BY <1>2, BatchTypes DEF Work, RecBatch, FansOut, AtEntry, Draining
  <1> QED
    BY <1>1, <1>5, <1>6, <1>7, <1>8, <1>9, TypeStep DEF Frame

LEMMA RecoveryFailsTypes ==
  ASSUME TypeInv, RecoveryFails
  PROVE  TypeInv' /\ Frame(Rec)
  <1>1. Rec \in Workers /\ Rec \notin Calls /\ TypeOK /\ LocalTypes /\ pc[Rec] = "invoke"
    BY CallAssumption DEF TypeInv, WorkOK, Workers, RecoveryFails
  <1>2. NextOfBatch /\ pc[Rec] \in Draining
    BY <1>1 DEF RecoveryFails, Draining
  <1>3. UNCHANGED <<journal, acked, waits, reactions, dedup, queue, applied, proj,
                    delivered, deferred, up, crashes, before, todo, read, denied>>
        /\ throws' = throws + 1 /\ items' = [items EXCEPT ![Rec] = {}]
    BY DEF RecoveryFails
  <1>4. retryLater' \subseteq Seqs
    BY <1>1, <1>2, BatchTypes DEF RecoveryFails, TypeOK
  <1>5. StoreGrows
    BY <1>1, <1>3 DEF StoreGrows, Seqs, TypeOK, Entry
  <1>6. \A v \in Workers : v # Rec => Same(v)
    BY <1>1, <1>2, <1>3, BatchTypes DEF Same, LocalTypes
  <1>7. TypeOK'
    BY <1>1, <1>2, <1>3, <1>4, BatchTypes DEF TypeOK, Seqs
  <1>8. LocalTypes'
    BY <1>1, <1>2, <1>3, BatchTypes DEF LocalTypes, Seqs, Workers
  <1>9. Work(Rec)' /\ RecBatch'
    BY <1>2, BatchTypes DEF Work, RecBatch, FansOut, AtEntry, Draining
  <1> QED
    BY <1>1, <1>5, <1>6, <1>7, <1>8, <1>9, TypeStep DEF Frame

LEMMA StillTypes ==
  ASSUME TypeInv, RetryDue \/ UNCHANGED vars
  PROVE  TypeInv' /\ StoreGrows /\ \A v \in Workers : Same(v)
  <1>1. TypeOK /\ LocalTypes
    BY DEF TypeInv
  <1>2. UNCHANGED <<journal, acked, waits, reactions, dedup, queue, applied, proj, delivered, deferred, control, local>>
        /\ retryLater' \subseteq Seqs
    BY <1>1 DEF RetryDue, vars, store, TypeOK
  <1>3. StoreGrows /\ \A v \in Workers : Same(v)
    BY <1>1, <1>2 DEF StoreGrows, Seqs, TypeOK, Entry, Same, local
  <1>4. TypeOK'
    BY <1>1, <1>2 DEF TypeOK, Seqs, control, local
  <1>5. LocalTypes'
    BY <1>1, <1>2 DEF LocalTypes, Seqs, control, local
  <1>6. RecBatch'
    BY <1>2 DEF TypeInv, RecBatch, local
  <1>7. Calls \subseteq Workers
    BY DEF Workers
  <1> QED
    BY <1>3, <1>4, <1>5, <1>6, <1>7, WorkKept DEF TypeInv, WorkOK

\* What is left of a worker that a crash finds.
Crashed(w) ==
    /\ pc'[w] = IF w = Rec THEN "boot" ELSE IF pc[w] \in {"new", "done", "thrown"} THEN pc[w] ELSE "gone"
    /\ before'[w] = 0 /\ tail'[w] = {} /\ left'[w] = {} /\ todo'[w] = {} /\ read'[w] = None
    /\ items'[w] = {} /\ denied'[w] = FALSE

LEMMA CrashTypes ==
  ASSUME TypeInv, Crash
  PROVE  TypeInv' /\ StoreGrows /\ \A w \in Workers : Crashed(w)
  <1>1. TypeOK /\ LocalTypes /\ Rec \in Workers /\ Rec \notin Calls /\ Calls \subseteq Workers
    BY CallAssumption DEF TypeInv, Workers
  <1>2. UNCHANGED <<journal, acked, retryLater, waits, reactions, dedup, queue, applied, proj, delivered, throws>>
        /\ up' = "booting" /\ crashes' = crashes + 1 /\ deferred' = [c \in Calls |-> None]
    BY DEF Crash, store
  <1>3. ASSUME NEW w \in Workers PROVE Crashed(w)
    BY DEF Crash, Crashed
  <1>4. StoreGrows
    BY <1>1, <1>2 DEF StoreGrows, Seqs, TypeOK, Entry
  <1>5. left' \in [Workers -> SUBSET Seqs'] /\ tail' \in [Workers -> SUBSET Seqs']
        /\ todo' \in [Workers -> SUBSET (Calls \cup Reactions)] /\ items' \in [Workers -> SUBSET DOMAIN queue']
    BY DEF Crash
  <1>6. read' \in [Workers -> Reads] /\ before' \in [Workers -> Nat]
    BY ReadIsTyped DEF Crash
  <1>7. pc' \in [Workers -> Labels]
    BY <1>1 DEF Crash, LocalTypes, Labels, Before
  <1>8. denied' \in [Workers -> BOOLEAN]
    BY DEF Crash
  <1>9. TypeOK'
    <2>1. deferred' \in [Calls -> {None, Open} \cup Answer]
      BY <1>2
    <2> QED
      BY <1>1, <1>2, <1>5, <1>8, <2>1 DEF TypeOK, Seqs
  <1>10. LocalTypes'
    <2>1. pc'[Rec] = "boot" /\ up' = "booting"
      BY <1>1, <1>2, <1>3 DEF Crashed
    <2>2. ASSUME NEW c \in Calls PROVE pc'[c] # "boot"
      BY <1>1, <1>3 DEF Crashed
    <2>3. crashes' \in Nat /\ throws' \in Nat
      BY <1>1, <1>2 DEF LocalTypes
    <2> QED
      BY <1>5, <1>6, <1>7, <2>1, <2>2, <2>3 DEF LocalTypes
  <1>11. ASSUME NEW w \in Workers PROVE Work(w)' /\ (w \in Calls => CallWork(w)')
    BY <1>1, <1>3 DEF Work, CallWork, Crashed, AtEntry, Draining
  <1>12. RecBatch'
    BY <1>1, <1>3 DEF RecBatch, Crashed, FansOut, AtEntry, Draining
  <1> QED
    BY <1>1, <1>3, <1>4, <1>9, <1>10, <1>11, <1>12 DEF TypeInv, WorkOK

LEMMA InitTypes ==
  ASSUME Init
  PROVE  TypeInv
  <1>1. Rec \in Workers /\ Rec \notin Calls /\ Calls \subseteq Workers /\ Seqs = {} /\ Seqs \subseteq Nat
    BY CallAssumption DEF Workers, Init, Seqs
  <1>2. waits \in [Calls -> WaitRecord \cup {None}] /\ reactions \in [Reactions -> ReactionRecord \cup {None}]
        /\ deferred \in [Calls -> {None, Open} \cup Answer] /\ denied \in [Workers -> BOOLEAN]
    BY DEF Init
  <1>3. proj \in [Aggs \cup {None} -> Seq(Seqs)] /\ journal \in Seq(Entry)
        /\ queue \in Seq([reaction : Reactions, seq : Seqs, status : {"pending", "processing", "done"}])
    BY DEF Init
  <1>4. TypeOK
    BY <1>2, <1>3 DEF TypeOK, Init, Entry
  <1>5. pc \in [Workers -> Labels] /\ read \in [Workers -> Reads]
    BY ReadIsTyped DEF Init, Labels, Before
  <1>6. LocalTypes
    BY <1>1, <1>5 DEF LocalTypes, Init
  <1>7. RecBatch /\ WorkOK
    BY <1>1 DEF RecBatch, WorkOK, Work, CallWork, Init, FansOut, AtEntry, Draining
  <1> QED
    BY <1>4, <1>6, <1>7 DEF TypeInv

-----------------------------------------------------------------------------
(* The steps of a worker. *)

LEMMA CallTypes ==
  ASSUME TypeInv, NEW c \in Calls, Begin(c) \/ Call(c)
  PROVE  TypeInv' /\ Frame(c)
  BY BeginTypes, RegisterBlockWaitTypes, RegisterDeferredTypes, ReadMaxSeqTypes, LoadTypes,
     DisableReactionTypes, CommitEntryTypes, CommitThrowsTypes, CommitWaitRegisterTypes, CommitWaitCancelTypes,
     CommitReactionRegisterTypes, CommitReactionDisableTypes, ReplayTypes, ReplayDedupTypes, ReplayInvokeTypes,
     TailJournalTypes, AckFanoutTypes, FinishTypes, UnblockTypes, InvokeThrowsTypes DEF Call

LEMMA DispatchTypes ==
  ASSUME TypeInv, NEW w \in Workers, Dispatch(w)
  PROVE  TypeInv' /\ Frame(w)
  BY DispatchEntryTypes, UpdateWaitTypes, SkipEntryTypes, ListReactionsTypes, NotifyWaitTypes, DedupReadTypes,
     EnqueueReactionTypes, MarkProjectionTypes, LoadProjectionTypes, FlushProjectionTypes,
     ClaimReactionBatchTypes, InvokeActionTypes, CompleteReactionTypes, DrainedTypes DEF Dispatch

LEMMA StepTypes ==
  ASSUME TypeInv, [Next]_vars
  PROVE  TypeInv' /\ StoreGrows
  <1>1. Calls \subseteq Workers /\ Rec \in Workers
    BY DEF Workers
  <1> QED
    BY <1>1, CallTypes, DispatchTypes, ClaimFanoutBatchTypes, RecoveryAckTypes, RecoveryFailsTypes,
       StillTypes, CrashTypes DEF Next, Recovery, Frame

LEMMA TypeInvHolds == Spec => []TypeInv
  <1>1. Init => TypeInv
    BY InitTypes
  <1>2. TypeInv /\ [Next]_vars => TypeInv'
    BY StepTypes
  <1> QED
    BY <1>1, <1>2, PTL DEF Spec

(* Every row of the store keeps its shape, and no row or call of the       *)
(* kernel holds on to a seq that the journal does not have (SqliteKernel   *)
(* store's tables, RuntimeKernel.dispatchFanout), for any calls, with any  *)
(* number of them in flight, of crashes and of throwing actions.           *)
THEOREM FanoutTypes == Spec => []TypeOK
  BY TypeInvHolds, PTL DEF TypeInv

(* The daemon serves again only when every row of the outbox is            *)
(* acknowledged or put off by a failed action (drainOutbox loops until a   *)
(* claim finds nothing before serve is called).                            *)
THEOREM ServesDrained == Spec => BootDrainsOutbox
  <1>1. ASSUME TypeInv, [Next]_vars PROVE [(up = "booting" /\ up' = "serving") => Outbox \subseteq retryLater]_vars
    <2> SUFFICES ASSUME Next, up = "booting", up' = "serving" PROVE Outbox \subseteq retryLater
      BY <1>1
    <2>1. ClaimFanoutBatch
      <3>1. ASSUME NEW c \in Calls, Begin(c) \/ Call(c) PROVE up' = up
        BY <3>1 DEF Begin, Call, control, RegisterBlockWait, RegisterDeferred, ReadMaxSeq, Load, DisableReaction,
           CommitEntry, CommitThrows, CommitWaitRegister, CommitWaitCancel, CommitReactionRegister,
           CommitReactionDisable, Replay, ReplayDedup, ReplayInvoke, TailJournal, AckFanout, Finish, Unblock, InvokeThrows
      <3>2. ASSUME NEW w \in Workers, Dispatch(w) PROVE up' = up
        BY <3>2 DEF Dispatch, control, DispatchEntry, UpdateWait, SkipEntry, ListReactions, NotifyWait, DedupRead,
           EnqueueReaction, MarkProjection, LoadProjection, FlushProjection, ClaimReactionBatch, InvokeAction,
           CompleteReaction, Drained
      <3>3. RecoveryAck \/ RecoveryFails \/ RetryDue => up' = up
        BY DEF RecoveryAck, RecoveryFails, RetryDue, control
      <3>4. Crash => up' = "booting"
        BY DEF Crash
      <3> QED
        BY <3>1, <3>2, <3>3, <3>4 DEF Next, Recovery, Workers
    <2>2. {s \in Seqs : Due(s)} = {}
      BY <2>1 DEF ClaimFanoutBatch
    <2> QED
      BY <2>2 DEF Due, Outbox
  <1> QED
    BY <1>1, TypeInvHolds, PTL DEF Spec, BootDrainsOutbox
-----------------------------------------------------------------------------
(* Fan-out. *)

Unblocked ==
    /\ \A c \in Calls : ~ Blocks(c)
    /\ \A c, d \in Calls :
          Cmd[c].kind = "reaction.register" /\ Cmd[d].kind = "reaction.register"
             /\ Cmd[c].reaction = Cmd[d].reaction => c = d

\* What is still to be done for an entry.
Unsettled(x, s) == WaitsFor(x, s) /\ waits[x].status = "pending"
Missing(r, s) == Awaits(r, s) /\ <<r, s>> \notin dedup

FannedOut(s) ==
    /\ s \in applied
    /\ \A r \in Reactions : ~ Missing(r, s)
    /\ \A x \in Calls : ~ Unsettled(x, s)

(* Calls append when they commit, reactions are known from the entry that  *)
(* registers them on, and what was read of a reaction row is still so.     *)
StoreOK ==
    /\ \A s \in Seqs : pc[journal[s].call] \notin Before
    /\ \A s \in Seqs :
          journal[s].type = "reaction.registered" =>
             LET c == journal[s].call
             IN  /\ Cmd[c].kind = "reaction.register"
                 /\ reactions[Cmd[c].reaction] # None /\ reactions[Cmd[c].reaction].since <= s
    /\ \A r \in Reactions :
          reactions[r] # None =>
             \E c \in Calls : /\ Cmd[c].kind = "reaction.register" /\ Cmd[c].reaction = r
                              /\ pc[c] \notin Before
    /\ \A c \in Calls :
          /\ pc[c] = "commit" /\ Cmd[c].kind = "reaction.register" => read[c].maxSeq <= Len(journal)
          /\ pc[c] = "disable" /\ read[c] # None =>
                reactions[Cmd[c].reaction] # None /\ read[c].since = reactions[Cmd[c].reaction].since

(* What a worker still has to do for the entry it is at is in its todo     *)
(* set.                                                                    *)
AtWork(w) ==
    LET s == Min(left[w])
    IN  /\ pc[w] \in {"waits", "update"} =>
              \A x \in Calls : Unsettled(x, s) => x \in todo[w]
        /\ pc[w] \in {"reactions", "enqueue", "projLoad", "projFlush"} =>
              \A x \in Calls : ~ Unsettled(x, s)
        /\ pc[w] \in {"reactions", "enqueue"} =>
              \A r \in Reactions : Missing(r, s) => r \in todo[w]
        /\ pc[w] = "enqueue" /\ read[w].exists => <<read[w].reaction, s>> \in dedup
        /\ pc[w] \in {"projLoad", "projFlush"} => \A r \in Reactions : ~ Missing(r, s)

(* The entries of a call's tail wait in left or are fanned out; of the     *)
(* recovery's batch that is so of the entry it is at.                      *)
CallTail(c) == pc[c] \in FansOut => \A s \in tail[c] : s \in left[c] \/ FannedOut(s)
RecTail ==
    pc[Rec] \in FansOut => Min(tail[Rec]) \in left[Rec] \/ FannedOut(Min(tail[Rec]))

FanOK ==
    /\ \A w \in Workers : AtWork(w)
    /\ \A c \in Calls : CallTail(c)
    /\ RecTail
    /\ \A s \in acked : FannedOut(s)


(* What a step may do to the store: entries are appended by a call that    *)
(* thereby commits, a reaction is registered by the call that commits its  *)
(* entry or is disabled, a wait is registered or settled, and nothing      *)
(* leaves the ledger and the marks.                                        *)
Committed == \A c \in Calls : pc[c] \notin Before => pc'[c] \notin Before

NewEntries ==
    \A s \in Seqs' : s \notin Seqs =>
        LET c == journal'[s].call
        IN  /\ pc'[c] \notin Before
            /\ journal'[s].type = "reaction.registered" =>
                  /\ Cmd[c].kind = "reaction.register"
                  /\ reactions'[Cmd[c].reaction] # None /\ reactions'[Cmd[c].reaction].since <= s

Registers(r) ==
    /\ reactions'[r] # None
    /\ \E c \in Calls : /\ Cmd[c].kind = "reaction.register" /\ Cmd[c].reaction = r
                        /\ pc[c] \in Before /\ pc'[c] \notin Before
Disables(r) ==
    /\ reactions[r] # None /\ reactions'[r] # None
    /\ reactions'[r].since = reactions[r].since /\ ~ reactions'[r].enabled
ReactionSteps == \A r \in Reactions : reactions'[r] = reactions[r] \/ Registers(r) \/ Disables(r)

WaitSteps == \A x \in Calls : waits'[x] = waits[x] \/ waits'[x].status # "pending" \/ pc[x] \in Before

Rereads ==
    \A c \in Calls :
        /\ pc'[c] = "commit" /\ Cmd[c].kind = "reaction.register" =>
              \/ pc[c] = "commit" /\ read'[c] = read[c]
              \/ read'[c].maxSeq = Len(journal)
        /\ pc'[c] = "disable" =>
              \/ pc[c] = "disable" /\ read'[c] = read[c]
              \/ read'[c] = reactions[Cmd[c].reaction] /\ reactions' = reactions

Orderly ==
    /\ Committed /\ NewEntries /\ ReactionSteps /\ WaitSteps /\ Rereads
    /\ applied \subseteq applied' /\ dedup \subseteq dedup'

LEMMA EntryAt ==
  ASSUME TypeInv, NEW s \in Seqs
  PROVE  /\ journal[s] \in Entry /\ journal[s].call \in Calls /\ journal[s].agg \in Aggs \cup {None}
         /\ journal[s].type \in EntryTypes
  <1>1. journal \in Seq(Entry) /\ s \in DOMAIN journal
    BY DEF TypeInv, TypeOK, Entry, Seqs
  <1>2. journal[s] \in Entry
    BY <1>1, SeqOf
  <1> QED
    BY <1>2 DEF Entry

LEMMA StoreKept ==
  ASSUME TypeInv, TypeInv', Unblocked, StoreOK, StoreGrows, Orderly
  PROVE  StoreOK'
  <1>1. ASSUME NEW s \in Seqs' PROVE pc'[journal'[s].call] \notin Before
    <2>1. CASE s \in Seqs
      <3>1. journal'[s] = journal[s] /\ pc[journal[s].call] \notin Before /\ journal[s] \in Entry
        BY <2>1, EntryAt DEF StoreGrows, StoreOK
      <3>2. journal[s].call \in Calls
        BY <3>1 DEF Entry
      <3> QED
        BY <3>1, <3>2 DEF Orderly, Committed
    <2>2. CASE s \notin Seqs
      BY <2>2 DEF Orderly, NewEntries
    <2> QED
      BY <2>1, <2>2
  <1>2. ASSUME NEW s \in Seqs', journal'[s].type = "reaction.registered"
        PROVE  LET c == journal'[s].call
               IN  /\ Cmd[c].kind = "reaction.register"
                   /\ reactions'[Cmd[c].reaction] # None /\ reactions'[Cmd[c].reaction].since <= s
    <2>1. CASE s \in Seqs
      <3> DEFINE c == journal[s].call
                 r == Cmd[c].reaction
      <3>1. journal'[s] = journal[s] /\ c \in Calls
        BY <2>1, EntryAt DEF StoreGrows
      <3>2. Cmd[c].kind = "reaction.register" /\ reactions[r] # None /\ reactions[r].since <= s /\ pc[c] \notin Before
        BY <1>2, <2>1, <3>1 DEF StoreOK
      <3>3. r \in Reactions
        BY <3>1, <3>2, CmdIsTyped DEF WellFormed
      <3> HIDE DEF c, r
      <3>4. ~ Registers(r)
        BY <3>1, <3>2 DEF Registers, Unblocked, r
      <3>5. reactions'[r] # None /\ reactions'[r].since <= s
        BY <3>2, <3>3, <3>4 DEF Orderly, ReactionSteps, Disables
      <3> QED
        BY <3>1, <3>2, <3>5 DEF r, c
    <2>2. CASE s \notin Seqs
      BY <1>2, <2>2 DEF Orderly, NewEntries
    <2> QED
      BY <2>1, <2>2
  <1>3. ASSUME NEW r \in Reactions, reactions'[r] # None
        PROVE  \E c \in Calls : Cmd[c].kind = "reaction.register" /\ Cmd[c].reaction = r /\ pc'[c] \notin Before
    <2>1. CASE Registers(r)
      BY <2>1 DEF Registers
    <2>2. CASE reactions[r] # None
      BY <2>2 DEF StoreOK, Orderly, Committed
    <2> QED
      BY <1>3, <2>1, <2>2 DEF Orderly, ReactionSteps, Disables
  <1>4. ASSUME NEW c \in Calls, pc'[c] = "commit", Cmd[c].kind = "reaction.register"
        PROVE  read'[c].maxSeq <= Len(journal')
    <2>1. Len(journal) \in Nat /\ Len(journal') \in Nat /\ Len(journal) <= Len(journal')
      BY DEF StoreGrows, TypeInv, TypeOK
    <2>2. CASE pc[c] = "commit" /\ read'[c] = read[c]
      <3>1. read[c] \in [maxSeq : Nat] /\ read[c].maxSeq <= Len(journal)
        BY <1>4, <2>2 DEF StoreOK, TypeInv, WorkOK, CallWork
      <3> QED
        BY <2>1, <2>2, <3>1
    <2>3. CASE read'[c].maxSeq = Len(journal)
      BY <2>1, <2>3
    <2> QED
      BY <1>4, <2>2, <2>3 DEF Orderly, Rereads
  <1>5. ASSUME NEW c \in Calls, pc'[c] = "disable", read'[c] # None
        PROVE  reactions'[Cmd[c].reaction] # None /\ read'[c].since = reactions'[Cmd[c].reaction].since
    <2> DEFINE r == Cmd[c].reaction
    <2>1. Cmd[c].kind = "reaction.disable" /\ r \in Reactions
      BY <1>5, CmdIsTyped DEF TypeInv, WorkOK, CallWork, WellFormed
    <2>2. CASE pc[c] = "disable" /\ read'[c] = read[c]
      <3>1. reactions[r] # None /\ read[c].since = reactions[r].since
        BY <1>5, <2>2 DEF StoreOK
      <3>2. ~ Registers(r)
        BY <2>1, <3>1 DEF Registers, StoreOK, Unblocked
      <3> QED
        BY <2>1, <2>2, <3>1, <3>2 DEF Orderly, ReactionSteps, Disables
    <2>3. CASE read'[c] = reactions[r] /\ reactions' = reactions
      BY <1>5, <2>3
    <2> QED
      BY <1>5, <2>2, <2>3 DEF Orderly, Rereads
  <1> QED
    BY <1>1, <1>2, <1>3, <1>4, <1>5 DEF StoreOK

(* What is done for an entry stays done. *)
LEMMA Settles ==
  ASSUME TypeInv, Unblocked, StoreOK, StoreGrows, Orderly, NEW s \in Seqs
  PROVE  /\ \A x \in Calls : Unsettled(x, s)' => Unsettled(x, s)
         /\ \A r \in Reactions : Missing(r, s)' => Missing(r, s)
         /\ FannedOut(s) => FannedOut(s)'
  <1>1. ASSUME NEW q \in 1 .. s PROVE q \in Seqs /\ journal'[q] = journal[q]
    BY DEF StoreGrows, Seqs
  <1>2. s \in 1 .. s /\ \A q \in 1 .. (s - 1) : q \in 1 .. s
    BY DEF Seqs
  <1>3. ASSUME NEW x \in Calls, Unsettled(x, s)' PROVE Unsettled(x, s)
    <2>1. waits'[x].status = "pending" /\ WaitsFor(x, s)'
      BY <1>3 DEF Unsettled
    <2>2. \/ \E q \in 1 .. (s - 1) : journal[q].type = "wait.registered" /\ journal[q].call = x
          \/ journal[s].call = x
      BY <1>1, <1>2, <2>1 DEF WaitsFor
    <2>3. pc[x] \notin Before
      BY <1>1, <1>2, <2>2 DEF StoreOK
    <2>4. waits'[x] = waits[x]
      BY <2>1, <2>3 DEF Orderly, WaitSteps
    <2>5. Concerns(journal[s], x) /\ journal[s].ok /\ journal[s].type = waits[x].on
      BY <1>1, <1>2, <2>1, <2>4 DEF WaitsFor, Concerns
    <2> QED
      BY <2>1, <2>2, <2>4, <2>5 DEF Unsettled, WaitsFor
  <1>4. ASSUME NEW r \in Reactions, Missing(r, s)' PROVE Missing(r, s)
    <2>1. Awaits(r, s)' /\ <<r, s>> \notin dedup'
      BY <1>4 DEF Missing
    <2>2. PICK q \in 1 .. (s - 1) : journal'[q].type = "reaction.registered" /\ Cmd[journal'[q].call].reaction = r
      BY <2>1 DEF Awaits
    <2>3. q \in Seqs /\ journal'[q] = journal[q] /\ journal'[s] = journal[s] /\ journal[q].call \in Calls
      BY <1>1, <1>2, EntryAt
    <2>4. Cmd[journal[q].call].kind = "reaction.register" /\ pc[journal[q].call] \notin Before
      BY <2>2, <2>3 DEF StoreOK
    <2>5. ~ Registers(r)
      BY <2>2, <2>3, <2>4 DEF Registers, Unblocked
    <2>6. reactions'[r] = reactions[r]
      BY <2>1, <2>5 DEF Orderly, ReactionSteps, Disables, Awaits
    <2>7. <<r, s>> \notin dedup
      BY <2>1 DEF Orderly
    <2>8. Awaits(r, s)
      BY <2>1, <2>2, <2>3, <2>6 DEF Awaits
    <2> QED
      BY <2>7, <2>8 DEF Missing
  <1>5. s \in applied => s \in applied'
    BY DEF Orderly
  <1> QED
    BY <1>3, <1>4, <1>5 DEF FannedOut

(* Entries that one call appends. *)
LEMMA NoNewEntries ==
  ASSUME UNCHANGED journal
  PROVE  NewEntries
  BY DEF NewEntries, Seqs

\* Every step of a call that leaves the store's rows alone.
LEMMA QuietOrderly ==
  ASSUME UNCHANGED <<journal, waits, reactions>>, applied \subseteq applied', dedup \subseteq dedup',
         Committed, Rereads
  PROVE  Orderly
  BY NoNewEntries DEF Orderly, ReactionSteps, WaitSteps

LEMMA RegisterDeferredOrderly ==
  ASSUME TypeInv, NEW c \in Calls, Frame(c), RegisterDeferred(c)
  PROVE  Orderly
  <1>1. UNCHANGED <<journal, waits, reactions>> /\ applied \subseteq applied' /\ dedup \subseteq dedup'
    BY DEF RegisterDeferred, store
  <1>2. c \in Workers /\ Calls \subseteq Workers /\ pc \in [Workers -> Labels] /\ read \in [Workers -> Reads]
    BY DEF TypeInv, LocalTypes, Workers
  <1>3. \A d \in Calls : d # c => pc'[d] = pc[d] /\ read'[d] = read[d]
    BY <1>2 DEF Frame, Same
  <1>4. Committed
    BY <1>2, <1>3 DEF RegisterDeferred, store, Goto, Leave, Commits, NextEntry, Committed, Before, AtEntry, Draining
  <1>5. Rereads
    BY <1>2, <1>3 DEF RegisterDeferred, Rereads, Frame, Same, LocalTypes, store, Goto, Leave, Commits, NextEntry, Workers
  <1> QED
    BY <1>1, <1>4, <1>5, QuietOrderly

LEMMA ReadMaxSeqOrderly ==
  ASSUME TypeInv, NEW c \in Calls, Frame(c), ReadMaxSeq(c)
  PROVE  Orderly
  <1>1. UNCHANGED <<journal, waits, reactions>> /\ applied \subseteq applied' /\ dedup \subseteq dedup'
    BY DEF ReadMaxSeq, store
  <1>2. c \in Workers /\ Calls \subseteq Workers /\ pc \in [Workers -> Labels] /\ read \in [Workers -> Reads]
    BY DEF TypeInv, LocalTypes, Workers
  <1>3. \A d \in Calls : d # c => pc'[d] = pc[d] /\ read'[d] = read[d]
    BY <1>2 DEF Frame, Same
  <1>4. Committed
    BY <1>2, <1>3 DEF ReadMaxSeq, store, Goto, Leave, Commits, NextEntry, Committed, Before, AtEntry, Draining
  <1>5. Rereads
    BY <1>2, <1>3, CmdIsTyped DEF ReadMaxSeq, Rereads, Frame, Same, LocalTypes, store, Goto, Leave, Commits, NextEntry, Workers, Kinds
  <1> QED
    BY <1>1, <1>4, <1>5, QuietOrderly

LEMMA LoadOrderly ==
  ASSUME TypeInv, NEW c \in Calls, Frame(c), Load(c)
  PROVE  Orderly
  <1>1. UNCHANGED <<journal, waits, reactions>> /\ applied \subseteq applied' /\ dedup \subseteq dedup'
    BY DEF Load, store
  <1>2. c \in Workers /\ Calls \subseteq Workers /\ pc \in [Workers -> Labels] /\ read \in [Workers -> Reads]
    BY DEF TypeInv, LocalTypes, Workers
  <1>3. \A d \in Calls : d # c => pc'[d] = pc[d] /\ read'[d] = read[d]
    BY <1>2 DEF Frame, Same
  <1>4. Committed
    BY <1>2, <1>3 DEF Load, store, Goto, Leave, Commits, NextEntry, Committed, Before, AtEntry, Draining
  <1>5. Rereads
    BY <1>2, <1>3, CmdIsTyped DEF Load, Rereads, Frame, Same, LocalTypes, store, Goto, Leave, Commits, NextEntry, Workers, Kinds
  <1> QED
    BY <1>1, <1>4, <1>5, QuietOrderly

LEMMA CommitThrowsOrderly ==
  ASSUME TypeInv, NEW c \in Calls, Frame(c), CommitThrows(c)
  PROVE  Orderly
  <1>1. UNCHANGED <<journal, waits, reactions>> /\ applied \subseteq applied' /\ dedup \subseteq dedup'
    BY DEF CommitThrows, store
  <1>2. c \in Workers /\ Calls \subseteq Workers /\ pc \in [Workers -> Labels] /\ read \in [Workers -> Reads]
    BY DEF TypeInv, LocalTypes, Workers
  <1>3. \A d \in Calls : d # c => pc'[d] = pc[d] /\ read'[d] = read[d]
    BY <1>2 DEF Frame, Same
  <1>4. Committed
    BY <1>2, <1>3 DEF CommitThrows, store, Goto, Leave, Commits, NextEntry, Committed, Before, AtEntry, Draining
  <1>5. Rereads
    BY <1>2, <1>3 DEF CommitThrows, Rereads, Frame, Same, LocalTypes, store, Goto, Leave, Commits, NextEntry, Workers
  <1> QED
    BY <1>1, <1>4, <1>5, QuietOrderly

LEMMA ReplayOrderly ==
  ASSUME TypeInv, NEW c \in Calls, Frame(c), Replay(c)
  PROVE  Orderly
  <1>1. UNCHANGED <<journal, waits, reactions>> /\ applied \subseteq applied' /\ dedup \subseteq dedup'
    BY DEF Replay, store
  <1>2. c \in Workers /\ Calls \subseteq Workers /\ pc \in [Workers -> Labels] /\ read \in [Workers -> Reads]
    BY DEF TypeInv, LocalTypes, Workers
  <1>3. \A d \in Calls : d # c => pc'[d] = pc[d] /\ read'[d] = read[d]
    BY <1>2 DEF Frame, Same
  <1>4. Committed
    BY <1>2, <1>3 DEF Replay, store, Goto, Leave, Commits, NextEntry, Committed, Before, AtEntry, Draining
  <1>5. Rereads
    BY <1>2, <1>3 DEF Replay, Rereads, Frame, Same, LocalTypes, store, Goto, Leave, Commits, NextEntry, Workers
  <1> QED
    BY <1>1, <1>4, <1>5, QuietOrderly

LEMMA ReplayDedupOrderly ==
  ASSUME TypeInv, NEW c \in Calls, Frame(c), ReplayDedup(c)
  PROVE  Orderly
  <1>1. UNCHANGED <<journal, waits, reactions>> /\ applied \subseteq applied' /\ dedup \subseteq dedup'
    BY DEF ReplayDedup, store
  <1>2. c \in Workers /\ Calls \subseteq Workers /\ pc \in [Workers -> Labels] /\ read \in [Workers -> Reads]
    BY DEF TypeInv, LocalTypes, Workers
  <1>3. \A d \in Calls : d # c => pc'[d] = pc[d] /\ read'[d] = read[d]
    BY <1>2 DEF Frame, Same
  <1>4. Committed
    BY <1>2, <1>3 DEF ReplayDedup, store, Goto, Leave, Commits, NextEntry, Committed, Before, AtEntry, Draining
  <1>5. Rereads
    BY <1>2, <1>3 DEF ReplayDedup, Rereads, Frame, Same, LocalTypes, store, Goto, Leave, Commits, NextEntry, Workers
  <1> QED
    BY <1>1, <1>4, <1>5, QuietOrderly

LEMMA ReplayInvokeOrderly ==
  ASSUME TypeInv, NEW c \in Calls, Frame(c), ReplayInvoke(c)
  PROVE  Orderly
  <1>1. UNCHANGED <<journal, waits, reactions>> /\ applied \subseteq applied' /\ dedup \subseteq dedup'
    BY DEF ReplayInvoke, store
  <1>2. c \in Workers /\ Calls \subseteq Workers /\ pc \in [Workers -> Labels] /\ read \in [Workers -> Reads]
    BY DEF TypeInv, LocalTypes, Workers
  <1>3. \A d \in Calls : d # c => pc'[d] = pc[d] /\ read'[d] = read[d]
    BY <1>2 DEF Frame, Same
  <1>4. Committed
    BY <1>2, <1>3 DEF ReplayInvoke, store, Goto, Leave, Commits, NextEntry, Committed, Before, AtEntry, Draining
  <1>5. Rereads
    BY <1>2, <1>3 DEF ReplayInvoke, Rereads, Frame, Same, LocalTypes, store, Goto, Leave, Commits, NextEntry, Workers
  <1> QED
    BY <1>1, <1>4, <1>5, QuietOrderly

LEMMA TailJournalOrderly ==
  ASSUME TypeInv, NEW c \in Calls, Frame(c), TailJournal(c)
  PROVE  Orderly
  <1>1. UNCHANGED <<journal, waits, reactions>> /\ applied \subseteq applied' /\ dedup \subseteq dedup'
    BY DEF TailJournal, store
  <1>2. c \in Workers /\ Calls \subseteq Workers /\ pc \in [Workers -> Labels] /\ read \in [Workers -> Reads]
    BY DEF TypeInv, LocalTypes, Workers
  <1>3. \A d \in Calls : d # c => pc'[d] = pc[d] /\ read'[d] = read[d]
    BY <1>2 DEF Frame, Same
  <1>4. Committed
    BY <1>2, <1>3 DEF TailJournal, store, Goto, Leave, Commits, NextEntry, Committed, Before, AtEntry, Draining
  <1>5. Rereads
    BY <1>2, <1>3 DEF TailJournal, Rereads, Frame, Same, LocalTypes, store, Goto, Leave, Commits, NextEntry, Workers
  <1> QED
    BY <1>1, <1>4, <1>5, QuietOrderly

LEMMA AckFanoutOrderly ==
  ASSUME TypeInv, NEW c \in Calls, Frame(c), AckFanout(c)
  PROVE  Orderly
  <1>1. UNCHANGED <<journal, waits, reactions>> /\ applied \subseteq applied' /\ dedup \subseteq dedup'
    BY DEF AckFanout, store
  <1>2. c \in Workers /\ Calls \subseteq Workers /\ pc \in [Workers -> Labels] /\ read \in [Workers -> Reads]
    BY DEF TypeInv, LocalTypes, Workers
  <1>3. \A d \in Calls : d # c => pc'[d] = pc[d] /\ read'[d] = read[d]
    BY <1>2 DEF Frame, Same
  <1>4. Committed
    BY <1>2, <1>3 DEF AckFanout, store, Goto, Leave, Commits, NextEntry, Committed, Before, AtEntry, Draining
  <1>5. Rereads
    BY <1>2, <1>3 DEF AckFanout, Rereads, Frame, Same, LocalTypes, store, Goto, Leave, Commits, NextEntry, Workers
  <1> QED
    BY <1>1, <1>4, <1>5, QuietOrderly

LEMMA FinishOrderly ==
  ASSUME TypeInv, NEW c \in Calls, Frame(c), Finish(c)
  PROVE  Orderly
  <1>1. UNCHANGED <<journal, waits, reactions>> /\ applied \subseteq applied' /\ dedup \subseteq dedup'
    BY DEF Finish, store
  <1>2. c \in Workers /\ Calls \subseteq Workers /\ pc \in [Workers -> Labels] /\ read \in [Workers -> Reads]
    BY DEF TypeInv, LocalTypes, Workers
  <1>3. \A d \in Calls : d # c => pc'[d] = pc[d] /\ read'[d] = read[d]
    BY <1>2 DEF Frame, Same
  <1>4. Committed
    BY <1>2, <1>3 DEF Finish, store, Goto, Leave, Commits, NextEntry, Committed, Before, AtEntry, Draining
  <1>5. Rereads
    BY <1>2, <1>3 DEF Finish, Rereads, Frame, Same, LocalTypes, store, Goto, Leave, Commits, NextEntry, Workers
  <1> QED
    BY <1>1, <1>4, <1>5, QuietOrderly

LEMMA UnblockOrderly ==
  ASSUME TypeInv, NEW c \in Calls, Frame(c), Unblock(c)
  PROVE  Orderly
  <1>1. UNCHANGED <<journal, waits, reactions>> /\ applied \subseteq applied' /\ dedup \subseteq dedup'
    BY DEF Unblock, store
  <1>2. c \in Workers /\ Calls \subseteq Workers /\ pc \in [Workers -> Labels] /\ read \in [Workers -> Reads]
    BY DEF TypeInv, LocalTypes, Workers
  <1>3. \A d \in Calls : d # c => pc'[d] = pc[d] /\ read'[d] = read[d]
    BY <1>2 DEF Frame, Same
  <1>4. Committed
    BY <1>2, <1>3 DEF Unblock, store, Goto, Leave, Commits, NextEntry, Committed, Before, AtEntry, Draining
  <1>5. Rereads
    BY <1>2, <1>3 DEF Unblock, Rereads, Frame, Same, LocalTypes, store, Goto, Leave, Commits, NextEntry, Workers
  <1> QED
    BY <1>1, <1>4, <1>5, QuietOrderly

LEMMA InvokeThrowsOrderly ==
  ASSUME TypeInv, NEW c \in Calls, Frame(c), InvokeThrows(c)
  PROVE  Orderly
  <1>1. UNCHANGED <<journal, waits, reactions>> /\ applied \subseteq applied' /\ dedup \subseteq dedup'
    BY DEF InvokeThrows, store
  <1>2. c \in Workers /\ Calls \subseteq Workers /\ pc \in [Workers -> Labels] /\ read \in [Workers -> Reads]
    BY DEF TypeInv, LocalTypes, Workers
  <1>3. \A d \in Calls : d # c => pc'[d] = pc[d] /\ read'[d] = read[d]
    BY <1>2 DEF Frame, Same
  <1>4. Committed
    BY <1>2, <1>3 DEF InvokeThrows, store, Goto, Leave, Commits, NextEntry, Committed, Before, AtEntry, Draining
  <1>5. Rereads
    BY <1>2, <1>3 DEF InvokeThrows, Rereads, Frame, Same, LocalTypes, store, Goto, Leave, Commits, NextEntry, Workers
  <1> QED
    BY <1>1, <1>4, <1>5, QuietOrderly

LEMMA DispatchEntryOrderly ==
  ASSUME TypeInv, NEW w \in Workers, Frame(w), DispatchEntry(w)
  PROVE  Orderly
  <1>1. UNCHANGED <<journal, waits, reactions>> /\ applied \subseteq applied' /\ dedup \subseteq dedup'
    BY DEF DispatchEntry, store
  <1>2. w \in Workers /\ Calls \subseteq Workers /\ pc \in [Workers -> Labels] /\ read \in [Workers -> Reads]
    BY DEF TypeInv, LocalTypes, Workers
  <1>3. \A d \in Calls : d # w => pc'[d] = pc[d] /\ read'[d] = read[d]
    BY <1>2 DEF Frame, Same
  <1>4. Committed
    BY <1>2, <1>3 DEF DispatchEntry, store, Goto, Leave, Commits, NextEntry, Committed, Before, AtEntry, Draining
  <1>5. Rereads
    BY <1>2, <1>3 DEF DispatchEntry, Rereads, Frame, Same, LocalTypes, store, Goto, Leave, Commits, NextEntry, Workers
  <1> QED
    BY <1>1, <1>4, <1>5, QuietOrderly

LEMMA SkipEntryOrderly ==
  ASSUME TypeInv, NEW w \in Workers, Frame(w), SkipEntry(w)
  PROVE  Orderly
  <1>1. UNCHANGED <<journal, waits, reactions>> /\ applied \subseteq applied' /\ dedup \subseteq dedup'
    BY DEF SkipEntry, store
  <1>2. w \in Workers /\ Calls \subseteq Workers /\ pc \in [Workers -> Labels] /\ read \in [Workers -> Reads]
    BY DEF TypeInv, LocalTypes, Workers
  <1>3. \A d \in Calls : d # w => pc'[d] = pc[d] /\ read'[d] = read[d]
    BY <1>2 DEF Frame, Same
  <1>4. Committed
    BY <1>2, <1>3 DEF SkipEntry, store, Goto, Leave, Commits, NextEntry, Committed, Before, AtEntry, Draining
  <1>5. Rereads
    BY <1>2, <1>3 DEF SkipEntry, Rereads, Frame, Same, LocalTypes, store, Goto, Leave, Commits, NextEntry, Workers
  <1> QED
    BY <1>1, <1>4, <1>5, QuietOrderly

LEMMA ListReactionsOrderly ==
  ASSUME TypeInv, NEW w \in Workers, Frame(w), ListReactions(w)
  PROVE  Orderly
  <1>1. UNCHANGED <<journal, waits, reactions>> /\ applied \subseteq applied' /\ dedup \subseteq dedup'
    BY DEF ListReactions, store
  <1>2. w \in Workers /\ Calls \subseteq Workers /\ pc \in [Workers -> Labels] /\ read \in [Workers -> Reads]
    BY DEF TypeInv, LocalTypes, Workers
  <1>3. \A d \in Calls : d # w => pc'[d] = pc[d] /\ read'[d] = read[d]
    BY <1>2 DEF Frame, Same
  <1>4. Committed
    BY <1>2, <1>3 DEF ListReactions, store, Goto, Leave, Commits, NextEntry, Committed, Before, AtEntry, Draining
  <1>5. Rereads
    BY <1>2, <1>3 DEF ListReactions, Rereads, Frame, Same, LocalTypes, store, Goto, Leave, Commits, NextEntry, Workers
  <1> QED
    BY <1>1, <1>4, <1>5, QuietOrderly

LEMMA NotifyWaitOrderly ==
  ASSUME TypeInv, NEW w \in Workers, NEW x \in Calls, Frame(w), NotifyWait(w, x)
  PROVE  Orderly
  <1>1. UNCHANGED <<journal, waits, reactions>> /\ applied \subseteq applied' /\ dedup \subseteq dedup'
    BY DEF NotifyWait, store
  <1>2. w \in Workers /\ Calls \subseteq Workers /\ pc \in [Workers -> Labels] /\ read \in [Workers -> Reads]
    BY DEF TypeInv, LocalTypes, Workers
  <1>3. \A d \in Calls : d # w => pc'[d] = pc[d] /\ read'[d] = read[d]
    BY <1>2 DEF Frame, Same
  <1>4. Committed
    BY <1>2, <1>3 DEF NotifyWait, store, Goto, Leave, Commits, NextEntry, Committed, Before, AtEntry, Draining
  <1>5. Rereads
    BY <1>2, <1>3 DEF NotifyWait, Rereads, Frame, Same, LocalTypes, store, Goto, Leave, Commits, NextEntry, Workers
  <1> QED
    BY <1>1, <1>4, <1>5, QuietOrderly

LEMMA DedupReadOrderly ==
  ASSUME TypeInv, NEW w \in Workers, NEW r \in Reactions, Frame(w), DedupRead(w, r)
  PROVE  Orderly
  <1>1. UNCHANGED <<journal, waits, reactions>> /\ applied \subseteq applied' /\ dedup \subseteq dedup'
    BY DEF DedupRead, store
  <1>2. w \in Workers /\ Calls \subseteq Workers /\ pc \in [Workers -> Labels] /\ read \in [Workers -> Reads]
    BY DEF TypeInv, LocalTypes, Workers
  <1>3. \A d \in Calls : d # w => pc'[d] = pc[d] /\ read'[d] = read[d]
    BY <1>2 DEF Frame, Same
  <1>4. Committed
    BY <1>2, <1>3 DEF DedupRead, store, Goto, Leave, Commits, NextEntry, Committed, Before, AtEntry, Draining
  <1>5. Rereads
    BY <1>2, <1>3 DEF DedupRead, Rereads, Frame, Same, LocalTypes, store, Goto, Leave, Commits, NextEntry, Workers
  <1> QED
    BY <1>1, <1>4, <1>5, QuietOrderly

LEMMA EnqueueReactionOrderly ==
  ASSUME TypeInv, NEW w \in Workers, Frame(w), EnqueueReaction(w)
  PROVE  Orderly
  <1>1. UNCHANGED <<journal, waits, reactions>> /\ applied \subseteq applied' /\ dedup \subseteq dedup'
    BY DEF EnqueueReaction, store
  <1>2. w \in Workers /\ Calls \subseteq Workers /\ pc \in [Workers -> Labels] /\ read \in [Workers -> Reads]
    BY DEF TypeInv, LocalTypes, Workers
  <1>3. \A d \in Calls : d # w => pc'[d] = pc[d] /\ read'[d] = read[d]
    BY <1>2 DEF Frame, Same
  <1>4. Committed
    BY <1>2, <1>3 DEF EnqueueReaction, store, Goto, Leave, Commits, NextEntry, Committed, Before, AtEntry, Draining
  <1>5. Rereads
    BY <1>2, <1>3 DEF EnqueueReaction, Rereads, Frame, Same, LocalTypes, store, Goto, Leave, Commits, NextEntry, Workers
  <1> QED
    BY <1>1, <1>4, <1>5, QuietOrderly

LEMMA MarkProjectionOrderly ==
  ASSUME TypeInv, NEW w \in Workers, Frame(w), MarkProjection(w)
  PROVE  Orderly
  <1>1. UNCHANGED <<journal, waits, reactions>> /\ applied \subseteq applied' /\ dedup \subseteq dedup'
    BY DEF MarkProjection, store
  <1>2. w \in Workers /\ Calls \subseteq Workers /\ pc \in [Workers -> Labels] /\ read \in [Workers -> Reads]
    BY DEF TypeInv, LocalTypes, Workers
  <1>3. \A d \in Calls : d # w => pc'[d] = pc[d] /\ read'[d] = read[d]
    BY <1>2 DEF Frame, Same
  <1>4. Committed
    BY <1>2, <1>3 DEF MarkProjection, store, Goto, Leave, Commits, NextEntry, Committed, Before, AtEntry, Draining
  <1>5. Rereads
    BY <1>2, <1>3 DEF MarkProjection, Rereads, Frame, Same, LocalTypes, store, Goto, Leave, Commits, NextEntry, Workers
  <1> QED
    BY <1>1, <1>4, <1>5, QuietOrderly

LEMMA LoadProjectionOrderly ==
  ASSUME TypeInv, NEW w \in Workers, Frame(w), LoadProjection(w)
  PROVE  Orderly
  <1>1. UNCHANGED <<journal, waits, reactions>> /\ applied \subseteq applied' /\ dedup \subseteq dedup'
    BY DEF LoadProjection, store
  <1>2. w \in Workers /\ Calls \subseteq Workers /\ pc \in [Workers -> Labels] /\ read \in [Workers -> Reads]
    BY DEF TypeInv, LocalTypes, Workers
  <1>3. \A d \in Calls : d # w => pc'[d] = pc[d] /\ read'[d] = read[d]
    BY <1>2 DEF Frame, Same
  <1>4. Committed
    BY <1>2, <1>3 DEF LoadProjection, store, Goto, Leave, Commits, NextEntry, Committed, Before, AtEntry, Draining
  <1>5. Rereads
    BY <1>2, <1>3 DEF LoadProjection, Rereads, Frame, Same, LocalTypes, store, Goto, Leave, Commits, NextEntry, Workers
  <1> QED
    BY <1>1, <1>4, <1>5, QuietOrderly

LEMMA FlushProjectionOrderly ==
  ASSUME TypeInv, NEW w \in Workers, Frame(w), FlushProjection(w)
  PROVE  Orderly
  <1>1. UNCHANGED <<journal, waits, reactions>> /\ applied \subseteq applied' /\ dedup \subseteq dedup'
    BY DEF FlushProjection, store
  <1>2. w \in Workers /\ Calls \subseteq Workers /\ pc \in [Workers -> Labels] /\ read \in [Workers -> Reads]
    BY DEF TypeInv, LocalTypes, Workers
  <1>3. \A d \in Calls : d # w => pc'[d] = pc[d] /\ read'[d] = read[d]
    BY <1>2 DEF Frame, Same
  <1>4. Committed
    BY <1>2, <1>3 DEF FlushProjection, store, Goto, Leave, Commits, NextEntry, Committed, Before, AtEntry, Draining
  <1>5. Rereads
    BY <1>2, <1>3 DEF FlushProjection, Rereads, Frame, Same, LocalTypes, store, Goto, Leave, Commits, NextEntry, Workers
  <1> QED
    BY <1>1, <1>4, <1>5, QuietOrderly

LEMMA ClaimReactionBatchOrderly ==
  ASSUME TypeInv, NEW w \in Workers, Frame(w), ClaimReactionBatch(w)
  PROVE  Orderly
  <1>1. UNCHANGED <<journal, waits, reactions>> /\ applied \subseteq applied' /\ dedup \subseteq dedup'
    BY DEF ClaimReactionBatch, store
  <1>2. w \in Workers /\ Calls \subseteq Workers /\ pc \in [Workers -> Labels] /\ read \in [Workers -> Reads]
    BY DEF TypeInv, LocalTypes, Workers
  <1>3. \A d \in Calls : d # w => pc'[d] = pc[d] /\ read'[d] = read[d]
    BY <1>2 DEF Frame, Same
  <1>4. Committed
    BY <1>2, <1>3 DEF ClaimReactionBatch, store, Goto, Leave, Commits, NextEntry, Committed, Before, AtEntry, Draining
  <1>5. Rereads
    BY <1>2, <1>3 DEF ClaimReactionBatch, Rereads, Frame, Same, LocalTypes, store, Goto, Leave, Commits, NextEntry, Workers
  <1> QED
    BY <1>1, <1>4, <1>5, QuietOrderly

LEMMA InvokeActionOrderly ==
  ASSUME TypeInv, NEW w \in Workers, Frame(w), InvokeAction(w)
  PROVE  Orderly
  <1>1. UNCHANGED <<journal, waits, reactions>> /\ applied \subseteq applied' /\ dedup \subseteq dedup'
    BY DEF InvokeAction, store
  <1>2. w \in Workers /\ Calls \subseteq Workers /\ pc \in [Workers -> Labels] /\ read \in [Workers -> Reads]
    BY DEF TypeInv, LocalTypes, Workers
  <1>3. \A d \in Calls : d # w => pc'[d] = pc[d] /\ read'[d] = read[d]
    BY <1>2 DEF Frame, Same
  <1>4. Committed
    BY <1>2, <1>3 DEF InvokeAction, store, Goto, Leave, Commits, NextEntry, Committed, Before, AtEntry, Draining
  <1>5. Rereads
    BY <1>2, <1>3 DEF InvokeAction, Rereads, Frame, Same, LocalTypes, store, Goto, Leave, Commits, NextEntry, Workers
  <1> QED
    BY <1>1, <1>4, <1>5, QuietOrderly

LEMMA CompleteReactionOrderly ==
  ASSUME TypeInv, NEW w \in Workers, Frame(w), CompleteReaction(w)
  PROVE  Orderly
  <1>1. UNCHANGED <<journal, waits, reactions>> /\ applied \subseteq applied' /\ dedup \subseteq dedup'
    BY DEF CompleteReaction, store
  <1>2. w \in Workers /\ Calls \subseteq Workers /\ pc \in [Workers -> Labels] /\ read \in [Workers -> Reads]
    BY DEF TypeInv, LocalTypes, Workers
  <1>3. \A d \in Calls : d # w => pc'[d] = pc[d] /\ read'[d] = read[d]
    BY <1>2 DEF Frame, Same
  <1>4. Committed
    BY <1>2, <1>3 DEF CompleteReaction, store, Goto, Leave, Commits, NextEntry, Committed, Before, AtEntry, Draining
  <1>5. Rereads
    BY <1>2, <1>3 DEF CompleteReaction, Rereads, Frame, Same, LocalTypes, store, Goto, Leave, Commits, NextEntry, Workers
  <1> QED
    BY <1>1, <1>4, <1>5, QuietOrderly

LEMMA DrainedOrderly ==
  ASSUME TypeInv, NEW w \in Workers, Frame(w), Drained(w)
  PROVE  Orderly
  <1>1. UNCHANGED <<journal, waits, reactions>> /\ applied \subseteq applied' /\ dedup \subseteq dedup'
    BY DEF Drained, store
  <1>2. w \in Workers /\ Calls \subseteq Workers /\ pc \in [Workers -> Labels] /\ read \in [Workers -> Reads]
    BY DEF TypeInv, LocalTypes, Workers
  <1>3. \A d \in Calls : d # w => pc'[d] = pc[d] /\ read'[d] = read[d]
    BY <1>2 DEF Frame, Same
  <1>4. Committed
    BY <1>2, <1>3 DEF Drained, store, Goto, Leave, Commits, NextEntry, Committed, Before, AtEntry, Draining
  <1>5. Rereads
    BY <1>2, <1>3 DEF Drained, Rereads, Frame, Same, LocalTypes, store, Goto, Leave, Commits, NextEntry, Workers
  <1> QED
    BY <1>1, <1>4, <1>5, QuietOrderly

LEMMA UpdateWaitOrderly ==
  ASSUME TypeInv, NEW w \in Workers, Frame(w), UpdateWait(w)
  PROVE  Orderly
  <1>1. UNCHANGED <<journal, reactions, applied, dedup, read>>
    BY DEF UpdateWait
  <1>2. Calls \subseteq Workers /\ pc \in [Workers -> Labels]
    BY DEF TypeInv, LocalTypes, Workers
  <1>3. pc' = [pc EXCEPT ![w] = "waits"] /\ pc[w] = "update"
    BY DEF UpdateWait, Goto
  <1>4. Committed /\ Rereads
    BY <1>1, <1>2, <1>3 DEF Committed, Rereads, Before
  <1>5. WaitSteps
    <2>1. waits \in [Calls -> WaitRecord \cup {None}]
      BY DEF TypeInv, TypeOK
    <2> QED
      BY <2>1 DEF UpdateWait, WaitSteps
  <1> QED
    BY <1>1, <1>4, <1>5, NoNewEntries DEF Orderly, ReactionSteps

(* A call that commits takes its entries past Before. *)
LEMMA Appended ==
  ASSUME TypeInv, NEW c \in Calls, NEW entries \in Seq(Entry), journal' = journal \o entries,
         pc' = [pc EXCEPT ![c] = "tail"] \/ pc' = [pc EXCEPT ![c] = "done"],
         \A i \in 1 .. Len(entries) : entries[i].call = c /\ entries[i].type # "reaction.registered"
  PROVE  Committed /\ NewEntries /\ pc'[c] \notin Before \cup {"commit", "disable"}
         /\ \A d \in Calls : d # c => pc'[d] = pc[d]
  <1>1. c \in Workers /\ Calls \subseteq Workers /\ pc \in [Workers -> Labels] /\ journal \in Seq(Entry)
    BY DEF TypeInv, TypeOK, LocalTypes, Workers, Entry
  <1>2. pc'[c] \in {"tail", "done"} /\ \A d \in Calls : d # c => pc'[d] = pc[d]
    BY <1>1
  <1>3. ASSUME NEW s \in Seqs', s \notin Seqs
        PROVE  journal'[s].call = c /\ journal'[s].type # "reaction.registered"
    <2>1. PICK k \in 1 .. Len(entries) : journal'[s] = entries[k]
      BY <1>1, <1>3, JournalGrows
    <2> QED
      BY <2>1
  <1>4. Committed
    BY <1>2 DEF Committed, Before
  <1>5. NewEntries
    BY <1>2, <1>3 DEF NewEntries, Before
  <1> QED
    BY <1>2, <1>4, <1>5 DEF Before

LEMMA BeginOrderly ==
  ASSUME TypeInv, NEW c \in Calls, Frame(c), Begin(c)
  PROVE  Orderly
  <1>1. UNCHANGED <<waits, reactions, applied, dedup, read>>
    BY DEF Begin
  <1>2. c \in Workers /\ pc \in [Workers -> Labels] /\ Calls \subseteq Workers /\ journal \in Seq(Entry)
    BY DEF TypeInv, TypeOK, LocalTypes, Workers, Entry
  <1>3. CASE UNCHANGED journal /\ Goto(c, IF Blocks(c) THEN "register" ELSE "readMax")
    <2>1. \A d \in Calls : pc'[d] = pc[d] \/ (pc'[d] \in {"register", "readMax"} /\ pc[d] = "new")
      BY <1>2, <1>3 DEF Goto, Begin
    <2>2. Committed /\ Rereads
      BY <1>1, <2>1 DEF Committed, Rereads, Before
    <2> QED
      BY <1>1, <1>3, <2>2, QuietOrderly
  <1>4. CASE journal' = Append(journal, EntryOf(c, "policy.denied", None, FALSE)) /\ Goto(c, "done")
    <2> DEFINE e == EntryOf(c, "policy.denied", None, FALSE)
    <2>1. e \in Entry /\ e.call = c /\ e.type # "reaction.registered"
      BY EntryIsTyped DEF EntryOf, EntryTypes, KernelTypes
    <2> HIDE DEF e
    <2>2. <<e>> \in Seq(Entry) /\ journal' = journal \o <<e>>
      BY <1>2, <1>4, <2>1, Singletons, SeqOf DEF e
    <2>3. \A i \in 1 .. Len(<<e>>) : <<e>>[i].call = c /\ <<e>>[i].type # "reaction.registered"
      BY <2>1
    <2>4. Committed /\ NewEntries /\ pc'[c] \notin {"commit", "disable"} /\ \A d \in Calls : d # c => pc'[d] = pc[d]
      BY <1>4, <2>2, <2>3, Appended DEF Goto
    <2>5. Rereads
      BY <1>1, <2>4 DEF Rereads
    <2> QED
      BY <1>1, <2>4, <2>5 DEF Orderly, ReactionSteps, WaitSteps
  <1> QED
    BY <1>3, <1>4 DEF Begin

LEMMA DisableReactionOrderly ==
  ASSUME TypeInv, NEW c \in Calls, Frame(c), StoreOK, DisableReaction(c)
  PROVE  Orderly
  <1> DEFINE r0 == Cmd[c].reaction
  <1>1. UNCHANGED <<journal, waits, applied, dedup, read>>
    BY DEF DisableReaction
  <1>2. c \in Workers /\ pc \in [Workers -> Labels] /\ Calls \subseteq Workers
        /\ reactions \in [Reactions -> ReactionRecord \cup {None}]
    BY DEF TypeInv, TypeOK, LocalTypes, Workers
  <1>3. pc' = [pc EXCEPT ![c] = "commit"] /\ pc[c] = "disable"
    BY DEF DisableReaction, Goto
  <1>4. Cmd[c].kind = "reaction.disable" /\ r0 \in Reactions /\ (read[c] # None => read[c] \in ReactionRecord)
    BY <1>3, CmdIsTyped DEF TypeInv, WorkOK, CallWork, WellFormed
  <1>5. \A d \in Calls : pc'[d] = pc[d] \/ (d = c /\ pc'[d] = "commit")
    BY <1>2, <1>3
  <1>6. CASE read[c] = None
    <2>1. reactions' = reactions
      BY <1>6 DEF DisableReaction
    <2>2. Committed /\ Rereads
      BY <1>1, <1>3, <1>4, <1>5 DEF Committed, Rereads, Before
    <2> QED
      BY <1>1, <2>1, <2>2, QuietOrderly
  <1>7. CASE read[c] # None
    <2> DEFINE n == [enabled |-> FALSE, since |-> read[c].since]
    <2>1. reactions' = [reactions EXCEPT ![r0] = n]
      BY <1>7 DEF DisableReaction
    <2>2. n \in ReactionRecord /\ ~ n.enabled /\ n.since = read[c].since
      BY <1>4, <1>7 DEF ReactionRecord
    <2>3. n # None
      BY <2>2, NoneAssumption
    <2>4. reactions[r0] # None /\ read[c].since = reactions[r0].since
      BY <1>3, <1>7 DEF StoreOK
    <2> HIDE DEF n, r0
    <2>5. ReactionSteps
      BY <1>2, <1>4, <2>1, <2>2, <2>3, <2>4 DEF ReactionSteps, Disables
    <2>6. Committed /\ Rereads
      BY <1>1, <1>3, <1>4, <1>5 DEF Committed, Rereads, Before
    <2> QED
      BY <1>1, <2>5, <2>6, NoNewEntries DEF Orderly, WaitSteps
  <1> QED
    BY <1>6, <1>7

LEMMA CommitEntryOrderly ==
  ASSUME TypeInv, NEW c \in Calls, Frame(c), CommitEntry(c)
  PROVE  Orderly
  <1> DEFINE ok == EntryOf(c, Cmd[c].type, Cmd[c].agg, TRUE)
             no == EntryOf(c, "denied", Cmd[c].agg, FALSE)
  <1>1. UNCHANGED <<waits, reactions, applied, dedup, read>> /\ pc' = [pc EXCEPT ![c] = "tail"]
    BY DEF CommitEntry, Commits, Goto
  <1>2. /\ ok \in Entry /\ ok.call = c /\ ok.type # "reaction.registered"
        /\ no \in Entry /\ no.call = c /\ no.type # "reaction.registered"
    BY CmdIsTyped, EntryIsTyped, FilterAssumption DEF EntryOf, EntryTypes, KernelTypes
  <1>3. journal' = journal \o <<ok>> \/ journal' = journal \o <<no>> \/ journal' = journal \o <<ok, no>>
    BY DEF CommitEntry, Commits
  <1> HIDE DEF ok, no
  <1>4. PICK entries \in Seq(Entry) :
           journal' = journal \o entries
           /\ \A i \in 1 .. Len(entries) : entries[i].call = c /\ entries[i].type # "reaction.registered"
    <2>1. <<ok>> \in Seq(Entry) /\ <<no>> \in Seq(Entry) /\ <<ok, no>> \in Seq(Entry)
      BY <1>2, Singletons
    <2>2. \A e : \A i \in 1 .. Len(<<e>>) : <<e>>[i] = e
      OBVIOUS
    <2>3. \A i \in 1 .. Len(<<ok, no>>) : <<ok, no>>[i] \in {ok, no}
      <3>1. Len(<<ok, no>>) = 2 /\ <<ok, no>>[1] = ok /\ <<ok, no>>[2] = no
        OBVIOUS
      <3>2. \A i \in 1 .. 2 : i = 1 \/ i = 2
        OBVIOUS
      <3> QED
        BY <3>1, <3>2
    <2> QED
      <3>1. CASE journal' = journal \o <<ok>>
        <4>1. \A i \in 1 .. Len(<<ok>>) : <<ok>>[i].call = c /\ <<ok>>[i].type # "reaction.registered"
          BY <1>2, <2>2
        <4> QED
          BY <2>1, <3>1, <4>1
      <3>2. CASE journal' = journal \o <<no>>
        <4>1. \A i \in 1 .. Len(<<no>>) : <<no>>[i].call = c /\ <<no>>[i].type # "reaction.registered"
          BY <1>2, <2>2
        <4> QED
          BY <2>1, <3>2, <4>1
      <3>3. CASE journal' = journal \o <<ok, no>>
        BY <1>2, <2>1, <2>3, <3>3
      <3> QED
        BY <1>3, <3>1, <3>2, <3>3
  <1>5. Committed /\ NewEntries /\ pc'[c] \notin {"commit", "disable"} /\ \A d \in Calls : d # c => pc'[d] = pc[d]
    BY <1>1, <1>4, Appended
  <1>6. Rereads
    BY <1>1, <1>5 DEF Rereads
  <1> QED
    BY <1>1, <1>5, <1>6 DEF Orderly, ReactionSteps, WaitSteps

LEMMA OneEntry ==
  ASSUME TypeInv, NEW c \in Calls, NEW e \in Entry, e.call = c, e.type # "reaction.registered",
         journal' = journal \o <<e>>, pc' = [pc EXCEPT ![c] = "tail"], read' = read
  PROVE  Committed /\ NewEntries /\ Rereads
  <1>1. <<e>> \in Seq(Entry) /\ \A i \in 1 .. Len(<<e>>) : <<e>>[i] = e
    BY Singletons
  <1>2. Committed /\ NewEntries /\ pc'[c] \notin {"commit", "disable"} /\ \A d \in Calls : d # c => pc'[d] = pc[d]
    BY <1>1, Appended
  <1> QED
    BY <1>2 DEF Rereads

LEMMA CommitWaitRegisterOrderly ==
  ASSUME TypeInv, NEW c \in Calls, Frame(c), CommitWaitRegister(c)
  PROVE  Orderly
  <1> DEFINE e == EntryOf(c, "wait.registered", Cmd[c].agg, TRUE)
  <1>1. UNCHANGED <<reactions, applied, dedup, read>> /\ pc' = [pc EXCEPT ![c] = "tail"] /\ pc[c] = "commit"
        /\ journal' = journal \o <<e>>
    BY DEF CommitWaitRegister, Commits, Goto
  <1>2. e \in Entry /\ e.call = c /\ e.type # "reaction.registered"
    BY CmdIsTyped, EntryIsTyped DEF EntryOf, EntryTypes, KernelTypes
  <1> HIDE DEF e
  <1>3. Committed /\ NewEntries /\ Rereads
    BY <1>1, <1>2, OneEntry
  <1>4. waits \in [Calls -> WaitRecord \cup {None}]
    BY DEF TypeInv, TypeOK
  <1>5. WaitSteps
    BY <1>1, <1>4 DEF CommitWaitRegister, WaitSteps, Before
  <1> QED
    BY <1>1, <1>3, <1>5 DEF Orderly, ReactionSteps

LEMMA CommitWaitCancelOrderly ==
  ASSUME TypeInv, NEW c \in Calls, Frame(c), CommitWaitCancel(c)
  PROVE  Orderly
  <1> DEFINE e == EntryOf(c, "wait.cancelled", None, TRUE)
  <1>1. UNCHANGED <<reactions, applied, dedup, read>> /\ pc' = [pc EXCEPT ![c] = "tail"] /\ pc[c] = "commit"
    BY DEF CommitWaitCancel, Commits, Goto
  <1>2. e \in Entry /\ e.call = c /\ e.type # "reaction.registered"
    BY CmdIsTyped, EntryIsTyped DEF EntryOf, EntryTypes, KernelTypes
  <1>3. CASE read[c] = None
    <2>1. UNCHANGED <<journal, waits>>
      BY <1>3 DEF CommitWaitCancel
    <2>2. c \in Workers /\ pc \in [Workers -> Labels] /\ Calls \subseteq Workers
      BY DEF TypeInv, LocalTypes, Workers
    <2>3. Committed /\ Rereads
      BY <1>1, <2>2 DEF Committed, Rereads, Before
    <2> QED
      BY <1>1, <2>1, <2>3, QuietOrderly
  <1>4. CASE read[c] # None
    <2>1. journal' = journal \o <<e>>
      BY <1>4 DEF CommitWaitCancel, Commits
    <2> HIDE DEF e
    <2>2. Committed /\ NewEntries /\ Rereads
      BY <1>1, <1>2, <2>1, OneEntry
    <2>3. waits \in [Calls -> WaitRecord \cup {None}]
      BY DEF TypeInv, TypeOK
    <2>4. WaitSteps
      BY <1>4, <2>3 DEF CommitWaitCancel, WaitSteps
    <2> QED
      BY <1>1, <2>2, <2>4 DEF Orderly, ReactionSteps
  <1> QED
    BY <1>3, <1>4

LEMMA CommitReactionDisableOrderly ==
  ASSUME TypeInv, NEW c \in Calls, Frame(c), CommitReactionDisable(c)
  PROVE  Orderly
  <1> DEFINE e == EntryOf(c, "reaction.disabled", None, TRUE)
  <1>1. UNCHANGED <<waits, reactions, applied, dedup, read>> /\ pc' = [pc EXCEPT ![c] = "tail"]
        /\ journal' = journal \o <<e>>
    BY DEF CommitReactionDisable, Commits, Goto
  <1>2. e \in Entry /\ e.call = c /\ e.type # "reaction.registered"
    BY EntryIsTyped DEF EntryOf, EntryTypes, KernelTypes
  <1> HIDE DEF e
  <1>3. Committed /\ NewEntries /\ Rereads
    BY <1>1, <1>2, OneEntry
  <1> QED
    BY <1>1, <1>3 DEF Orderly, ReactionSteps, WaitSteps

LEMMA CommitReactionRegisterOrderly ==
  ASSUME TypeInv, NEW c \in Calls, Frame(c), StoreOK, CommitReactionRegister(c)
  PROVE  Orderly
  <1> DEFINE e == EntryOf(c, "reaction.registered", None, TRUE)
             r0 == Cmd[c].reaction
             n == [enabled |-> TRUE, since |-> read[c].maxSeq + 1]
  <1>1. UNCHANGED <<waits, applied, dedup, read>> /\ pc' = [pc EXCEPT ![c] = "tail"] /\ pc[c] = "commit"
        /\ Cmd[c].kind = "reaction.register" /\ journal' = journal \o <<e>>
        /\ reactions' = [reactions EXCEPT ![r0] = n]
    BY DEF CommitReactionRegister, Commits, Goto
  <1>2. e \in Entry /\ e.call = c
    BY EntryIsTyped DEF EntryOf, EntryTypes, KernelTypes
  <1>3. read[c] \in [maxSeq : Nat] /\ read[c].maxSeq <= Len(journal) /\ r0 \in Reactions
    BY <1>1, CmdIsTyped DEF TypeInv, WorkOK, CallWork, StoreOK, WellFormed
  <1>4. n \in ReactionRecord /\ n.since = read[c].maxSeq + 1
    BY <1>3 DEF ReactionRecord
  <1>5. n # None
    BY <1>4, NoneAssumption
  <1> HIDE DEF e, r0, n
  <1>6. c \in Workers /\ Calls \subseteq Workers /\ pc \in [Workers -> Labels] /\ journal \in Seq(Entry)
        /\ reactions \in [Reactions -> ReactionRecord \cup {None}]
    BY DEF TypeInv, TypeOK, LocalTypes, Workers, Entry
  <1>7. pc'[c] = "tail" /\ \A d \in Calls : d # c => pc'[d] = pc[d]
    BY <1>1, <1>6
  <1>8. reactions'[r0] = n /\ \A r \in Reactions : r # r0 => reactions'[r] = reactions[r]
    BY <1>1, <1>3, <1>6
  <1>9. NewEntries
    <2>1. ASSUME NEW s \in Seqs', s \notin Seqs
          PROVE  journal'[s] = e /\ s = Len(journal) + 1
      <3>1. <<e>> \in Seq(Entry) /\ Len(<<e>>) = 1 /\ <<e>>[1] = e
        BY <1>2, Singletons
      <3>2. s - Len(journal) \in 1 .. 1 /\ journal'[s] = <<e>>[s - Len(journal)]
        BY <1>1, <1>6, <2>1, <3>1, JournalGrows
      <3>3. Len(journal) \in Nat /\ s \in Nat
        BY <1>6 DEF Seqs
      <3>4. s - Len(journal) = 1
        BY <3>2, <3>3
      <3> QED
        BY <3>1, <3>2, <3>3, <3>4
    <2>2. n.since <= Len(journal) + 1
      BY <1>3, <1>4, <1>6
    <2> QED
      BY <1>1, <1>2, <1>5, <1>7, <1>8, <2>1, <2>2 DEF NewEntries, Before, r0
  <1>10. Committed /\ Rereads
    BY <1>1, <1>7 DEF Committed, Rereads, Before
  <1>11. Registers(r0)
    BY <1>1, <1>5, <1>7, <1>8 DEF Registers, Before, r0
  <1>12. ReactionSteps
    BY <1>8, <1>11 DEF ReactionSteps
  <1> QED
    BY <1>1, <1>9, <1>10, <1>12 DEF Orderly, WaitSteps

LEMMA CallOrderly ==
  ASSUME TypeInv, Unblocked, StoreOK, NEW c \in Calls, Frame(c), Begin(c) \/ Call(c)
  PROVE  Orderly
  <1>1. ~ RegisterBlockWait(c)
    BY DEF RegisterBlockWait, TypeInv, WorkOK, CallWork, Unblocked
  <1> QED
    BY <1>1, BeginOrderly, RegisterDeferredOrderly, ReadMaxSeqOrderly, LoadOrderly,
       DisableReactionOrderly, CommitEntryOrderly, CommitThrowsOrderly, CommitWaitRegisterOrderly,
       CommitWaitCancelOrderly, CommitReactionRegisterOrderly, CommitReactionDisableOrderly, ReplayOrderly,
       ReplayDedupOrderly, ReplayInvokeOrderly, TailJournalOrderly, AckFanoutOrderly, FinishOrderly,
       UnblockOrderly, InvokeThrowsOrderly DEF Call

LEMMA DispatchOrderly ==
  ASSUME TypeInv, NEW w \in Workers, Frame(w), Dispatch(w)
  PROVE  Orderly
  BY DispatchEntryOrderly, UpdateWaitOrderly, SkipEntryOrderly, ListReactionsOrderly, NotifyWaitOrderly,
     DedupReadOrderly, EnqueueReactionOrderly, MarkProjectionOrderly, LoadProjectionOrderly,
     FlushProjectionOrderly, ClaimReactionBatchOrderly, InvokeActionOrderly, CompleteReactionOrderly,
     DrainedOrderly DEF Dispatch

LEMMA RestOrderly ==
  ASSUME TypeInv,
         \/ (ClaimFanoutBatch \/ RecoveryAck \/ RecoveryFails) /\ Frame(Rec)
         \/ Crash
         \/ RetryDue \/ UNCHANGED vars
  PROVE  Orderly
  <1>1. UNCHANGED <<journal, waits, reactions, applied, dedup>>
    BY DEF ClaimFanoutBatch, RecoveryAck, RecoveryFails, Crash, RetryDue, vars, store
  <1>2. \A c \in Calls : \/ pc'[c] = pc[c] /\ read'[c] = read[c]
                         \/ pc'[c] \in {"new", "done", "thrown", "gone"} /\ (pc'[c] = "new" => pc[c] = "new")
    <2>1. CASE (ClaimFanoutBatch \/ RecoveryAck \/ RecoveryFails) /\ Frame(Rec)
      BY <2>1, CallAssumption DEF Frame, Same, Workers
    <2>2. CASE Crash
      BY <2>2, CrashTypes, CallAssumption DEF Crashed, Workers
    <2>3. CASE RetryDue \/ UNCHANGED vars
      BY <2>3 DEF RetryDue, vars, local
    <2> QED
      BY <2>1, <2>2, <2>3
  <1>3. Committed /\ Rereads
    BY <1>2 DEF Committed, Rereads, Before
  <1> QED
    BY <1>1, <1>3, QuietOrderly

LEMMA StepOrderly ==
  ASSUME TypeInv, Unblocked, StoreOK, [Next]_vars
  PROVE  Orderly
  <1>1. Calls \subseteq Workers /\ Rec \in Workers
    BY DEF Workers
  <1>2. ASSUME NEW c \in Calls, Begin(c) \/ Call(c) PROVE Orderly
    BY <1>2, CallTypes, CallOrderly
  <1>3. ASSUME NEW w \in Workers, Dispatch(w) PROVE Orderly
    BY <1>3, DispatchTypes, DispatchOrderly
  <1>4. ClaimFanoutBatch \/ RecoveryAck \/ RecoveryFails => Orderly
    BY ClaimFanoutBatchTypes, RecoveryAckTypes, RecoveryFailsTypes, RestOrderly
  <1>5. Crash \/ RetryDue \/ UNCHANGED vars => Orderly
    BY RestOrderly
  <1> QED
    BY <1>1, <1>2, <1>3, <1>4, <1>5 DEF Next, Recovery

-----------------------------------------------------------------------------
(* The entry a worker is at. *)

LEMMA AtWorkKept ==
  ASSUME TypeInv, Unblocked, StoreOK, StoreGrows, Orderly, NEW v \in Workers, Same(v), AtWork(v)
  PROVE  AtWork(v)'
  <1> DEFINE s == Min(left[v])
  <1>1. pc'[v] = pc[v] /\ left'[v] = left[v] /\ todo'[v] = todo[v] /\ read'[v] = read[v]
    BY DEF Same
  <1>2. CASE pc[v] \notin AtEntry
    BY <1>1, <1>2 DEF AtWork, AtEntry
  <1>3. CASE pc[v] \in AtEntry
    <2>1. s \in Seqs
      BY <1>3, FirstIsTyped DEF TypeInv, WorkOK, Work
    <2>2. \A t \in Seqs : /\ \A x \in Calls : Unsettled(x, t)' => Unsettled(x, t)
                         /\ \A r \in Reactions : Missing(r, t)' => Missing(r, t)
      BY Settles
    <2>3. dedup \subseteq dedup'
      BY DEF Orderly
    <2> QED
      BY <1>1, <2>1, <2>2, <2>3 DEF AtWork
  <1> QED
    BY <1>2, <1>3

LEMMA TailKept ==
  ASSUME TypeInv, Unblocked, StoreOK, StoreGrows, Orderly, NEW v \in Workers, Same(v)
  PROVE  /\ v \in Calls /\ CallTail(v) => CallTail(v)'
         /\ v = Rec /\ RecTail => RecTail'
  <1>1. pc'[v] = pc[v] /\ left'[v] = left[v] /\ tail'[v] = tail[v]
    BY DEF Same
  <1>2. tail[v] \subseteq Seqs /\ Seqs \subseteq Nat
    BY DEF TypeInv, TypeOK, Seqs
  <1>3. \A s \in Seqs : FannedOut(s) => FannedOut(s)'
    BY Settles
  <1>4. ASSUME CallTail(v) PROVE CallTail(v)'
    BY <1>1, <1>2, <1>3, <1>4 DEF CallTail
  <1>5. ASSUME v = Rec, RecTail PROVE RecTail'
    <2>1. pc[Rec] \in FansOut => Min(tail[Rec]) \in Seqs
      BY <1>2, <1>5, MinIn DEF TypeInv, RecBatch
    <2> QED
      BY <1>1, <1>3, <1>5, <2>1 DEF RecTail
  <1> QED
    BY <1>4, <1>5

LEMMA AckedKept ==
  ASSUME TypeInv, Unblocked, StoreOK, StoreGrows, Orderly, FanOK, NEW s \in acked
  PROVE  FannedOut(s)'
  BY Settles DEF FanOK, TypeInv, TypeOK

\* Worker w takes the step: what is left to show.
LEMMA FanStep ==
  ASSUME TypeInv, Unblocked, StoreOK, Orderly, FanOK, NEW w \in Workers, Frame(w), AtWork(w)',
         w \in Calls => CallTail(w)', w = Rec => RecTail',
         \A s \in acked' : s \in acked \/ FannedOut(s)'
  PROVE  FanOK'
  <1>0. StoreGrows /\ \A v \in Workers : v # w => Same(v)
    BY DEF Frame
  <1>1. ASSUME NEW v \in Workers PROVE AtWork(v)'
    BY <1>0, AtWorkKept DEF FanOK
  <1>2. ASSUME NEW c \in Calls PROVE CallTail(c)'
    BY <1>0, TailKept DEF FanOK, Workers
  <1>3. RecTail'
    BY <1>0, TailKept DEF FanOK, Workers
  <1>4. \A s \in acked' : FannedOut(s)'
    BY <1>0, AckedKept
  <1> QED
    BY <1>1, <1>2, <1>3, <1>4 DEF FanOK

(* Steps of a call outside its fan-out, and the draining of the queue. *)
LEMMA QuietFan ==
  ASSUME TypeInv, Unblocked, StoreOK, Orderly, FanOK, NEW w \in Workers, Frame(w), acked' = acked,
         pc'[w] \notin AtEntry,
         \/ pc'[w] \notin FansOut
         \/ pc[w] \in FansOut /\ tail'[w] = tail[w] /\ left'[w] = left[w]
  PROVE  FanOK'
  <1>1. AtWork(w)'
    BY DEF AtWork, AtEntry
  <1>2. StoreGrows /\ tail[w] \subseteq Seqs /\ Seqs \subseteq Nat
    BY DEF Frame, TypeInv, TypeOK, Seqs
  <1>3. \A s \in Seqs : FannedOut(s) => FannedOut(s)'
    BY <1>2, Settles
  <1>4. ASSUME w \in Calls PROVE CallTail(w)'
    BY <1>2, <1>3, <1>4 DEF CallTail, FanOK
  <1>5. ASSUME w = Rec PROVE RecTail'
    <2>1. pc[Rec] \in FansOut => Min(tail[Rec]) \in Seqs
      BY <1>2, <1>5, MinIn DEF TypeInv, RecBatch
    <2> QED
      BY <1>3, <1>5, <2>1 DEF RecTail, FanOK
  <1> QED
    BY <1>1, <1>4, <1>5, FanStep

LEMMA CallFan ==
  ASSUME TypeInv, Unblocked, StoreOK, Orderly, FanOK, NEW c \in Calls, Frame(c), Begin(c) \/ Call(c)
  PROVE  FanOK'
  <1>1. c \in Workers /\ c # Rec /\ pc \in [Workers -> Labels]
        /\ tail \in [Workers -> SUBSET Seqs] /\ left \in [Workers -> SUBSET Seqs]
    BY CallAssumption DEF TypeInv, LocalTypes, Workers
  <1>2. CASE TailJournal(c)
    <2>1. pc'[c] = "entry" /\ left'[c] = SeqsAfter(before[c]) /\ tail'[c] = SeqsAfter(before[c]) /\ acked' = acked
      BY <1>1, <1>2 DEF TailJournal, Goto, store
    <2>2. AtWork(c)' /\ CallTail(c)'
      BY <2>1 DEF AtWork, CallTail
    <2> QED
      BY <1>1, <2>1, <2>2, FanStep
  <1>3. CASE AckFanout(c)
    <2> DEFINE m == Min(tail[c])
    <2>1. pc'[c] = "ack" /\ pc[c] = "ack" /\ tail[c] # {} /\ tail'[c] = tail[c] \ {m} /\ left'[c] = left[c]
          /\ acked' = acked \cup {m}
      BY <1>1, <1>3 DEF AckFanout
    <2>2. tail[c] \subseteq Seqs /\ Seqs \subseteq Nat
      BY <1>1 DEF Seqs
    <2>3. m \in tail[c]
      BY <2>1, <2>2, MinIn
    <2>4. left[c] = {} /\ pc[c] \in FansOut
      BY <1>1, <2>1 DEF TypeInv, WorkOK, Work, Draining, FansOut
    <2>5. \A s \in tail[c] : FannedOut(s)
      BY <2>4 DEF FanOK, CallTail
    <2>6. \A s \in Seqs : FannedOut(s) => FannedOut(s)'
      BY Settles DEF Frame
    <2>7. AtWork(c)' /\ CallTail(c)'
      BY <2>1, <2>2, <2>5, <2>6 DEF AtWork, CallTail
    <2>8. \A s \in acked' : s \in acked \/ FannedOut(s)'
      BY <2>1, <2>2, <2>3, <2>5, <2>6
    <2> QED
      BY <1>1, <2>7, <2>8, FanStep
  <1>4. CASE ~ (TailJournal(c) \/ AckFanout(c))
    <2>1. pc'[c] \notin FansOut /\ acked' = acked
      BY <1>1, <1>4 DEF Begin, Call, store, Goto, Leave, Commits, FansOut, AtEntry, Draining,
         RegisterBlockWait, RegisterDeferred, ReadMaxSeq, Load, DisableReaction, CommitEntry, CommitThrows,
         CommitWaitRegister, CommitWaitCancel, CommitReactionRegister, CommitReactionDisable,
         Replay, ReplayDedup, ReplayInvoke, Finish, Unblock, InvokeThrows
    <2> QED
      BY <1>1, <2>1, QuietFan DEF FansOut
  <1> QED
    BY <1>2, <1>3, <1>4

LEMMA QuietDispatchFan ==
  ASSUME TypeInv, Unblocked, StoreOK, Orderly, FanOK, NEW w \in Workers, Frame(w),
         ClaimReactionBatch(w) \/ InvokeAction(w) \/ CompleteReaction(w) \/ Drained(w)
  PROVE  FanOK'
  <1>1. pc \in [Workers -> Labels]
    BY DEF TypeInv, LocalTypes
  <1>2. acked' = acked /\ tail' = tail /\ left' = left /\ pc[w] \in FansOut
    BY DEF ClaimReactionBatch, InvokeAction, CompleteReaction, Drained, store, FansOut, Draining
  <1>3. pc'[w] \notin AtEntry
    BY <1>1 DEF ClaimReactionBatch, InvokeAction, CompleteReaction, Drained, Goto, AtEntry
  <1> QED
    BY <1>2, <1>3, QuietFan

LEMMA TailStays ==
  ASSUME TypeInv, Unblocked, StoreOK, Orderly, FanOK, NEW w \in Workers, Frame(w),
         pc[w] \in FansOut, tail'[w] = tail[w],
         \A s \in left[w] : s \in left'[w] \/ FannedOut(s)'
  PROVE  (w \in Calls => CallTail(w)') /\ (w = Rec => RecTail')
  <1>1. tail[w] \subseteq Seqs /\ Seqs \subseteq Nat
    BY DEF TypeInv, TypeOK, Seqs
  <1>2. \A s \in Seqs : FannedOut(s) => FannedOut(s)'
    BY Settles DEF Frame
  <1>3. ASSUME w \in Calls PROVE CallTail(w)'
    BY <1>1, <1>2, <1>3 DEF CallTail, FanOK
  <1>4. ASSUME w = Rec PROVE RecTail'
    <2>1. Min(tail[Rec]) \in Seqs
      BY <1>1, <1>4, MinIn DEF TypeInv, RecBatch
    <2> QED
      BY <1>2, <1>4, <2>1 DEF RecTail, FanOK
  <1> QED
    BY <1>3, <1>4

(* The worker goes on with the entry it is at. *)
LEMMA SameEntryFan ==
  ASSUME TypeInv, Unblocked, StoreOK, Orderly, FanOK, NEW w \in Workers, Frame(w), AtWork(w)',
         pc[w] \in FansOut, acked' = acked, tail' = tail, left' = left
  PROVE  FanOK'
  <1>1. (w \in Calls => CallTail(w)') /\ (w = Rec => RecTail')
    BY TailStays
  <1> QED
    BY <1>1, FanStep

(* It goes on to the next one. *)
LEMMA NextEntryFan ==
  ASSUME TypeInv, Unblocked, StoreOK, Orderly, FanOK, NEW w \in Workers, Frame(w), NextEntry(w),
         pc[w] \in FansOut, acked' = acked, tail' = tail,
         \A s \in Seqs : s = Min(left[w]) => FannedOut(s)'
  PROVE  FanOK'
  <1>1. left \in [Workers -> SUBSET Seqs] /\ pc \in [Workers -> Labels]
    BY DEF TypeInv, LocalTypes
  <1>2. pc'[w] = "entry" /\ left'[w] = left[w] \ {Min(left[w])}
    BY <1>1 DEF NextEntry, Goto
  <1>3. AtWork(w)'
    BY <1>2 DEF AtWork
  <1>4. \A s \in left[w] : s \in left'[w] \/ FannedOut(s)'
    BY <1>1, <1>2
  <1>5. (w \in Calls => CallTail(w)') /\ (w = Rec => RecTail')
    BY <1>4, TailStays
  <1> QED
    BY <1>3, <1>5, FanStep

(* What a step cannot undo for the entry the worker is at. *)
LEMMA AtEntryStep ==
  ASSUME TypeInv, Unblocked, StoreOK, Orderly, FanOK, NEW w \in Workers, Frame(w), pc[w] \in AtEntry
  PROVE  /\ Min(left[w]) \in Seqs /\ left[w] # {} /\ pc[w] \in FansOut /\ AtWork(w)
         /\ \A s \in Seqs : /\ \A x \in Calls : Unsettled(x, s)' => Unsettled(x, s)
                            /\ \A r \in Reactions : Missing(r, s)' => Missing(r, s)
         /\ ~ SkipsAsBound(w)
         /\ todo \in [Workers -> SUBSET (Calls \cup Reactions)] /\ pc \in [Workers -> Labels]
         /\ read \in [Workers -> Reads]
  <1>1. left[w] # {}
    BY DEF TypeInv, WorkOK, Work
  <1>2. \A s \in Seqs : /\ \A x \in Calls : Unsettled(x, s)' => Unsettled(x, s)
                        /\ \A r \in Reactions : Missing(r, s)' => Missing(r, s)
    BY Settles DEF Frame
  <1>3. ~ SkipsAsBound(w)
    BY DEF SkipsAsBound, Unblocked, Workers
  <1> QED
    BY <1>1, <1>2, <1>3, FirstIsTyped DEF FansOut, FanOK, TypeInv, LocalTypes

LEMMA DispatchEntryFan ==
  ASSUME TypeInv, Unblocked, StoreOK, Orderly, FanOK, NEW w \in Workers, Frame(w), DispatchEntry(w)
  PROVE  FanOK'
  <1>1. pc[w] = "entry" /\ acked' = acked /\ tail' = tail /\ left' = left /\ UNCHANGED store
        /\ pc \in [Workers -> Labels] /\ todo \in [Workers -> SUBSET (Calls \cup Reactions)]
    BY DEF DispatchEntry, store, TypeInv, LocalTypes
  <1>2. CASE left[w] = {}
    <2>1. pc'[w] = "claim"
      BY <1>1, <1>2 DEF DispatchEntry, Goto
    <2> QED
      BY <1>1, <2>1, QuietFan DEF FansOut, AtEntry
  <1>3. CASE left[w] # {}
    <2>1. ~ SkipsAsBound(w)
      BY DEF SkipsAsBound, Unblocked, Workers
    <2>2. pc'[w] = "waits" /\ todo'[w] = PendingWaits(journal[Min(left[w])])
      BY <1>1, <1>3, <2>1 DEF DispatchEntry, Goto
    <2>3. ASSUME NEW x \in Calls, WaitsFor(x, Min(left[w])), waits[x].status = "pending" PROVE x \in todo'[w]
      BY <2>2, <2>3 DEF WaitsFor, PendingWaits
    <2>4. AtWork(w)'
      BY <1>1, <2>2, <2>3 DEF AtWork, Unsettled, WaitsFor, Concerns, store
    <2> QED
      BY <1>1, <2>4, SameEntryFan DEF FansOut
  <1> QED
    BY <1>2, <1>3

LEMMA NotifyWaitFan ==
  ASSUME TypeInv, Unblocked, StoreOK, Orderly, FanOK, NEW w \in Workers, NEW x \in Calls, Frame(w), NotifyWait(w, x)
  PROVE  FanOK'
  <1> DEFINE s == Min(left[w])
  <1>1. pc[w] = "waits" /\ acked' = acked /\ tail' = tail /\ left' = left /\ UNCHANGED store
    BY DEF NotifyWait, store
  <1>2. pc[w] \in AtEntry
    BY <1>1 DEF AtEntry
  <1>3. \A y \in Calls : Unsettled(y, s) => y \in todo[w]
    BY <1>1, <1>2, AtEntryStep DEF AtWork
  <1>4. \A y \in Calls : Unsettled(y, s)' => Unsettled(y, s)
    BY <1>1 DEF Unsettled, WaitsFor, Concerns, store
  <1>5. AnswerOf(w, x) = None => ~ Unsettled(x, s)
    <2>1. journal[s].call \in Workers
      BY <1>2, FirstIsTyped, AtEntryStep DEF Workers
    <2>2. [by |-> w, denial |-> TRUE] \in Answer /\ [by |-> journal[s].call, denial |-> FALSE] \in Answer
      BY <2>1 DEF Answer
    <2>3. AnswerOf(w, x) = None => ~ (journal[s].ok /\ journal[s].type = waits[x].on)
      BY <2>2, NoneAssumption DEF AnswerOf
    <2> QED
      BY <2>3 DEF Unsettled, WaitsFor
  <1>6. \/ AnswerOf(w, x) = None /\ pc'[w] = "waits" /\ todo'[w] = todo[w] \ {x}
        \/ pc'[w] = "update" /\ todo'[w] = todo[w]
    BY <1>1, <1>2, AtEntryStep DEF NotifyWait, Goto
  <1>7. \A y \in Calls : Unsettled(y, s)' => y \in todo'[w]
    BY <1>3, <1>4, <1>5, <1>6
  <1>8. AtWork(w)'
    BY <1>1, <1>6, <1>7 DEF AtWork
  <1> QED
    BY <1>1, <1>2, <1>8, AtEntryStep, SameEntryFan

LEMMA UpdateWaitFan ==
  ASSUME TypeInv, Unblocked, StoreOK, Orderly, FanOK, NEW w \in Workers, Frame(w), UpdateWait(w)
  PROVE  FanOK'
  <1> DEFINE s == Min(left[w])
             x == read[w].wait
  <1>1. pc[w] = "update" /\ acked' = acked /\ tail' = tail /\ left' = left
    BY DEF UpdateWait
  <1>2. pc[w] \in AtEntry
    BY <1>1 DEF AtEntry
  <1>3. \A y \in Calls : Unsettled(y, s) => y \in todo[w]
    BY <1>1, <1>2, AtEntryStep DEF AtWork
  <1>4. \A t \in Seqs : \A y \in Calls : Unsettled(y, t)' => Unsettled(y, t)
    BY <1>2, AtEntryStep
  <1>5. pc'[w] = "waits" /\ todo'[w] = todo[w] \ {x}
    BY <1>2, AtEntryStep DEF UpdateWait, Goto
  <1>6. x \in Calls /\ waits'[x].status = "resolved"
    <2>1. x \in Calls /\ waits \in [Calls -> WaitRecord \cup {None}]
      BY <1>1 DEF TypeInv, TypeOK, WorkOK, Work
    <2> QED
      BY <2>1 DEF UpdateWait
  <1>7. s \in Seqs
    BY <1>2, AtEntryStep
  <1> HIDE DEF x
  <1>8. ASSUME NEW y \in Calls, WaitsFor(y, s)', waits'[y].status = "pending" PROVE y \in todo'[w]
    BY <1>1, <1>3, <1>4, <1>5, <1>6, <1>7, <1>8 DEF Unsettled
  <1>9. AtWork(w)'
    BY <1>1, <1>5, <1>8 DEF AtWork, Unsettled
  <1> QED
    BY <1>1, <1>2, <1>9, AtEntryStep, SameEntryFan

LEMMA ListReactionsFan ==
  ASSUME TypeInv, Unblocked, StoreOK, Orderly, FanOK, NEW w \in Workers, Frame(w), ListReactions(w)
  PROVE  FanOK'
  <1> DEFINE s == Min(left[w])
  <1>1. pc[w] = "waits" /\ todo[w] = {} /\ acked' = acked /\ tail' = tail /\ left' = left /\ UNCHANGED store
    BY DEF ListReactions, store
  <1>2. pc[w] \in AtEntry
    BY <1>1 DEF AtEntry
  <1>3. s \in Seqs /\ \A y \in Calls : ~ Unsettled(y, s)
    BY <1>1, <1>2, AtEntryStep DEF AtWork
  <1>4. \A y \in Calls : ~ Unsettled(y, s)'
    BY <1>1, <1>3 DEF Unsettled, WaitsFor, Concerns, store
  <1>5. pc'[w] = "reactions" /\ todo'[w] = {r \in Reactions : MatchesReaction(r, s)}
    BY <1>2, AtEntryStep DEF ListReactions, Goto
  <1>6. ASSUME NEW r \in Reactions, Awaits(r, s) PROVE MatchesReaction(r, s)
    <2>1. PICK q \in 1 .. (s - 1) : journal[q].type = "reaction.registered" /\ Cmd[journal[q].call].reaction = r
      BY <1>6 DEF Awaits
    <2>2. q \in Seqs /\ q < s /\ s \in Nat /\ q \in Nat
      BY <1>3 DEF Seqs
    <2>3. reactions[r] # None /\ reactions[r].since <= q
      BY <2>1, <2>2 DEF StoreOK
    <2>4. reactions[r].since \in Nat
      BY <2>3 DEF TypeInv, TypeOK, ReactionRecord
    <2> QED
      BY <1>6, <2>2, <2>3, <2>4 DEF MatchesReaction, Awaits
  <1>7. \A r \in Reactions : Missing(r, s)' => r \in todo'[w]
    BY <1>1, <1>5, <1>6 DEF Missing, Awaits, store
  <1>8. AtWork(w)'
    BY <1>1, <1>4, <1>5, <1>7 DEF AtWork
  <1> QED
    BY <1>1, <1>2, <1>8, AtEntryStep, SameEntryFan

LEMMA DedupReadFan ==
  ASSUME TypeInv, Unblocked, StoreOK, Orderly, FanOK, NEW w \in Workers, NEW r \in Reactions, Frame(w), DedupRead(w, r)
  PROVE  FanOK'
  <1> DEFINE s == Min(left[w])
  <1>1. pc[w] = "reactions" /\ acked' = acked /\ tail' = tail /\ left' = left /\ todo' = todo /\ UNCHANGED store
    BY DEF DedupRead, store
  <1>2. pc[w] \in AtEntry
    BY <1>1 DEF AtEntry
  <1>3. (\A y \in Calls : ~ Unsettled(y, s)) /\ (\A q \in Reactions : Missing(q, s) => q \in todo[w])
    BY <1>1, <1>2, AtEntryStep DEF AtWork
  <1>4. (\A y \in Calls : ~ Unsettled(y, s)') /\ (\A q \in Reactions : Missing(q, s)' => q \in todo[w])
    BY <1>1, <1>3 DEF Unsettled, WaitsFor, Concerns, Missing, Awaits, store
  <1>5. pc'[w] = "enqueue" /\ read'[w] = [reaction |-> r, exists |-> <<r, s>> \in dedup]
    BY <1>2, AtEntryStep DEF DedupRead, Goto
  <1>6. read'[w].exists => <<read'[w].reaction, s>> \in dedup'
    <2> DEFINE b == <<r, s>> \in dedup
    <2>1. b \in BOOLEAN /\ (b => <<r, s>> \in dedup') /\ read'[w] = [reaction |-> r, exists |-> b]
      BY <1>1, <1>5 DEF store
    <2> HIDE DEF b
    <2>2. read'[w].exists = b /\ read'[w].reaction = r
      BY <2>1
    <2> QED
      BY <2>1, <2>2
  <1>7. AtWork(w)'
    BY <1>1, <1>4, <1>5, <1>6 DEF AtWork
  <1> QED
    BY <1>1, <1>2, <1>7, AtEntryStep, SameEntryFan

LEMMA EnqueueReactionFan ==
  ASSUME TypeInv, Unblocked, StoreOK, Orderly, FanOK, NEW w \in Workers, Frame(w), EnqueueReaction(w)
  PROVE  FanOK'
  <1> DEFINE s == Min(left[w])
             r == read[w].reaction
  <1>1. pc[w] = "enqueue" /\ acked' = acked /\ tail' = tail /\ left' = left
    BY DEF EnqueueReaction
  <1>2. pc[w] \in AtEntry
    BY <1>1 DEF AtEntry
  <1>3. /\ \A y \in Calls : ~ Unsettled(y, s)
        /\ \A q \in Reactions : Missing(q, s) => q \in todo[w]
        /\ read[w].exists => <<r, s>> \in dedup
    BY <1>1, <1>2, AtEntryStep DEF AtWork
  <1>4. s \in Seqs /\ \A t \in Seqs : /\ \A x \in Calls : Unsettled(x, t)' => Unsettled(x, t)
                                      /\ \A q \in Reactions : Missing(q, t)' => Missing(q, t)
    BY <1>2, AtEntryStep
  <1>5. pc'[w] = "reactions" /\ todo'[w] = todo[w] \ {r}
    BY <1>2, AtEntryStep DEF EnqueueReaction, Goto
  <1>6. <<r, s>> \in dedup'
    BY <1>3 DEF EnqueueReaction, Orderly
  <1> HIDE DEF r
  <1>7. \A y \in Calls : ~ Unsettled(y, s)'
    BY <1>1, <1>3, <1>4
  <1>8. ASSUME NEW q \in Reactions, Missing(q, s)' PROVE q \in todo'[w]
    <2>1. Missing(q, s) /\ q # r
      BY <1>1, <1>4, <1>6, <1>8 DEF Missing
    <2> QED
      BY <1>3, <1>5, <2>1
  <1>9. AtWork(w)'
    BY <1>1, <1>5, <1>7, <1>8 DEF AtWork
  <1> QED
    BY <1>1, <1>2, <1>9, AtEntryStep, SameEntryFan

LEMMA MarkProjectionFan ==
  ASSUME TypeInv, Unblocked, StoreOK, Orderly, FanOK, NEW w \in Workers, Frame(w), MarkProjection(w)
  PROVE  FanOK'
  <1>1. pc[w] = "reactions" /\ todo[w] = {} /\ acked' = acked /\ tail' = tail /\ UNCHANGED store
    BY DEF MarkProjection, store
  <1>2. pc[w] \in AtEntry
    BY <1>1 DEF AtEntry
  <1>3. (\A y \in Calls : ~ Unsettled(y, Min(left[w]))) /\ (\A r \in Reactions : ~ Missing(r, Min(left[w])))
    BY <1>1, <1>2, AtEntryStep DEF AtWork
  <1>4. \A s \in Seqs : s = Min(left[w]) =>
           (\A y \in Calls : ~ Unsettled(y, s)') /\ (\A r \in Reactions : ~ Missing(r, s)')
    BY <1>2, <1>3, AtEntryStep
  <1>5. CASE Min(left[w]) \in applied
    <2>1. NextEntry(w)
      BY <1>5 DEF MarkProjection
    <2>2. \A s \in Seqs : s = Min(left[w]) => FannedOut(s)'
      BY <1>1, <1>4, <1>5 DEF FannedOut, store
    <2> QED
      BY <1>1, <1>2, <2>1, <2>2, AtEntryStep, NextEntryFan
  <1>6. CASE Min(left[w]) \notin applied
    <2>1. left' = left /\ pc'[w] = "projLoad"
      BY <1>2, <1>6, AtEntryStep DEF MarkProjection, Goto
    <2>2. AtWork(w)'
      BY <1>2, <1>4, <2>1, AtEntryStep DEF AtWork
    <2> QED
      BY <1>1, <1>2, <2>1, <2>2, AtEntryStep, SameEntryFan
  <1> QED
    BY <1>5, <1>6

LEMMA LoadProjectionFan ==
  ASSUME TypeInv, Unblocked, StoreOK, Orderly, FanOK, NEW w \in Workers, Frame(w), LoadProjection(w)
  PROVE  FanOK'
  <1>1. pc[w] = "projLoad" /\ acked' = acked /\ tail' = tail /\ left' = left
    BY DEF LoadProjection, store
  <1>2. pc[w] \in AtEntry
    BY <1>1 DEF AtEntry
  <1>3. (\A y \in Calls : ~ Unsettled(y, Min(left[w]))) /\ (\A r \in Reactions : ~ Missing(r, Min(left[w])))
    BY <1>1, <1>2, AtEntryStep DEF AtWork
  <1>4. \A s \in Seqs : s = Min(left[w]) =>
           (\A y \in Calls : ~ Unsettled(y, s)') /\ (\A r \in Reactions : ~ Missing(r, s)')
    BY <1>2, <1>3, AtEntryStep
  <1>5. pc'[w] = "projFlush"
    BY <1>2, AtEntryStep DEF LoadProjection, Goto
  <1>6. AtWork(w)'
    BY <1>1, <1>2, <1>4, <1>5, AtEntryStep DEF AtWork
  <1> QED
    BY <1>1, <1>2, <1>6, AtEntryStep, SameEntryFan

LEMMA FlushProjectionFan ==
  ASSUME TypeInv, Unblocked, StoreOK, Orderly, FanOK, NEW w \in Workers, Frame(w), FlushProjection(w)
  PROVE  FanOK'
  <1>1. pc[w] = "projFlush" /\ acked' = acked /\ tail' = tail /\ NextEntry(w) /\ Min(left[w]) \in applied'
    BY DEF FlushProjection
  <1>2. pc[w] \in AtEntry
    BY <1>1 DEF AtEntry
  <1>3. (\A y \in Calls : ~ Unsettled(y, Min(left[w]))) /\ (\A r \in Reactions : ~ Missing(r, Min(left[w])))
    BY <1>1, <1>2, AtEntryStep DEF AtWork
  <1>4. \A s \in Seqs : s = Min(left[w]) => FannedOut(s)'
    BY <1>1, <1>2, <1>3, AtEntryStep DEF FannedOut
  <1> QED
    BY <1>1, <1>2, <1>4, AtEntryStep, NextEntryFan

LEMMA DispatchFan ==
  ASSUME TypeInv, Unblocked, StoreOK, Orderly, FanOK, NEW w \in Workers, Frame(w), Dispatch(w)
  PROVE  FanOK'
  <1>1. ~ SkipEntry(w)
    BY DEF SkipEntry, SkipsAsBound, Unblocked, Workers
  <1> QED
    BY <1>1, DispatchEntryFan, UpdateWaitFan, ListReactionsFan, NotifyWaitFan, DedupReadFan, EnqueueReactionFan,
       MarkProjectionFan, LoadProjectionFan, FlushProjectionFan, QuietDispatchFan DEF Dispatch

LEMMA ClaimFanoutBatchFan ==
  ASSUME TypeInv, Unblocked, StoreOK, Orderly, FanOK, Frame(Rec), ClaimFanoutBatch
  PROVE  FanOK'
  <1> DEFINE batch == {s \in Seqs : Due(s)}
  <1>1. Rec \in Workers /\ Rec \notin Calls /\ acked' = acked /\ pc \in [Workers -> Labels]
        /\ tail \in [Workers -> SUBSET Seqs] /\ left \in [Workers -> SUBSET Seqs]
    BY CallAssumption DEF Workers, ClaimFanoutBatch, store, TypeInv, LocalTypes
  <1>2. pc'[Rec] = "done" \/ (pc'[Rec] = "entry" /\ left'[Rec] = {Min(tail'[Rec])})
    <2>1. tail' = [tail EXCEPT ![Rec] = batch]
      BY DEF ClaimFanoutBatch
    <2>2. \/ pc' = [pc EXCEPT ![Rec] = "done"]
          \/ pc' = [pc EXCEPT ![Rec] = "entry"] /\ left' = [left EXCEPT ![Rec] = {Min(batch)}]
      BY DEF ClaimFanoutBatch, Goto
    <2> HIDE DEF batch
    <2>3. tail'[Rec] = batch
      BY <1>1, <2>1
    <2>4. CASE pc' = [pc EXCEPT ![Rec] = "done"]
      BY <1>1, <2>4
    <2>5. CASE pc' = [pc EXCEPT ![Rec] = "entry"] /\ left' = [left EXCEPT ![Rec] = {Min(batch)}]
      <3> DEFINE first == {Min(batch)}
      <3>1. left' = [left EXCEPT ![Rec] = first]
        BY <2>5
      <3> HIDE DEF first
      <3>2. left'[Rec] = first /\ pc'[Rec] = "entry"
        BY <1>1, <2>5, <3>1
      <3> QED
        BY <2>3, <3>2 DEF first
    <2> QED
      BY <2>2, <2>4, <2>5
  <1>3. AtWork(Rec)' /\ RecTail'
    BY <1>2 DEF AtWork, RecTail, FansOut, AtEntry, Draining
  <1> QED
    BY <1>1, <1>3, FanStep

LEMMA NextOfBatchFan ==
  ASSUME TypeInv, Unblocked, StoreOK, Orderly, FanOK, Frame(Rec), NextOfBatch, pc[Rec] \in Draining,
         acked' = acked \/ acked' = acked \cup {Min(tail[Rec])}
  PROVE  FanOK'
  <1>1. Rec \in Workers /\ Rec \notin Calls
    BY CallAssumption DEF Workers
  <1>2. AtWork(Rec)' /\ RecTail'
    BY BatchTypes DEF AtWork, RecTail, FansOut, AtEntry, Draining
  <1>3. Min(tail[Rec]) \in Seqs
    BY BatchTypes
  <1>4. left[Rec] = {} /\ pc[Rec] \in FansOut
    BY <1>1 DEF TypeInv, WorkOK, Work, FansOut
  <1>5. FannedOut(Min(tail[Rec]))
    BY <1>4 DEF FanOK, RecTail
  <1>6. \A s \in Seqs : FannedOut(s) => FannedOut(s)'
    BY Settles DEF Frame
  <1>7. \A s \in acked' : s \in acked \/ FannedOut(s)'
    BY <1>3, <1>5, <1>6
  <1> QED
    BY <1>1, <1>2, <1>7, FanStep

LEMMA RecoveryFan ==
  ASSUME TypeInv, Unblocked, StoreOK, Orderly, FanOK, Frame(Rec), RecoveryAck \/ RecoveryFails
  PROVE  FanOK'
  <1>1. NextOfBatch /\ pc[Rec] \in Draining /\ (acked' = acked \/ acked' = acked \cup {Min(tail[Rec])})
    BY DEF RecoveryAck, RecoveryFails, Draining
  <1> QED
    BY <1>1, NextOfBatchFan

LEMMA CrashFan ==
  ASSUME TypeInv, Unblocked, StoreOK, Orderly, FanOK, Crash
  PROVE  FanOK'
  <1>1. StoreGrows /\ \A w \in Workers : Crashed(w)
    BY CrashTypes
  <1>2. Rec \in Workers /\ Calls \subseteq Workers /\ acked' = acked
    BY DEF Workers, Crash, store
  <1>3. \A w \in Workers : pc'[w] \notin FansOut
    BY <1>1 DEF Crashed, FansOut, AtEntry, Draining
  <1>4. \A w \in Workers : AtWork(w)'
    BY <1>3 DEF AtWork, FansOut, AtEntry
  <1>5. RecTail' /\ \A c \in Calls : CallTail(c)'
    BY <1>2, <1>3 DEF RecTail, CallTail
  <1>6. \A s \in acked' : FannedOut(s)'
    BY <1>1, <1>2, AckedKept
  <1> QED
    BY <1>4, <1>5, <1>6 DEF FanOK

LEMMA StillFan ==
  ASSUME TypeInv, Unblocked, StoreOK, Orderly, FanOK, RetryDue \/ UNCHANGED vars
  PROVE  FanOK'
  <1>1. StoreGrows /\ (\A v \in Workers : Same(v)) /\ acked' = acked
    BY StillTypes DEF RetryDue, vars, store
  <1>2. Rec \in Workers /\ Calls \subseteq Workers
    BY DEF Workers
  <1>3. \A w \in Workers : AtWork(w)'
    BY <1>1, AtWorkKept DEF FanOK
  <1>4. RecTail' /\ \A c \in Calls : CallTail(c)'
    BY <1>1, <1>2, TailKept DEF FanOK
  <1>5. \A s \in acked' : FannedOut(s)'
    BY <1>1, AckedKept
  <1> QED
    BY <1>3, <1>4, <1>5 DEF FanOK

FanInv == TypeInv /\ StoreOK /\ FanOK

LEMMA StepFan ==
  ASSUME Unblocked, FanInv, [Next]_vars
  PROVE  FanInv'
  <1>1. TypeInv' /\ StoreGrows
    BY StepTypes DEF FanInv
  <1>2. Orderly
    BY StepOrderly DEF FanInv
  <1>3. StoreOK'
    BY <1>1, <1>2, StoreKept DEF FanInv
  <1>4. TypeInv /\ StoreOK /\ FanOK
    BY DEF FanInv
  <1>5. ASSUME NEW c \in Calls, Begin(c) \/ Call(c) PROVE FanOK'
    BY <1>2, <1>4, <1>5, CallTypes, CallFan
  <1>6. ASSUME NEW w \in Workers, Dispatch(w) PROVE FanOK'
    BY <1>2, <1>4, <1>6, DispatchTypes, DispatchFan
  <1>7. ClaimFanoutBatch => FanOK'
    BY <1>2, <1>4, ClaimFanoutBatchTypes, ClaimFanoutBatchFan
  <1>8. RecoveryAck \/ RecoveryFails => FanOK'
    BY <1>2, <1>4, RecoveryAckTypes, RecoveryFailsTypes, RecoveryFan
  <1>9. Crash \/ RetryDue \/ UNCHANGED vars => FanOK'
    BY <1>2, <1>4, CrashFan, StillFan
  <1>10. Calls \subseteq Workers /\ Rec \in Workers
    BY DEF Workers
  <1>11. FanOK'
    BY <1>5, <1>6, <1>7, <1>8, <1>9, <1>10 DEF Next, Recovery
  <1> QED
    BY <1>1, <1>3, <1>11 DEF FanInv

LEMMA InitFan == Init => FanInv
  <1> SUFFICES ASSUME Init PROVE FanInv
    OBVIOUS
  <1>1. TypeInv
    BY InitTypes
  <1>2. Seqs = {} /\ acked = {} /\ Rec \notin Calls /\ Rec \in Workers /\ Calls \subseteq Workers
    BY CallAssumption DEF Init, Seqs, Workers
  <1>3. \A w \in Workers : pc[w] \in {"new", "done"}
    BY DEF Init
  <1>4. StoreOK
    BY <1>2, <1>3 DEF StoreOK, Init
  <1>5. FanOK
    BY <1>2, <1>3 DEF FanOK, AtWork, CallTail, RecTail, FansOut, AtEntry, Draining
  <1> QED
    BY <1>1, <1>4, <1>5 DEF FanInv

(* K15: an entry that has left the outbox has been fanned out: it is       *)
(* projected, the reactions that were registered before it are in the      *)
(* dedup ledger and the waits it matches are settled, whatever calls share *)
(* the work, wherever the daemon crashed and whichever actions threw       *)
(* (dispatchFanout before ackFanout, drainOutbox).  It holds of calls that *)
(* do not block (a blocked call that is denied skips the rest of its       *)
(* entries) and of reactions that are registered once (a second            *)
(* registration moves the watermark past entries not yet fanned out).      *)
THEOREM AckedHasFannedOut ==
  ASSUME Unblocked
  PROVE  Spec => []AckedIsFannedOut
  <1>1. Init => FanInv
    BY InitFan
  <1>2. FanInv /\ [Next]_vars => FanInv'
    BY StepFan
  <1>3. FanInv => AckedIsFannedOut
    BY DEF FanInv, FanOK, FannedOut, Missing, Unsettled, AckedIsFannedOut
  <1> QED
    BY <1>1, <1>2, <1>3, PTL DEF Spec
-----------------------------------------------------------------------------
(* One call at a time. *)

Serial == \A v, w \in Running : v = w

(* The projection of an aggregate has every entry marked for it, once, and *)
(* what the running call read of it is still so.                           *)
Marked(a) == {s \in applied : journal[s].agg = a}
ProjOK ==
    /\ ProjectionComplete
    /\ \A w \in Workers :
          /\ pc[w] \in {"projLoad", "projFlush"} => Min(left[w]) \notin applied
          /\ pc[w] = "projFlush" => read[w].prior = proj[journal[Min(left[w])].agg]

NoBypass == \A c \in Calls : Cmd[c].kind = "reaction.replay" => ~Cmd[c].bypass

(* A side effect happens for a pair in the ledger, by the queue item that  *)
(* was queued for it or by the replay that found none.                     *)
EffectsOK ==
    NoBypass =>
        /\ \A rs \in DOMAIN delivered : delivered[rs] = 1 /\ rs \in dedup
        /\ \A i \in DOMAIN queue :
              /\ Pair(i) \in dedup
              /\ queue[i].status = "pending" => Pair(i) \notin DOMAIN delivered
        /\ \A i, j \in DOMAIN queue : Pair(i) = Pair(j) => i = j
        /\ \A w \in Workers :
              /\ \A i \in items[w] :
                    /\ queue[i].status = "processing"
                    /\ Pair(i) \in DOMAIN delivered => pc[w] = "complete" /\ i = Min(items[w])
              /\ items[w] # {} => pc[w] \in {"invoke", "complete"}
              /\ pc[w] = "enqueue" /\ ~ read[w].exists =>
                    <<read[w].reaction, Min(left[w])>> \notin dedup
        /\ \A c \in Calls :
              LET rs == <<Cmd[c].reaction, Cmd[c].source>>
              IN  /\ pc[c] = "replayDedup" /\ ~ read[c].exists => rs \notin dedup
                  /\ pc[c] = "replayInvoke" =>
                        /\ rs \in dedup /\ rs \notin DOMAIN delivered
                        /\ \A i \in DOMAIN queue : Pair(i) # rs

(* A wait that is settled has settled its promise before. *)
WakeOK ==
    /\ \A c \in Calls :
          /\ Blocks(c) /\ waits[c] # None /\ waits[c].status = "resolved" => deferred[c] # Open
          /\ Blocks(c) /\ pc[c] \in {"defer", "deferAgain"} => waits[c].status = "pending"
          /\ pc[c] = "await" => Blocks(c)
    /\ \A w \in Workers : pc[w] = "update" => deferred[read[w].wait] # Open

SerialInv == Serial /\ ProjOK /\ EffectsOK /\ WakeOK

-----------------------------------------------------------------------------
(* One worker runs: the others keep their locals and are over. *)

Alone(w) == \A v \in Workers : v # w => pc[v] \in Over

LEMMA SerialKept ==
  ASSUME NEW w \in Workers, Frame(w), Alone(w)
  PROVE  Serial'
  BY DEF Serial, Running, Frame, Alone, Same

LEMMA OthersOver ==
  ASSUME NEW w \in Workers, Frame(w), Alone(w)
  PROVE  \A v \in Workers : v # w => pc'[v] \in Over /\ pc[v] \in Over /\ items'[v] = items[v]
  BY DEF Frame, Alone, Same

LEMMA MarkedKept ==
  ASSUME TypeInv, ProjectionComplete, StoreGrows, UNCHANGED <<proj, applied>>
  PROVE  ProjectionComplete'
  <1>1. \A s \in applied : journal'[s] = journal[s]
    BY DEF StoreGrows, TypeInv, TypeOK
  <1> SUFFICES ASSUME NEW a \in Aggs \cup {None}
               PROVE  /\ Len(proj'[a]) = Cardinality({s \in applied' : journal'[s].agg = a})
                      /\ {proj'[a][i] : i \in DOMAIN proj'[a]} = {s \in applied' : journal'[s].agg = a}
    BY DEF ProjectionComplete
  <1>2. {s \in applied : journal'[s].agg = a} = {s \in applied : journal[s].agg = a}
    BY <1>1
  <1>3. /\ Len(proj[a]) = Cardinality({s \in applied : journal[s].agg = a})
        /\ {proj[a][i] : i \in DOMAIN proj[a]} = {s \in applied : journal[s].agg = a}
    BY DEF ProjectionComplete
  <1> QED
    BY <1>2, <1>3

LEMMA ProjQuiet ==
  ASSUME TypeInv, SerialInv, NEW w \in Workers, Frame(w), Alone(w), UNCHANGED <<proj, applied>>,
         pc'[w] \notin {"projLoad", "projFlush"}
  PROVE  ProjOK'
  <1>1. \A v \in Workers : pc'[v] \notin {"projLoad", "projFlush"}
    BY OthersOver DEF Over
  <1>2. ProjectionComplete'
    BY MarkedKept DEF SerialInv, ProjOK, Frame
  <1> QED
    BY <1>1, <1>2 DEF ProjOK

LEMMA EffectsEmptied ==
  ASSUME TypeInv, SerialInv, NEW w \in Workers, Frame(w), Alone(w), UNCHANGED <<delivered, dedup, queue>>,
         pc'[w] \notin {"enqueue", "replayDedup", "replayInvoke"}, items'[w] = {}
  PROVE  EffectsOK'
  <1> SUFFICES ASSUME NoBypass PROVE EffectsOK'
    BY DEF EffectsOK, NoBypass
  <1>1. \A v \in Workers : items[v] # {} => pc[v] \in {"invoke", "complete"}
    BY DEF SerialInv, EffectsOK
  <1>2. \A v \in Workers : items'[v] = {}
    BY <1>1, OthersOver DEF Over
  <1>3. \A v \in Workers : pc'[v] \notin {"enqueue", "replayDedup", "replayInvoke"}
    BY OthersOver DEF Over
  <1>4. Calls \subseteq Workers
    BY DEF Workers
  <1> QED
    BY <1>2, <1>3, <1>4 DEF SerialInv, EffectsOK, Pair

LEMMA EffectsQuiet ==
  ASSUME TypeInv, SerialInv, NEW w \in Workers, Frame(w), Alone(w), UNCHANGED <<delivered, dedup, queue>>,
         pc'[w] \notin {"enqueue", "replayDedup", "replayInvoke"},
         items'[w] = items[w], pc[w] \notin {"invoke", "complete"}
  PROVE  EffectsOK'
  <1> SUFFICES ASSUME NoBypass PROVE EffectsOK'
    BY DEF EffectsOK, NoBypass
  <1>1. items'[w] = {}
    BY DEF SerialInv, EffectsOK
  <1> QED
    BY <1>1, EffectsEmptied

LEMMA WakeQuiet ==
  ASSUME TypeInv, SerialInv, NEW w \in Workers, Frame(w), Alone(w), UNCHANGED <<waits, deferred>>,
         pc'[w] \notin {"update", "defer", "deferAgain"}, pc'[w] = "await" => Blocks(w)
  PROVE  WakeOK'
  <1>1. \A v \in Workers : pc'[v] \notin {"update", "defer", "deferAgain"}
    BY OthersOver DEF Over
  <1>2. \A c \in Calls : c # w => pc'[c] = pc[c]
    BY DEF Frame, Same, Workers
  <1>3. Calls \subseteq Workers
    BY DEF Workers
  <1> QED
    BY <1>1, <1>2, <1>3 DEF SerialInv, WakeOK, Blocks

-----------------------------------------------------------------------------
(* Projections. *)

LEMMA MarkProjectionProj ==
  ASSUME TypeInv, SerialInv, NEW w \in Workers, Frame(w), Alone(w), MarkProjection(w)
  PROVE  ProjOK'
  <1>1. UNCHANGED <<proj, applied>> /\ pc \in [Workers -> Labels]
    BY DEF MarkProjection, store, TypeInv, LocalTypes
  <1>2. CASE Min(left[w]) \in applied
    BY <1>1, <1>2, ProjQuiet DEF MarkProjection, NextEntry, Goto
  <1>3. CASE Min(left[w]) \notin applied
    <2>1. pc'[w] = "projLoad" /\ left' = left
      BY <1>1, <1>3 DEF MarkProjection, Goto
    <2>2. ProjectionComplete'
      BY <1>1, MarkedKept DEF SerialInv, ProjOK, Frame
    <2>3. \A v \in Workers : pc'[v] \in {"projLoad", "projFlush"} => v = w
      BY OthersOver DEF Over
    <2> QED
      BY <1>1, <1>3, <2>1, <2>2, <2>3 DEF ProjOK
  <1> QED
    BY <1>2, <1>3

LEMMA LoadProjectionProj ==
  ASSUME TypeInv, SerialInv, NEW w \in Workers, Frame(w), Alone(w), LoadProjection(w)
  PROVE  ProjOK'
  <1>1. UNCHANGED <<proj, applied, journal, left>> /\ pc \in [Workers -> Labels] /\ read \in [Workers -> Reads]
    BY DEF LoadProjection, store, TypeInv, LocalTypes
  <1>2. pc'[w] = "projFlush" /\ read'[w] = [prior |-> proj[journal[Min(left[w])].agg]] /\ pc[w] = "projLoad"
    BY <1>1 DEF LoadProjection, Goto
  <1>3. ProjectionComplete'
    BY <1>1, MarkedKept DEF SerialInv, ProjOK, Frame
  <1>4. \A v \in Workers : pc'[v] \in {"projLoad", "projFlush"} => v = w
    BY OthersOver DEF Over
  <1>5. Min(left[w]) \notin applied
    BY <1>2 DEF SerialInv, ProjOK
  <1> QED
    BY <1>1, <1>2, <1>3, <1>4, <1>5 DEF ProjOK

LEMMA FlushProjectionProj ==
  ASSUME TypeInv, SerialInv, NEW w \in Workers, Frame(w), Alone(w), FlushProjection(w)
  PROVE  ProjOK'
  <1> DEFINE s == Min(left[w])
             a0 == journal[s].agg
             p == proj[a0]
  <1>1. pc[w] = "projFlush" /\ pc \in [Workers -> Labels] /\ proj \in [Aggs \cup {None} -> Seq(Seqs)]
        /\ journal' = journal /\ applied' = applied \cup {s} /\ proj' = [proj EXCEPT ![a0] = Append(read[w].prior, s)]
    BY DEF FlushProjection, TypeInv, TypeOK, LocalTypes
  <1>2. s \in Seqs /\ a0 \in Aggs \cup {None}
    BY <1>1, FirstIsTyped DEF TypeInv, WorkOK, Work, AtEntry
  <1>3. s \notin applied /\ read[w].prior = p
    BY <1>1 DEF SerialInv, ProjOK
  <1>4. \A v \in Workers : pc'[v] \notin {"projLoad", "projFlush"}
    BY <1>1, OthersOver DEF FlushProjection, NextEntry, Goto, Over
  <1>5. p \in Seq(Seqs)
    BY <1>1, <1>2
  <1> HIDE DEF s, p
  <1>6. Len(Append(p, s)) = Len(p) + 1
        /\ {Append(p, s)[i] : i \in DOMAIN Append(p, s)} = {p[i] : i \in DOMAIN p} \cup {s}
    <2>1. Len(Append(p, s)) = Len(p) + 1 /\ DOMAIN Append(p, s) = 1 .. (Len(p) + 1) /\ DOMAIN p = 1 .. Len(p)
          /\ Len(p) \in Nat /\ Append(p, s)[Len(p) + 1] = s /\ \A i \in 1 .. Len(p) : Append(p, s)[i] = p[i]
      BY <1>2, <1>5
    <2> HIDE DEF a0
    <2>2. 1 .. (Len(p) + 1) = (1 .. Len(p)) \cup {Len(p) + 1}
      BY <2>1
    <2> QED
      BY <2>1, <2>2
  <1>7. ProjectionComplete'
    <2> SUFFICES ASSUME NEW a \in Aggs \cup {None}
                 PROVE  /\ Len(proj'[a]) = Cardinality({t \in applied' : journal'[t].agg = a})
                        /\ {proj'[a][i] : i \in DOMAIN proj'[a]} = {t \in applied' : journal'[t].agg = a}
      BY DEF ProjectionComplete
    <2> DEFINE m == {t \in applied : journal[t].agg = a}
    <2>1. Len(proj[a]) = Cardinality(m) /\ {proj[a][i] : i \in DOMAIN proj[a]} = m
      BY DEF SerialInv, ProjOK, ProjectionComplete
    <2>2. CASE a # a0
      <3>1. {t \in applied' : journal'[t].agg = a} = m
        BY <1>1, <2>2
      <3>2. proj'[a] = proj[a]
        BY <1>1, <2>2
      <3> QED
        BY <2>1, <3>1, <3>2
    <2>3. CASE a = a0
      <3>1. {t \in applied' : journal'[t].agg = a} = m \cup {s}
        BY <1>1, <2>3
      <3>2. s \notin m
        BY <1>3
      <3>3. IsFiniteSet(m)
        <4>1. m \subseteq 1 .. Len(journal) /\ Len(journal) \in Nat
          <5>1. applied \subseteq 1 .. Len(journal) /\ Len(journal) \in Nat
            BY DEF TypeInv, TypeOK, Seqs
          <5> QED
            BY <5>1
        <4>2. IsFiniteSet(1 .. Len(journal))
          BY <4>1, FS_Interval
        <4> QED
          BY <4>1, <4>2, FS_Subset
      <3>4. Cardinality(m \cup {s}) = Cardinality(m) + 1
        BY <3>2, <3>3, FS_AddElement
      <3>5. proj'[a] = Append(p, s) /\ proj[a] = p
        BY <1>1, <1>2, <1>3, <2>3 DEF p
      <3> HIDE DEF m
      <3>6. Len(proj'[a]) = Cardinality(m \cup {s})
        BY <1>6, <2>1, <3>4, <3>5
      <3>7. {proj'[a][i] : i \in DOMAIN proj'[a]} = m \cup {s}
        BY <1>6, <2>1, <3>5
      <3> QED
        BY <3>1, <3>6, <3>7
    <2> QED
      BY <2>2, <2>3
  <1> QED
    BY <1>4, <1>7 DEF ProjOK

-----------------------------------------------------------------------------
(* Wake-ups. *)

LEMMA RegisterBlockWaitWake ==
  ASSUME TypeInv, SerialInv, NEW c \in Calls, Frame(c), Alone(c), RegisterBlockWait(c)
  PROVE  WakeOK'
  <1>1. c \in Workers /\ Calls \subseteq Workers /\ pc \in [Workers -> Labels]
        /\ waits \in [Calls -> WaitRecord \cup {None}]
    BY DEF TypeInv, TypeOK, LocalTypes, Workers
  <1>2. deferred' = deferred /\ pc'[c] = "defer" /\ waits'[c].status = "pending"
        /\ \A d \in Calls : d # c => waits'[d] = waits[d]
    BY <1>1 DEF RegisterBlockWait, Goto, WaitRow
  <1>3. \A v \in Workers : v # c => pc'[v] = pc[v] /\ pc'[v] \notin {"update", "defer", "deferAgain"}
    BY <1>1, OthersOver DEF Over, Frame, Same
  <1> QED
    BY <1>1, <1>2, <1>3 DEF SerialInv, WakeOK, Blocks

LEMMA RegisterDeferredWake ==
  ASSUME TypeInv, SerialInv, NEW c \in Calls, Frame(c), Alone(c), RegisterDeferred(c)
  PROVE  WakeOK'
  <1>1. c \in Workers /\ Calls \subseteq Workers /\ pc \in [Workers -> Labels]
        /\ deferred \in [Calls -> {None, Open} \cup Answer]
    BY DEF TypeInv, TypeOK, LocalTypes, Workers
  <1>2. waits' = waits /\ pc'[c] \in {"deferAgain", "readMax"} /\ pc[c] \in {"defer", "deferAgain"}
        /\ \A d \in Calls : d # c => deferred'[d] = deferred[d]
    BY <1>1 DEF RegisterDeferred, Goto, store
  <1>3. \A v \in Workers : v # c => pc'[v] = pc[v] /\ pc'[v] \notin {"update", "defer", "deferAgain"}
    BY <1>1, OthersOver DEF Over, Frame, Same
  <1>4. Blocks(c) /\ waits[c].status = "pending"
    BY <1>2 DEF SerialInv, WakeOK, TypeInv, WorkOK, CallWork
  <1> QED
    BY <1>1, <1>2, <1>3, <1>4 DEF SerialInv, WakeOK, Blocks

LEMMA CommitWaitRegisterWake ==
  ASSUME TypeInv, SerialInv, NEW c \in Calls, Frame(c), Alone(c), CommitWaitRegister(c)
  PROVE  WakeOK'
  <1>1. c \in Workers /\ Calls \subseteq Workers /\ pc \in [Workers -> Labels]
        /\ waits \in [Calls -> WaitRecord \cup {None}]
    BY DEF TypeInv, TypeOK, LocalTypes, Workers
  <1>2. deferred' = deferred /\ pc'[c] = "tail" /\ ~ Blocks(c)
        /\ \A d \in Calls : d # c => waits'[d] = waits[d]
    BY <1>1 DEF CommitWaitRegister, Commits, Goto, Blocks
  <1>3. \A v \in Workers : v # c => pc'[v] = pc[v] /\ pc'[v] \notin {"update", "defer", "deferAgain"}
    BY <1>1, OthersOver DEF Over, Frame, Same
  <1> QED
    BY <1>1, <1>2, <1>3 DEF SerialInv, WakeOK, Blocks

LEMMA CommitWaitCancelWake ==
  ASSUME TypeInv, SerialInv, NEW c \in Calls, Frame(c), Alone(c), CommitWaitCancel(c)
  PROVE  WakeOK'
  <1>1. c \in Workers /\ Calls \subseteq Workers /\ pc \in [Workers -> Labels]
        /\ waits \in [Calls -> WaitRecord \cup {None}]
    BY DEF TypeInv, TypeOK, LocalTypes, Workers
  <1>2. deferred' = deferred /\ pc'[c] = "tail"
        /\ \A d \in Calls : waits'[d] = waits[d] \/ waits'[d].status = "cancelled"
    BY <1>1 DEF CommitWaitCancel, Commits, Goto
  <1>3. \A v \in Workers : pc'[v] \notin {"update", "defer", "deferAgain"} /\ (v # c => pc'[v] = pc[v])
    BY <1>1, <1>2, OthersOver DEF Over, Frame, Same
  <1> QED
    BY <1>1, <1>2, <1>3 DEF SerialInv, WakeOK, Blocks

LEMMA UpdateWaitWake ==
  ASSUME TypeInv, SerialInv, NEW w \in Workers, Frame(w), Alone(w), UpdateWait(w)
  PROVE  WakeOK'
  <1>1. Calls \subseteq Workers /\ pc \in [Workers -> Labels] /\ waits \in [Calls -> WaitRecord \cup {None}]
    BY DEF TypeInv, TypeOK, LocalTypes, Workers
  <1>2. deferred' = deferred /\ pc'[w] = "waits" /\ pc[w] = "update" /\ deferred[read[w].wait] # Open
        /\ \A d \in Calls : d # read[w].wait => waits'[d] = waits[d]
    BY <1>1 DEF UpdateWait, Goto, SerialInv, WakeOK
  <1>3. \A v \in Workers : pc'[v] \notin {"update", "defer", "deferAgain"} /\ (v # w => pc'[v] = pc[v])
    BY <1>1, <1>2, OthersOver DEF Over, Frame, Same
  <1> QED
    BY <1>1, <1>2, <1>3 DEF SerialInv, WakeOK, Blocks

LEMMA NotifyWaitWake ==
  ASSUME TypeInv, SerialInv, NEW w \in Workers, NEW x \in Calls, Frame(w), Alone(w), NotifyWait(w, x)
  PROVE  WakeOK'
  <1>1. Calls \subseteq Workers /\ pc \in [Workers -> Labels] /\ read \in [Workers -> Reads]
        /\ deferred \in [Calls -> {None, Open} \cup Answer]
    BY DEF TypeInv, TypeOK, LocalTypes, Workers
  <1>2. waits' = waits /\ pc'[w] \in {"waits", "update"} /\ pc[w] = "waits"
    BY <1>1 DEF NotifyWait, Goto, store
  <1>3. \A v \in Workers : v # w => pc'[v] = pc[v] /\ pc'[v] \notin {"update", "defer", "deferAgain"}
    BY <1>1, OthersOver DEF Over, Frame, Same
  <1>4. CASE AnswerOf(w, x) = None
    <2>1. deferred' = deferred /\ pc'[w] = "waits"
      BY <1>1, <1>2, <1>4 DEF NotifyWait
    <2> QED
      BY <1>1, <1>2, <1>3, <2>1 DEF SerialInv, WakeOK, Blocks
  <1>5. CASE AnswerOf(w, x) # None
    <2>1. AnswerOf(w, x) # Open
      <3>1. journal[Min(left[w])].call \in Workers
        BY <1>2, FirstIsTyped DEF TypeInv, WorkOK, Work, AtEntry, Workers
      <3>2. AnswerOf(w, x).by \in Workers
        BY <1>5, <3>1 DEF AnswerOf
      <3> QED
        BY <3>2, NoneAssumption DEF Open
    <2>2. deferred'[x] # Open /\ \A d \in Calls : d # x => deferred'[d] = deferred[d]
      BY <1>1, <1>5, <2>1 DEF NotifyWait
    <2>3. pc'[w] = "update" /\ read'[w] = [wait |-> x]
      BY <1>1, <1>5 DEF NotifyWait, Goto
    <2> QED
      BY <1>1, <1>2, <1>3, <2>2, <2>3 DEF SerialInv, WakeOK, Blocks
  <1> QED
    BY <1>4, <1>5

-----------------------------------------------------------------------------
(* Side effects. *)

\* What the worker's step leaves to show of EffectsOK.
LEMMA OthersIdle ==
  ASSUME TypeInv, SerialInv, NoBypass, NEW w \in Workers, Frame(w), Alone(w)
  PROVE  /\ \A v \in Workers : v # w => items'[v] = {} /\ pc'[v] \notin {"enqueue", "replayDedup", "replayInvoke"}
         /\ \A v \in Workers : pc[v] \notin {"invoke", "complete"} => items[v] = {}
         /\ Calls \subseteq Workers /\ pc \in [Workers -> Labels] /\ read \in [Workers -> Reads]
         /\ items \in [Workers -> SUBSET DOMAIN queue]
         /\ \A rs \in DOMAIN delivered : delivered[rs] = 1 /\ rs \in dedup
         /\ \A i \in DOMAIN queue : Pair(i) \in dedup /\ (queue[i].status = "pending" => Pair(i) \notin DOMAIN delivered)
         /\ \A i, j \in DOMAIN queue : Pair(i) = Pair(j) => i = j
         /\ \A i \in items[w] : queue[i].status = "processing"
                                /\ (Pair(i) \in DOMAIN delivered => pc[w] = "complete" /\ i = Min(items[w]))
  <1>1. \A v \in Workers : items[v] # {} => pc[v] \in {"invoke", "complete"}
    BY DEF SerialInv, EffectsOK
  <1>2. \A v \in Workers : v # w => items'[v] = {} /\ pc'[v] \notin {"enqueue", "replayDedup", "replayInvoke"}
    BY <1>1, OthersOver DEF Over
  <1>3. Calls \subseteq Workers /\ pc \in [Workers -> Labels] /\ read \in [Workers -> Reads]
        /\ items \in [Workers -> SUBSET DOMAIN queue]
    BY DEF TypeInv, LocalTypes, Workers
  <1> QED
    BY <1>1, <1>2, <1>3 DEF SerialInv, EffectsOK

LEMMA ReplayEffects ==
  ASSUME TypeInv, SerialInv, NEW c \in Calls, Frame(c), Alone(c), Replay(c)
  PROVE  EffectsOK'
  <1> SUFFICES ASSUME NoBypass PROVE EffectsOK'
    BY DEF EffectsOK, NoBypass
  <1> DEFINE b == <<Cmd[c].reaction, Cmd[c].source>> \in dedup
  <1>1. c \in Workers /\ UNCHANGED <<delivered, dedup, queue, items>> /\ pc[c] = "replay"
    BY DEF Replay, store, Workers
  <1>2. ~ Cmd[c].bypass
    BY <1>1 DEF NoBypass, TypeInv, WorkOK, CallWork
  <1>3. pc'[c] \in {"tail", "replayDedup"} /\ read'[c] = [exists |-> b]
    BY <1>1, <1>2, OthersIdle DEF Replay, Goto
  <1>4. b \in BOOLEAN /\ (b <=> <<Cmd[c].reaction, Cmd[c].source>> \in dedup)
    OBVIOUS
  <1> HIDE DEF b
  <1>5. read'[c].exists = b
    BY <1>3
  <1>6. \A v \in Workers : items'[v] = {} /\ pc'[v] \notin {"enqueue", "replayInvoke"}
    BY <1>1, <1>3, OthersIdle
  <1> QED
    BY <1>1, <1>3, <1>4, <1>5, <1>6, OthersIdle DEF EffectsOK, Pair

LEMMA ReplayDedupEffects ==
  ASSUME TypeInv, SerialInv, NEW c \in Calls, Frame(c), Alone(c), ReplayDedup(c)
  PROVE  EffectsOK'
  <1> SUFFICES ASSUME NoBypass PROVE EffectsOK'
    BY DEF EffectsOK, NoBypass
  <1> DEFINE rs == <<Cmd[c].reaction, Cmd[c].source>>
  <1>1. c \in Workers /\ UNCHANGED <<delivered, queue, items>> /\ pc[c] = "replayDedup" /\ dedup' = dedup \cup {rs}
    BY DEF ReplayDedup, store, Workers
  <1>2. pc'[c] = "tail" \/ (pc'[c] = "replayInvoke" /\ ~ read[c].exists)
    <2> DEFINE l == IF read[c].exists THEN "tail" ELSE "replayInvoke"
    <2>1. pc' = [pc EXCEPT ![c] = l]
      BY DEF ReplayDedup, Goto
    <2>2. l = "tail" \/ (l = "replayInvoke" /\ ~ read[c].exists)
      <3> DEFINE b == read[c].exists
      <3>1. b \in BOOLEAN
        BY <1>1 DEF TypeInv, WorkOK, CallWork
      <3>2. l = IF b THEN "tail" ELSE "replayInvoke"
        OBVIOUS
      <3> HIDE DEF b, l
      <3>3. l = "tail" \/ (l = "replayInvoke" /\ ~ b)
        <4>1. CASE b = TRUE
          BY <3>2, <4>1
        <4>2. CASE b = FALSE
          BY <3>2, <4>2
        <4> QED
          BY <3>1, <4>1, <4>2
      <3> QED
        BY <3>3, Zenon DEF b
    <2> HIDE DEF l
    <2>3. pc'[c] = l
      BY <1>1, <2>1, OthersIdle
    <2> QED
      BY <2>2, <2>3
  <1>3. ~ read[c].exists => rs \notin dedup
    BY <1>1 DEF SerialInv, EffectsOK
  <1>4. \A v \in Workers : items'[v] = {} /\ pc'[v] \notin {"enqueue", "replayDedup"} /\ (pc'[v] = "replayInvoke" => v = c)
    BY <1>1, <1>2, OthersIdle
  <1> HIDE DEF rs
  <1>5. pc'[c] = "replayInvoke" => rs \in dedup' /\ rs \notin DOMAIN delivered' /\ \A i \in DOMAIN queue : Pair(i) # rs
    BY <1>1, <1>2, <1>3, OthersIdle
  <1> QED
    BY <1>1, <1>4, <1>5, OthersIdle DEF EffectsOK, Pair, rs

LEMMA SideEffectOf ==
  ASSUME NEW rs, SideEffect(rs)
  PROVE  /\ DOMAIN delivered' = DOMAIN delivered \cup {rs}
         /\ \A x \in DOMAIN delivered : x # rs /\ delivered[x] = 1 => delivered'[x] = 1
         /\ rs \notin DOMAIN delivered => delivered'[rs] = 1
  BY DEF SideEffect

LEMMA ReplayInvokeEffects ==
  ASSUME TypeInv, SerialInv, NEW c \in Calls, Frame(c), Alone(c), ReplayInvoke(c)
  PROVE  EffectsOK'
  <1> SUFFICES ASSUME NoBypass PROVE EffectsOK'
    BY DEF EffectsOK, NoBypass
  <1> DEFINE rs == <<Cmd[c].reaction, Cmd[c].source>>
  <1>1. c \in Workers /\ UNCHANGED <<dedup, queue, items>> /\ pc[c] = "replayInvoke" /\ SideEffect(rs)
    BY DEF ReplayInvoke, store, Workers
  <1>2. pc'[c] = "tail"
    BY <1>1, OthersIdle DEF ReplayInvoke, Goto
  <1>3. rs \in dedup /\ rs \notin DOMAIN delivered /\ \A i \in DOMAIN queue : Pair(i) # rs
    BY <1>1 DEF SerialInv, EffectsOK
  <1>4. \A v \in Workers : items'[v] = {} /\ pc'[v] \notin {"enqueue", "replayDedup", "replayInvoke"}
    BY <1>1, <1>2, OthersIdle
  <1> HIDE DEF rs
  <1>5. DOMAIN delivered' = DOMAIN delivered \cup {rs} /\ \A x \in DOMAIN delivered' : delivered'[x] = 1 /\ x \in dedup
    <2>1. DOMAIN delivered' = DOMAIN delivered \cup {rs} /\ delivered'[rs] = 1
          /\ \A x \in DOMAIN delivered : x # rs /\ delivered[x] = 1 => delivered'[x] = 1
      BY <1>1, <1>3, SideEffectOf
    <2>2. \A x \in DOMAIN delivered : delivered[x] = 1 /\ x \in dedup
      BY <1>1, OthersIdle
    <2>3. \A x \in DOMAIN delivered : x # rs => delivered'[x] = 1 /\ x \in dedup
      BY <2>1, <2>2
    <2> QED
      BY <1>1, <1>3, <2>1, <2>3
  <1> QED
    BY <1>1, <1>3, <1>4, <1>5, OthersIdle DEF EffectsOK, Pair

LEMMA DedupReadEffects ==
  ASSUME TypeInv, SerialInv, NEW w \in Workers, NEW r \in Reactions, Frame(w), Alone(w), DedupRead(w, r)
  PROVE  EffectsOK'
  <1> SUFFICES ASSUME NoBypass PROVE EffectsOK'
    BY DEF EffectsOK, NoBypass
  <1> DEFINE b == <<r, Min(left[w])>> \in dedup
  <1>1. UNCHANGED <<delivered, dedup, queue, items, left>> /\ pc[w] = "reactions"
    BY DEF DedupRead, store
  <1>2. pc'[w] = "enqueue" /\ read'[w] = [reaction |-> r, exists |-> b]
    BY <1>1, OthersIdle DEF DedupRead, Goto
  <1>3. b \in BOOLEAN /\ (b <=> <<r, Min(left[w])>> \in dedup)
    OBVIOUS
  <1> HIDE DEF b
  <1>4. read'[w].exists = b /\ read'[w].reaction = r
    BY <1>2
  <1>5. \A v \in Workers : items'[v] = {} /\ pc'[v] \notin {"replayDedup", "replayInvoke"} /\ (pc'[v] = "enqueue" => v = w)
    BY <1>1, <1>2, OthersIdle
  <1> QED
    BY <1>1, <1>3, <1>4, <1>5, OthersIdle DEF EffectsOK, Pair

LEMMA EnqueueReactionEffects ==
  ASSUME TypeInv, SerialInv, NEW w \in Workers, Frame(w), Alone(w), EnqueueReaction(w)
  PROVE  EffectsOK'
  <1> SUFFICES ASSUME NoBypass PROVE EffectsOK'
    BY DEF EffectsOK, NoBypass
  <1> DEFINE rs == <<read[w].reaction, Min(left[w])>>
             e == [reaction |-> read[w].reaction, seq |-> Min(left[w]), status |-> "pending"]
  <1>1. UNCHANGED <<delivered, items>> /\ pc[w] = "enqueue"
    BY DEF EnqueueReaction
  <1>2. pc'[w] = "reactions"
    BY OthersIdle DEF EnqueueReaction, Goto
  <1>3. \A v \in Workers : items'[v] = {} /\ pc'[v] \notin {"enqueue", "replayDedup", "replayInvoke"}
    BY <1>1, <1>2, OthersIdle
  <1>4. CASE read[w].exists
    BY <1>1, <1>3, <1>4, OthersIdle DEF EffectsOK, Pair, EnqueueReaction
  <1>5. CASE ~ read[w].exists
    <2>1. dedup' = dedup \cup {rs} /\ queue' = Append(queue, e) /\ rs \notin dedup
      BY <1>1, <1>5 DEF EnqueueReaction, SerialInv, EffectsOK
    <2>2. e.status = "pending" /\ <<e.reaction, e.seq>> = rs
      OBVIOUS
    <2> HIDE DEF e, rs
    <2>3. /\ DOMAIN queue = 1 .. Len(queue) /\ Len(queue) \in Nat /\ DOMAIN queue' = 1 .. (Len(queue) + 1)
          /\ queue'[Len(queue) + 1] = e /\ \A i \in 1 .. Len(queue) : queue'[i] = queue[i]
      BY <2>1 DEF TypeInv, TypeOK
    <2>4. ASSUME NEW i \in DOMAIN queue' PROVE (i \in DOMAIN queue /\ queue'[i] = queue[i]) \/ (i = Len(queue) + 1 /\ queue'[i] = e)
      BY <2>3
    <2>5. ASSUME NEW i \in DOMAIN queue'
          PROVE  Pair(i)' \in dedup' /\ (queue'[i].status = "pending" => Pair(i)' \notin DOMAIN delivered)
      BY <2>1, <2>2, <2>4, OthersIdle DEF Pair
    <2>6. ASSUME NEW i \in DOMAIN queue', NEW j \in DOMAIN queue', Pair(i)' = Pair(j)' PROVE i = j
      BY <2>1, <2>2, <2>4, <2>6, OthersIdle DEF Pair
    <2>7. \A x \in DOMAIN delivered' : delivered'[x] = 1 /\ x \in dedup'
      BY <1>1, <2>1, OthersIdle
    <2> QED
      BY <1>1, <1>3, <2>5, <2>6, <2>7, OthersIdle DEF EffectsOK
  <1> QED
    BY <1>4, <1>5

LEMMA StatusOf ==
  ASSUME NEW is, NEW st, queue' = SetStatus(is, st)
  PROVE  /\ DOMAIN queue' = DOMAIN queue
         /\ \A i \in DOMAIN queue : /\ Pair(i)' = Pair(i)
                                    /\ i \in is => queue'[i].status = st
                                    /\ i \notin is => queue'[i] = queue[i]
  BY DEF SetStatus, Pair

LEMMA ClaimReactionBatchEffects ==
  ASSUME TypeInv, SerialInv, NEW w \in Workers, Frame(w), Alone(w), ClaimReactionBatch(w)
  PROVE  EffectsOK'
  <1> SUFFICES ASSUME NoBypass PROVE EffectsOK'
    BY DEF EffectsOK, NoBypass
  <1> DEFINE is == {i \in DOMAIN queue : Pending(i)}
  <1>1. UNCHANGED <<delivered, dedup>> /\ queue' = SetStatus(is, "processing") /\ items' = [items EXCEPT ![w] = is]
    BY DEF ClaimReactionBatch
  <1>2. pc'[w] = "invoke"
    BY OthersIdle DEF ClaimReactionBatch, Goto
  <1>3. \A i \in DOMAIN queue : i \in is <=> queue[i].status = "pending"
    BY DEF Pending
  <1>4. is \subseteq DOMAIN queue
    OBVIOUS
  <1> HIDE DEF is
  <1>5. items'[w] = is
    BY <1>1, OthersIdle
  <1>6. \A v \in Workers : pc'[v] \notin {"enqueue", "replayDedup", "replayInvoke"} /\ (v # w => items'[v] = {})
    BY <1>2, OthersIdle
  <1>7. DOMAIN queue' = DOMAIN queue /\ \A i \in DOMAIN queue :
           Pair(i)' = Pair(i) /\ (i \in is => queue'[i].status = "processing") /\ (i \notin is => queue'[i] = queue[i])
    BY <1>1, StatusOf
  <1>8. \A i \in DOMAIN queue' : /\ Pair(i)' \in dedup'
                                 /\ queue'[i].status = "pending" => Pair(i)' \notin DOMAIN delivered'
    BY <1>1, <1>3, <1>7, OthersIdle
  <1>9. \A i, j \in DOMAIN queue' : Pair(i)' = Pair(j)' => i = j
    BY <1>7, OthersIdle
  <1>10. \A i \in items'[w] : queue'[i].status = "processing" /\ Pair(i)' \notin DOMAIN delivered'
    BY <1>1, <1>3, <1>4, <1>5, <1>7, OthersIdle
  <1> QED
    BY <1>1, <1>2, <1>6, <1>8, <1>9, <1>10, OthersIdle DEF EffectsOK

LEMMA InvokeActionEffects ==
  ASSUME TypeInv, SerialInv, NEW w \in Workers, Frame(w), Alone(w), InvokeAction(w)
  PROVE  EffectsOK'
  <1> SUFFICES ASSUME NoBypass PROVE EffectsOK'
    BY DEF EffectsOK, NoBypass
  <1> DEFINE m == Min(items[w])
             rs == Pair(m)
  <1>1. UNCHANGED <<dedup, queue, items>> /\ pc[w] = "invoke" /\ items[w] # {} /\ SideEffect(rs)
    BY DEF InvokeAction, store, Pair
  <1>2. pc'[w] = "complete"
    BY OthersIdle DEF InvokeAction, Goto
  <1>3. m \in items[w] /\ items[w] \subseteq DOMAIN queue
    <2>1. items[w] \subseteq DOMAIN queue /\ DOMAIN queue \subseteq Nat
      BY OthersIdle DEF TypeInv, TypeOK
    <2> QED
      BY <1>1, <2>1, MinIn
  <1>4. rs \in dedup /\ rs \notin DOMAIN delivered
    BY <1>1, <1>3, OthersIdle
  <1> HIDE DEF m
  <1>5. \A i \in DOMAIN queue : Pair(i) = rs => i = m
    BY <1>3, OthersIdle
  <1> HIDE DEF rs
  <1>6. DOMAIN delivered' = DOMAIN delivered \cup {rs} /\ \A x \in DOMAIN delivered' : delivered'[x] = 1 /\ x \in dedup
    <2>1. DOMAIN delivered' = DOMAIN delivered \cup {rs} /\ delivered'[rs] = 1
          /\ \A x \in DOMAIN delivered : x # rs /\ delivered[x] = 1 => delivered'[x] = 1
      BY <1>1, <1>4, SideEffectOf
    <2>2. \A x \in DOMAIN delivered : x # rs => delivered'[x] = 1 /\ x \in dedup
      BY <2>1, OthersIdle
    <2> QED
      BY <1>1, <1>4, <2>1, <2>2
  <1>7. \A v \in Workers : pc'[v] \notin {"enqueue", "replayDedup", "replayInvoke"} /\ (v # w => items'[v] = {})
    BY <1>2, OthersIdle
  <1>8. \A i \in DOMAIN queue : queue[i].status = "pending" => Pair(i) \notin DOMAIN delivered'
    BY <1>3, <1>5, <1>6, OthersIdle
  <1>9. \A i \in items[w] : Pair(i) \in DOMAIN delivered' => i = m
    BY <1>1, <1>3, <1>5, <1>6, OthersIdle
  <1> QED
    BY <1>1, <1>2, <1>6, <1>7, <1>8, <1>9, OthersIdle DEF EffectsOK, Pair, m

LEMMA CompleteReactionEffects ==
  ASSUME TypeInv, SerialInv, NEW w \in Workers, Frame(w), Alone(w), CompleteReaction(w)
  PROVE  EffectsOK'
  <1> SUFFICES ASSUME NoBypass PROVE EffectsOK'
    BY DEF EffectsOK, NoBypass
  <1> DEFINE m == Min(items[w])
  <1>1. UNCHANGED <<delivered, dedup>> /\ pc[w] = "complete" /\ queue' = SetStatus({m}, "done")
        /\ items' = [items EXCEPT ![w] = items[w] \ {m}]
    BY DEF CompleteReaction
  <1>2. pc'[w] = "invoke"
    BY OthersIdle DEF CompleteReaction, Goto
  <1>3. \A i \in items[w] : i # m => Pair(i) \notin DOMAIN delivered
    BY OthersIdle
  <1> HIDE DEF m
  <1>4. items'[w] = items[w] \ {m} /\ items[w] \subseteq DOMAIN queue
    BY <1>1, OthersIdle
  <1>5. \A v \in Workers : pc'[v] \notin {"enqueue", "replayDedup", "replayInvoke"} /\ (v # w => items'[v] = {})
    BY <1>2, OthersIdle
  <1>6. DOMAIN queue' = DOMAIN queue /\ \A i \in DOMAIN queue :
           Pair(i)' = Pair(i) /\ (i = m => queue'[i].status = "done") /\ (i # m => queue'[i] = queue[i])
    BY <1>1, StatusOf
  <1>7. \A i \in DOMAIN queue' : /\ Pair(i)' \in dedup'
                                 /\ queue'[i].status = "pending" => Pair(i)' \notin DOMAIN delivered'
    <2> SUFFICES ASSUME NEW i \in DOMAIN queue
                 PROVE  Pair(i) \in dedup /\ (queue'[i].status = "pending" => Pair(i) \notin DOMAIN delivered)
      BY <1>1, <1>6
    <2>1. CASE i = m
      BY <1>6, <2>1, OthersIdle
    <2>2. CASE i # m
      BY <1>6, <2>2, OthersIdle
    <2> QED
      BY <2>1, <2>2
  <1>8. \A i, j \in DOMAIN queue' : Pair(i)' = Pair(j)' => i = j
    BY <1>6, OthersIdle
  <1>9. \A i \in items'[w] : queue'[i].status = "processing" /\ Pair(i)' \notin DOMAIN delivered'
    <2> SUFFICES ASSUME NEW i \in items[w], i # m
                 PROVE  queue'[i].status = "processing" /\ Pair(i)' \notin DOMAIN delivered'
      BY <1>4
    <2>1. i \in DOMAIN queue /\ Pair(i) \notin DOMAIN delivered /\ queue[i].status = "processing"
      BY <1>3, <1>4, OthersIdle
    <2> QED
      BY <1>1, <1>6, <2>1
  <1> QED
    BY <1>1, <1>2, <1>5, <1>7, <1>8, <1>9, OthersIdle DEF EffectsOK

-----------------------------------------------------------------------------
(* The steps of the one worker that runs. *)

LEMMA BeginSerial ==
  ASSUME TypeInv, SerialInv, NEW c \in Calls, Frame(c), Alone(c), Begin(c)
  PROVE  SerialInv'
  <1>1. c \in Workers /\ pc \in [Workers -> Labels] /\ items \in [Workers -> SUBSET DOMAIN queue]
    BY DEF TypeInv, LocalTypes, Workers
  <1>2. ProjOK'
    <2>1. UNCHANGED <<proj, applied>> /\ pc'[c] \notin {"projLoad", "projFlush"}
      BY <1>1 DEF Begin, store, Goto, Leave, Commits, NextEntry
    <2> QED
      BY <1>1, <2>1, ProjQuiet
  <1>3. EffectsOK'
    <2>1. UNCHANGED <<delivered, dedup, queue>> /\ pc'[c] \notin {"enqueue", "replayDedup", "replayInvoke"}
          /\ items'[c] = items[c] /\ pc[c] \notin {"invoke", "complete"}
      BY <1>1 DEF Begin, store, Goto, Leave, Commits, NextEntry
    <2> QED
      BY <1>1, <2>1, EffectsQuiet
  <1>4. WakeOK'
    <2>1. UNCHANGED <<waits, deferred>> /\ pc'[c] \notin {"update", "defer", "deferAgain"}
          /\ (pc'[c] = "await" => Blocks(c))
      BY <1>1 DEF Begin, store, Goto, Leave, Commits, NextEntry
    <2> QED
      BY <1>1, <2>1, WakeQuiet
  <1> QED
    BY <1>1, <1>2, <1>3, <1>4, SerialKept DEF SerialInv

LEMMA RegisterBlockWaitSerial ==
  ASSUME TypeInv, SerialInv, NEW c \in Calls, Frame(c), Alone(c), RegisterBlockWait(c)
  PROVE  SerialInv'
  <1>1. c \in Workers /\ pc \in [Workers -> Labels] /\ items \in [Workers -> SUBSET DOMAIN queue]
    BY DEF TypeInv, LocalTypes, Workers
  <1>2. ProjOK'
    <2>1. UNCHANGED <<proj, applied>> /\ pc'[c] \notin {"projLoad", "projFlush"}
      BY <1>1 DEF RegisterBlockWait, store, Goto, Leave, Commits, NextEntry
    <2> QED
      BY <1>1, <2>1, ProjQuiet
  <1>3. EffectsOK'
    <2>1. UNCHANGED <<delivered, dedup, queue>> /\ pc'[c] \notin {"enqueue", "replayDedup", "replayInvoke"}
          /\ items'[c] = items[c] /\ pc[c] \notin {"invoke", "complete"}
      BY <1>1 DEF RegisterBlockWait, store, Goto, Leave, Commits, NextEntry
    <2> QED
      BY <1>1, <2>1, EffectsQuiet
  <1>4. WakeOK'
    BY RegisterBlockWaitWake
  <1> QED
    BY <1>1, <1>2, <1>3, <1>4, SerialKept DEF SerialInv

LEMMA RegisterDeferredSerial ==
  ASSUME TypeInv, SerialInv, NEW c \in Calls, Frame(c), Alone(c), RegisterDeferred(c)
  PROVE  SerialInv'
  <1>1. c \in Workers /\ pc \in [Workers -> Labels] /\ items \in [Workers -> SUBSET DOMAIN queue]
    BY DEF TypeInv, LocalTypes, Workers
  <1>2. ProjOK'
    <2>1. UNCHANGED <<proj, applied>> /\ pc'[c] \notin {"projLoad", "projFlush"}
      BY <1>1 DEF RegisterDeferred, store, Goto, Leave, Commits, NextEntry
    <2> QED
      BY <1>1, <2>1, ProjQuiet
  <1>3. EffectsOK'
    <2>1. UNCHANGED <<delivered, dedup, queue>> /\ pc'[c] \notin {"enqueue", "replayDedup", "replayInvoke"}
          /\ items'[c] = items[c] /\ pc[c] \notin {"invoke", "complete"}
      BY <1>1 DEF RegisterDeferred, store, Goto, Leave, Commits, NextEntry
    <2> QED
      BY <1>1, <2>1, EffectsQuiet
  <1>4. WakeOK'
    BY RegisterDeferredWake
  <1> QED
    BY <1>1, <1>2, <1>3, <1>4, SerialKept DEF SerialInv

LEMMA ReadMaxSeqSerial ==
  ASSUME TypeInv, SerialInv, NEW c \in Calls, Frame(c), Alone(c), ReadMaxSeq(c)
  PROVE  SerialInv'
  <1>1. c \in Workers /\ pc \in [Workers -> Labels] /\ items \in [Workers -> SUBSET DOMAIN queue]
    BY DEF TypeInv, LocalTypes, Workers
  <1>2. ProjOK'
    <2>1. UNCHANGED <<proj, applied>> /\ pc'[c] \notin {"projLoad", "projFlush"}
      BY <1>1 DEF ReadMaxSeq, store, Goto, Leave, Commits, NextEntry
    <2> QED
      BY <1>1, <2>1, ProjQuiet
  <1>3. EffectsOK'
    <2>1. UNCHANGED <<delivered, dedup, queue>> /\ pc'[c] \notin {"enqueue", "replayDedup", "replayInvoke"}
          /\ items'[c] = items[c] /\ pc[c] \notin {"invoke", "complete"}
      BY <1>1 DEF ReadMaxSeq, store, Goto, Leave, Commits, NextEntry
    <2> QED
      BY <1>1, <2>1, EffectsQuiet
  <1>4. WakeOK'
    <2>1. UNCHANGED <<waits, deferred>> /\ pc'[c] \notin {"update", "defer", "deferAgain"}
          /\ (pc'[c] = "await" => Blocks(c))
      BY <1>1 DEF ReadMaxSeq, store, Goto, Leave, Commits, NextEntry
    <2> QED
      BY <1>1, <2>1, WakeQuiet
  <1> QED
    BY <1>1, <1>2, <1>3, <1>4, SerialKept DEF SerialInv

LEMMA LoadSerial ==
  ASSUME TypeInv, SerialInv, NEW c \in Calls, Frame(c), Alone(c), Load(c)
  PROVE  SerialInv'
  <1>1. c \in Workers /\ pc \in [Workers -> Labels] /\ items \in [Workers -> SUBSET DOMAIN queue]
    BY DEF TypeInv, LocalTypes, Workers
  <1>2. ProjOK'
    <2>1. UNCHANGED <<proj, applied>> /\ pc'[c] \notin {"projLoad", "projFlush"}
      BY <1>1 DEF Load, store, Goto, Leave, Commits, NextEntry
    <2> QED
      BY <1>1, <2>1, ProjQuiet
  <1>3. EffectsOK'
    <2>1. UNCHANGED <<delivered, dedup, queue>> /\ pc'[c] \notin {"enqueue", "replayDedup", "replayInvoke"}
          /\ items'[c] = items[c] /\ pc[c] \notin {"invoke", "complete"}
      BY <1>1 DEF Load, store, Goto, Leave, Commits, NextEntry
    <2> QED
      BY <1>1, <2>1, EffectsQuiet
  <1>4. WakeOK'
    <2>1. UNCHANGED <<waits, deferred>> /\ pc'[c] \notin {"update", "defer", "deferAgain"}
          /\ (pc'[c] = "await" => Blocks(c))
      BY <1>1 DEF Load, store, Goto, Leave, Commits, NextEntry
    <2> QED
      BY <1>1, <2>1, WakeQuiet
  <1> QED
    BY <1>1, <1>2, <1>3, <1>4, SerialKept DEF SerialInv

LEMMA DisableReactionSerial ==
  ASSUME TypeInv, SerialInv, NEW c \in Calls, Frame(c), Alone(c), DisableReaction(c)
  PROVE  SerialInv'
  <1>1. c \in Workers /\ pc \in [Workers -> Labels] /\ items \in [Workers -> SUBSET DOMAIN queue]
    BY DEF TypeInv, LocalTypes, Workers
  <1>2. ProjOK'
    <2>1. UNCHANGED <<proj, applied>> /\ pc'[c] \notin {"projLoad", "projFlush"}
      BY <1>1 DEF DisableReaction, store, Goto, Leave, Commits, NextEntry
    <2> QED
      BY <1>1, <2>1, ProjQuiet
  <1>3. EffectsOK'
    <2>1. UNCHANGED <<delivered, dedup, queue>> /\ pc'[c] \notin {"enqueue", "replayDedup", "replayInvoke"}
          /\ items'[c] = items[c] /\ pc[c] \notin {"invoke", "complete"}
      BY <1>1 DEF DisableReaction, store, Goto, Leave, Commits, NextEntry
    <2> QED
      BY <1>1, <2>1, EffectsQuiet
  <1>4. WakeOK'
    <2>1. UNCHANGED <<waits, deferred>> /\ pc'[c] \notin {"update", "defer", "deferAgain"}
          /\ (pc'[c] = "await" => Blocks(c))
      BY <1>1 DEF DisableReaction, store, Goto, Leave, Commits, NextEntry
    <2> QED
      BY <1>1, <2>1, WakeQuiet
  <1> QED
    BY <1>1, <1>2, <1>3, <1>4, SerialKept DEF SerialInv

LEMMA CommitEntrySerial ==
  ASSUME TypeInv, SerialInv, NEW c \in Calls, Frame(c), Alone(c), CommitEntry(c)
  PROVE  SerialInv'
  <1>1. c \in Workers /\ pc \in [Workers -> Labels] /\ items \in [Workers -> SUBSET DOMAIN queue]
    BY DEF TypeInv, LocalTypes, Workers
  <1>2. ProjOK'
    <2>1. UNCHANGED <<proj, applied>> /\ pc'[c] \notin {"projLoad", "projFlush"}
      BY <1>1 DEF CommitEntry, store, Goto, Leave, Commits, NextEntry
    <2> QED
      BY <1>1, <2>1, ProjQuiet
  <1>3. EffectsOK'
    <2>1. UNCHANGED <<delivered, dedup, queue>> /\ pc'[c] \notin {"enqueue", "replayDedup", "replayInvoke"}
          /\ items'[c] = items[c] /\ pc[c] \notin {"invoke", "complete"}
      BY <1>1 DEF CommitEntry, store, Goto, Leave, Commits, NextEntry
    <2> QED
      BY <1>1, <2>1, EffectsQuiet
  <1>4. WakeOK'
    <2>1. UNCHANGED <<waits, deferred>> /\ pc'[c] \notin {"update", "defer", "deferAgain"}
          /\ (pc'[c] = "await" => Blocks(c))
      BY <1>1 DEF CommitEntry, store, Goto, Leave, Commits, NextEntry
    <2> QED
      BY <1>1, <2>1, WakeQuiet
  <1> QED
    BY <1>1, <1>2, <1>3, <1>4, SerialKept DEF SerialInv

LEMMA CommitThrowsSerial ==
  ASSUME TypeInv, SerialInv, NEW c \in Calls, Frame(c), Alone(c), CommitThrows(c)
  PROVE  SerialInv'
  <1>1. c \in Workers /\ pc \in [Workers -> Labels] /\ items \in [Workers -> SUBSET DOMAIN queue]
    BY DEF TypeInv, LocalTypes, Workers
  <1>2. ProjOK'
    <2>1. UNCHANGED <<proj, applied>> /\ pc'[c] \notin {"projLoad", "projFlush"}
      BY <1>1 DEF CommitThrows, store, Goto, Leave, Commits, NextEntry
    <2> QED
      BY <1>1, <2>1, ProjQuiet
  <1>3. EffectsOK'
    <2>1. pc'[c] = "thrown"
      BY <1>1 DEF CommitThrows, Leave, Goto
    <2>2. items'[c] = {} /\ UNCHANGED <<delivered, dedup, queue>>
      BY <1>1 DEF CommitThrows, Leave, store
    <2>3. pc'[c] \notin {"enqueue", "replayDedup", "replayInvoke"}
      BY <2>1
    <2> QED
      BY <1>1, <2>2, <2>3, EffectsEmptied
  <1>4. WakeOK'
    <2>1. UNCHANGED <<waits, deferred>> /\ pc'[c] \notin {"update", "defer", "deferAgain"}
          /\ (pc'[c] = "await" => Blocks(c))
      BY <1>1 DEF CommitThrows, store, Goto, Leave, Commits, NextEntry
    <2> QED
      BY <1>1, <2>1, WakeQuiet
  <1> QED
    BY <1>1, <1>2, <1>3, <1>4, SerialKept DEF SerialInv

LEMMA CommitWaitRegisterSerial ==
  ASSUME TypeInv, SerialInv, NEW c \in Calls, Frame(c), Alone(c), CommitWaitRegister(c)
  PROVE  SerialInv'
  <1>1. c \in Workers /\ pc \in [Workers -> Labels] /\ items \in [Workers -> SUBSET DOMAIN queue]
    BY DEF TypeInv, LocalTypes, Workers
  <1>2. ProjOK'
    <2>1. UNCHANGED <<proj, applied>> /\ pc'[c] \notin {"projLoad", "projFlush"}
      BY <1>1 DEF CommitWaitRegister, store, Goto, Leave, Commits, NextEntry
    <2> QED
      BY <1>1, <2>1, ProjQuiet
  <1>3. EffectsOK'
    <2>1. UNCHANGED <<delivered, dedup, queue>> /\ pc'[c] \notin {"enqueue", "replayDedup", "replayInvoke"}
          /\ items'[c] = items[c] /\ pc[c] \notin {"invoke", "complete"}
      BY <1>1 DEF CommitWaitRegister, store, Goto, Leave, Commits, NextEntry
    <2> QED
      BY <1>1, <2>1, EffectsQuiet
  <1>4. WakeOK'
    BY CommitWaitRegisterWake
  <1> QED
    BY <1>1, <1>2, <1>3, <1>4, SerialKept DEF SerialInv

LEMMA CommitWaitCancelSerial ==
  ASSUME TypeInv, SerialInv, NEW c \in Calls, Frame(c), Alone(c), CommitWaitCancel(c)
  PROVE  SerialInv'
  <1>1. c \in Workers /\ pc \in [Workers -> Labels] /\ items \in [Workers -> SUBSET DOMAIN queue]
    BY DEF TypeInv, LocalTypes, Workers
  <1>2. ProjOK'
    <2>1. UNCHANGED <<proj, applied>> /\ pc'[c] \notin {"projLoad", "projFlush"}
      BY <1>1 DEF CommitWaitCancel, store, Goto, Leave, Commits, NextEntry
    <2> QED
      BY <1>1, <2>1, ProjQuiet
  <1>3. EffectsOK'
    <2>1. UNCHANGED <<delivered, dedup, queue>> /\ pc'[c] \notin {"enqueue", "replayDedup", "replayInvoke"}
          /\ items'[c] = items[c] /\ pc[c] \notin {"invoke", "complete"}
      BY <1>1 DEF CommitWaitCancel, store, Goto, Leave, Commits, NextEntry
    <2> QED
      BY <1>1, <2>1, EffectsQuiet
  <1>4. WakeOK'
    BY CommitWaitCancelWake
  <1> QED
    BY <1>1, <1>2, <1>3, <1>4, SerialKept DEF SerialInv

LEMMA CommitReactionRegisterSerial ==
  ASSUME TypeInv, SerialInv, NEW c \in Calls, Frame(c), Alone(c), CommitReactionRegister(c)
  PROVE  SerialInv'
  <1>1. c \in Workers /\ pc \in [Workers -> Labels] /\ items \in [Workers -> SUBSET DOMAIN queue]
    BY DEF TypeInv, LocalTypes, Workers
  <1>2. ProjOK'
    <2>1. UNCHANGED <<proj, applied>> /\ pc'[c] \notin {"projLoad", "projFlush"}
      BY <1>1 DEF CommitReactionRegister, store, Goto, Leave, Commits, NextEntry
    <2> QED
      BY <1>1, <2>1, ProjQuiet
  <1>3. EffectsOK'
    <2>1. UNCHANGED <<delivered, dedup, queue>> /\ pc'[c] \notin {"enqueue", "replayDedup", "replayInvoke"}
          /\ items'[c] = items[c] /\ pc[c] \notin {"invoke", "complete"}
      BY <1>1 DEF CommitReactionRegister, store, Goto, Leave, Commits, NextEntry
    <2> QED
      BY <1>1, <2>1, EffectsQuiet
  <1>4. WakeOK'
    <2>1. UNCHANGED <<waits, deferred>> /\ pc'[c] \notin {"update", "defer", "deferAgain"}
          /\ (pc'[c] = "await" => Blocks(c))
      BY <1>1 DEF CommitReactionRegister, store, Goto, Leave, Commits, NextEntry
    <2> QED
      BY <1>1, <2>1, WakeQuiet
  <1> QED
    BY <1>1, <1>2, <1>3, <1>4, SerialKept DEF SerialInv

LEMMA CommitReactionDisableSerial ==
  ASSUME TypeInv, SerialInv, NEW c \in Calls, Frame(c), Alone(c), CommitReactionDisable(c)
  PROVE  SerialInv'
  <1>1. c \in Workers /\ pc \in [Workers -> Labels] /\ items \in [Workers -> SUBSET DOMAIN queue]
    BY DEF TypeInv, LocalTypes, Workers
  <1>2. ProjOK'
    <2>1. UNCHANGED <<proj, applied>> /\ pc'[c] \notin {"projLoad", "projFlush"}
      BY <1>1 DEF CommitReactionDisable, store, Goto, Leave, Commits, NextEntry
    <2> QED
      BY <1>1, <2>1, ProjQuiet
  <1>3. EffectsOK'
    <2>1. UNCHANGED <<delivered, dedup, queue>> /\ pc'[c] \notin {"enqueue", "replayDedup", "replayInvoke"}
          /\ items'[c] = items[c] /\ pc[c] \notin {"invoke", "complete"}
      BY <1>1 DEF CommitReactionDisable, store, Goto, Leave, Commits, NextEntry
    <2> QED
      BY <1>1, <2>1, EffectsQuiet
  <1>4. WakeOK'
    <2>1. UNCHANGED <<waits, deferred>> /\ pc'[c] \notin {"update", "defer", "deferAgain"}
          /\ (pc'[c] = "await" => Blocks(c))
      BY <1>1 DEF CommitReactionDisable, store, Goto, Leave, Commits, NextEntry
    <2> QED
      BY <1>1, <2>1, WakeQuiet
  <1> QED
    BY <1>1, <1>2, <1>3, <1>4, SerialKept DEF SerialInv

LEMMA ReplaySerial ==
  ASSUME TypeInv, SerialInv, NEW c \in Calls, Frame(c), Alone(c), Replay(c)
  PROVE  SerialInv'
  <1>1. c \in Workers /\ pc \in [Workers -> Labels] /\ items \in [Workers -> SUBSET DOMAIN queue]
    BY DEF TypeInv, LocalTypes, Workers
  <1>2. ProjOK'
    <2>1. UNCHANGED <<proj, applied>> /\ pc'[c] \notin {"projLoad", "projFlush"}
      BY <1>1 DEF Replay, store, Goto, Leave, Commits, NextEntry
    <2> QED
      BY <1>1, <2>1, ProjQuiet
  <1>3. EffectsOK'
    BY ReplayEffects
  <1>4. WakeOK'
    <2>1. UNCHANGED <<waits, deferred>> /\ pc'[c] \notin {"update", "defer", "deferAgain"}
          /\ (pc'[c] = "await" => Blocks(c))
      BY <1>1 DEF Replay, store, Goto, Leave, Commits, NextEntry
    <2> QED
      BY <1>1, <2>1, WakeQuiet
  <1> QED
    BY <1>1, <1>2, <1>3, <1>4, SerialKept DEF SerialInv

LEMMA ReplayDedupSerial ==
  ASSUME TypeInv, SerialInv, NEW c \in Calls, Frame(c), Alone(c), ReplayDedup(c)
  PROVE  SerialInv'
  <1>1. c \in Workers /\ pc \in [Workers -> Labels] /\ items \in [Workers -> SUBSET DOMAIN queue]
    BY DEF TypeInv, LocalTypes, Workers
  <1>2. ProjOK'
    <2>1. UNCHANGED <<proj, applied>> /\ pc'[c] \notin {"projLoad", "projFlush"}
      BY <1>1 DEF ReplayDedup, store, Goto, Leave, Commits, NextEntry
    <2> QED
      BY <1>1, <2>1, ProjQuiet
  <1>3. EffectsOK'
    BY ReplayDedupEffects
  <1>4. WakeOK'
    <2>1. UNCHANGED <<waits, deferred>> /\ pc'[c] \notin {"update", "defer", "deferAgain"}
          /\ (pc'[c] = "await" => Blocks(c))
      BY <1>1 DEF ReplayDedup, store, Goto, Leave, Commits, NextEntry
    <2> QED
      BY <1>1, <2>1, WakeQuiet
  <1> QED
    BY <1>1, <1>2, <1>3, <1>4, SerialKept DEF SerialInv

LEMMA ReplayInvokeSerial ==
  ASSUME TypeInv, SerialInv, NEW c \in Calls, Frame(c), Alone(c), ReplayInvoke(c)
  PROVE  SerialInv'
  <1>1. c \in Workers /\ pc \in [Workers -> Labels] /\ items \in [Workers -> SUBSET DOMAIN queue]
    BY DEF TypeInv, LocalTypes, Workers
  <1>2. ProjOK'
    <2>1. UNCHANGED <<proj, applied>> /\ pc'[c] \notin {"projLoad", "projFlush"}
      BY <1>1 DEF ReplayInvoke, store, Goto, Leave, Commits, NextEntry
    <2> QED
      BY <1>1, <2>1, ProjQuiet
  <1>3. EffectsOK'
    BY ReplayInvokeEffects
  <1>4. WakeOK'
    <2>1. UNCHANGED <<waits, deferred>> /\ pc'[c] \notin {"update", "defer", "deferAgain"}
          /\ (pc'[c] = "await" => Blocks(c))
      BY <1>1 DEF ReplayInvoke, store, Goto, Leave, Commits, NextEntry
    <2> QED
      BY <1>1, <2>1, WakeQuiet
  <1> QED
    BY <1>1, <1>2, <1>3, <1>4, SerialKept DEF SerialInv

LEMMA TailJournalSerial ==
  ASSUME TypeInv, SerialInv, NEW c \in Calls, Frame(c), Alone(c), TailJournal(c)
  PROVE  SerialInv'
  <1>1. c \in Workers /\ pc \in [Workers -> Labels] /\ items \in [Workers -> SUBSET DOMAIN queue]
    BY DEF TypeInv, LocalTypes, Workers
  <1>2. ProjOK'
    <2>1. UNCHANGED <<proj, applied>> /\ pc'[c] \notin {"projLoad", "projFlush"}
      BY <1>1 DEF TailJournal, store, Goto, Leave, Commits, NextEntry
    <2> QED
      BY <1>1, <2>1, ProjQuiet
  <1>3. EffectsOK'
    <2>1. UNCHANGED <<delivered, dedup, queue>> /\ pc'[c] \notin {"enqueue", "replayDedup", "replayInvoke"}
          /\ items'[c] = items[c] /\ pc[c] \notin {"invoke", "complete"}
      BY <1>1 DEF TailJournal, store, Goto, Leave, Commits, NextEntry
    <2> QED
      BY <1>1, <2>1, EffectsQuiet
  <1>4. WakeOK'
    <2>1. UNCHANGED <<waits, deferred>> /\ pc'[c] \notin {"update", "defer", "deferAgain"}
          /\ (pc'[c] = "await" => Blocks(c))
      BY <1>1 DEF TailJournal, store, Goto, Leave, Commits, NextEntry
    <2> QED
      BY <1>1, <2>1, WakeQuiet
  <1> QED
    BY <1>1, <1>2, <1>3, <1>4, SerialKept DEF SerialInv

LEMMA AckFanoutSerial ==
  ASSUME TypeInv, SerialInv, NEW c \in Calls, Frame(c), Alone(c), AckFanout(c)
  PROVE  SerialInv'
  <1>1. c \in Workers /\ pc \in [Workers -> Labels] /\ items \in [Workers -> SUBSET DOMAIN queue]
    BY DEF TypeInv, LocalTypes, Workers
  <1>2. ProjOK'
    <2>1. UNCHANGED <<proj, applied>> /\ pc'[c] \notin {"projLoad", "projFlush"}
      BY <1>1 DEF AckFanout, store, Goto, Leave, Commits, NextEntry
    <2> QED
      BY <1>1, <2>1, ProjQuiet
  <1>3. EffectsOK'
    <2>1. UNCHANGED <<delivered, dedup, queue>> /\ pc'[c] \notin {"enqueue", "replayDedup", "replayInvoke"}
          /\ items'[c] = items[c] /\ pc[c] \notin {"invoke", "complete"}
      BY <1>1 DEF AckFanout, store, Goto, Leave, Commits, NextEntry
    <2> QED
      BY <1>1, <2>1, EffectsQuiet
  <1>4. WakeOK'
    <2>1. UNCHANGED <<waits, deferred>> /\ pc'[c] \notin {"update", "defer", "deferAgain"}
          /\ (pc'[c] = "await" => Blocks(c))
      BY <1>1 DEF AckFanout, store, Goto, Leave, Commits, NextEntry
    <2> QED
      BY <1>1, <2>1, WakeQuiet
  <1> QED
    BY <1>1, <1>2, <1>3, <1>4, SerialKept DEF SerialInv

LEMMA FinishSerial ==
  ASSUME TypeInv, SerialInv, NEW c \in Calls, Frame(c), Alone(c), Finish(c)
  PROVE  SerialInv'
  <1>1. c \in Workers /\ pc \in [Workers -> Labels] /\ items \in [Workers -> SUBSET DOMAIN queue]
    BY DEF TypeInv, LocalTypes, Workers
  <1>2. ProjOK'
    <2>1. UNCHANGED <<proj, applied>> /\ pc'[c] \notin {"projLoad", "projFlush"}
      BY <1>1 DEF Finish, store, Goto, Leave, Commits, NextEntry
    <2> QED
      BY <1>1, <2>1, ProjQuiet
  <1>3. EffectsOK'
    <2>1. pc'[c] \in {"await", "done"}
      BY <1>1 DEF Finish, Leave, Goto
    <2>2. items'[c] = {} /\ UNCHANGED <<delivered, dedup, queue>>
      BY <1>1 DEF Finish, Leave, store
    <2>3. pc'[c] \notin {"enqueue", "replayDedup", "replayInvoke"}
      BY <2>1
    <2> QED
      BY <1>1, <2>2, <2>3, EffectsEmptied
  <1>4. WakeOK'
    <2>1. UNCHANGED <<waits, deferred>> /\ pc'[c] \notin {"update", "defer", "deferAgain"}
          /\ (pc'[c] = "await" => Blocks(c))
      BY <1>1 DEF Finish, store, Goto, Leave, Commits, NextEntry
    <2> QED
      BY <1>1, <2>1, WakeQuiet
  <1> QED
    BY <1>1, <1>2, <1>3, <1>4, SerialKept DEF SerialInv

LEMMA InvokeThrowsSerial ==
  ASSUME TypeInv, SerialInv, NEW c \in Calls, Frame(c), Alone(c), InvokeThrows(c)
  PROVE  SerialInv'
  <1>1. c \in Workers /\ pc \in [Workers -> Labels] /\ items \in [Workers -> SUBSET DOMAIN queue]
    BY DEF TypeInv, LocalTypes, Workers
  <1>2. ProjOK'
    <2>1. UNCHANGED <<proj, applied>> /\ pc'[c] \notin {"projLoad", "projFlush"}
      BY <1>1 DEF InvokeThrows, store, Goto, Leave, Commits, NextEntry
    <2> QED
      BY <1>1, <2>1, ProjQuiet
  <1>3. EffectsOK'
    <2>1. pc'[c] = "thrown"
      BY <1>1 DEF InvokeThrows, Leave, Goto
    <2>2. items'[c] = {} /\ UNCHANGED <<delivered, dedup, queue>>
      BY <1>1 DEF InvokeThrows, Leave, store
    <2>3. pc'[c] \notin {"enqueue", "replayDedup", "replayInvoke"}
      BY <2>1
    <2> QED
      BY <1>1, <2>2, <2>3, EffectsEmptied
  <1>4. WakeOK'
    <2>1. UNCHANGED <<waits, deferred>> /\ pc'[c] \notin {"update", "defer", "deferAgain"}
          /\ (pc'[c] = "await" => Blocks(c))
      BY <1>1 DEF InvokeThrows, store, Goto, Leave, Commits, NextEntry
    <2> QED
      BY <1>1, <2>1, WakeQuiet
  <1> QED
    BY <1>1, <1>2, <1>3, <1>4, SerialKept DEF SerialInv

LEMMA DispatchEntrySerial ==
  ASSUME TypeInv, SerialInv, NEW w \in Workers, Frame(w), Alone(w), DispatchEntry(w)
  PROVE  SerialInv'
  <1>1. w \in Workers /\ pc \in [Workers -> Labels] /\ items \in [Workers -> SUBSET DOMAIN queue]
    BY DEF TypeInv, LocalTypes, Workers
  <1>2. ProjOK'
    <2>1. UNCHANGED <<proj, applied>> /\ pc'[w] \notin {"projLoad", "projFlush"}
      BY <1>1 DEF DispatchEntry, store, Goto, Leave, Commits, NextEntry
    <2> QED
      BY <1>1, <2>1, ProjQuiet
  <1>3. EffectsOK'
    <2>1. UNCHANGED <<delivered, dedup, queue>> /\ pc'[w] \notin {"enqueue", "replayDedup", "replayInvoke"}
          /\ items'[w] = items[w] /\ pc[w] \notin {"invoke", "complete"}
      BY <1>1 DEF DispatchEntry, store, Goto, Leave, Commits, NextEntry
    <2> QED
      BY <1>1, <2>1, EffectsQuiet
  <1>4. WakeOK'
    <2>1. UNCHANGED <<waits, deferred>> /\ pc'[w] \notin {"update", "defer", "deferAgain"}
          /\ (pc'[w] = "await" => Blocks(w))
      BY <1>1 DEF DispatchEntry, store, Goto, Leave, Commits, NextEntry
    <2> QED
      BY <1>1, <2>1, WakeQuiet
  <1> QED
    BY <1>1, <1>2, <1>3, <1>4, SerialKept DEF SerialInv

LEMMA UpdateWaitSerial ==
  ASSUME TypeInv, SerialInv, NEW w \in Workers, Frame(w), Alone(w), UpdateWait(w)
  PROVE  SerialInv'
  <1>1. w \in Workers /\ pc \in [Workers -> Labels] /\ items \in [Workers -> SUBSET DOMAIN queue]
    BY DEF TypeInv, LocalTypes, Workers
  <1>2. ProjOK'
    <2>1. UNCHANGED <<proj, applied>> /\ pc'[w] \notin {"projLoad", "projFlush"}
      BY <1>1 DEF UpdateWait, store, Goto, Leave, Commits, NextEntry
    <2> QED
      BY <1>1, <2>1, ProjQuiet
  <1>3. EffectsOK'
    <2>1. UNCHANGED <<delivered, dedup, queue>> /\ pc'[w] \notin {"enqueue", "replayDedup", "replayInvoke"}
          /\ items'[w] = items[w] /\ pc[w] \notin {"invoke", "complete"}
      BY <1>1 DEF UpdateWait, store, Goto, Leave, Commits, NextEntry
    <2> QED
      BY <1>1, <2>1, EffectsQuiet
  <1>4. WakeOK'
    BY UpdateWaitWake
  <1> QED
    BY <1>1, <1>2, <1>3, <1>4, SerialKept DEF SerialInv

LEMMA SkipEntrySerial ==
  ASSUME TypeInv, SerialInv, NEW w \in Workers, Frame(w), Alone(w), SkipEntry(w)
  PROVE  SerialInv'
  <1>1. w \in Workers /\ pc \in [Workers -> Labels] /\ items \in [Workers -> SUBSET DOMAIN queue]
    BY DEF TypeInv, LocalTypes, Workers
  <1>2. ProjOK'
    <2>1. UNCHANGED <<proj, applied>> /\ pc'[w] \notin {"projLoad", "projFlush"}
      BY <1>1 DEF SkipEntry, store, Goto, Leave, Commits, NextEntry
    <2> QED
      BY <1>1, <2>1, ProjQuiet
  <1>3. EffectsOK'
    <2>1. UNCHANGED <<delivered, dedup, queue>> /\ pc'[w] \notin {"enqueue", "replayDedup", "replayInvoke"}
          /\ items'[w] = items[w] /\ pc[w] \notin {"invoke", "complete"}
      BY <1>1 DEF SkipEntry, store, Goto, Leave, Commits, NextEntry
    <2> QED
      BY <1>1, <2>1, EffectsQuiet
  <1>4. WakeOK'
    <2>1. UNCHANGED <<waits, deferred>> /\ pc'[w] \notin {"update", "defer", "deferAgain"}
          /\ (pc'[w] = "await" => Blocks(w))
      BY <1>1 DEF SkipEntry, store, Goto, Leave, Commits, NextEntry
    <2> QED
      BY <1>1, <2>1, WakeQuiet
  <1> QED
    BY <1>1, <1>2, <1>3, <1>4, SerialKept DEF SerialInv

LEMMA ListReactionsSerial ==
  ASSUME TypeInv, SerialInv, NEW w \in Workers, Frame(w), Alone(w), ListReactions(w)
  PROVE  SerialInv'
  <1>1. w \in Workers /\ pc \in [Workers -> Labels] /\ items \in [Workers -> SUBSET DOMAIN queue]
    BY DEF TypeInv, LocalTypes, Workers
  <1>2. ProjOK'
    <2>1. UNCHANGED <<proj, applied>> /\ pc'[w] \notin {"projLoad", "projFlush"}
      BY <1>1 DEF ListReactions, store, Goto, Leave, Commits, NextEntry
    <2> QED
      BY <1>1, <2>1, ProjQuiet
  <1>3. EffectsOK'
    <2>1. UNCHANGED <<delivered, dedup, queue>> /\ pc'[w] \notin {"enqueue", "replayDedup", "replayInvoke"}
          /\ items'[w] = items[w] /\ pc[w] \notin {"invoke", "complete"}
      BY <1>1 DEF ListReactions, store, Goto, Leave, Commits, NextEntry
    <2> QED
      BY <1>1, <2>1, EffectsQuiet
  <1>4. WakeOK'
    <2>1. UNCHANGED <<waits, deferred>> /\ pc'[w] \notin {"update", "defer", "deferAgain"}
          /\ (pc'[w] = "await" => Blocks(w))
      BY <1>1 DEF ListReactions, store, Goto, Leave, Commits, NextEntry
    <2> QED
      BY <1>1, <2>1, WakeQuiet
  <1> QED
    BY <1>1, <1>2, <1>3, <1>4, SerialKept DEF SerialInv

LEMMA NotifyWaitSerial ==
  ASSUME TypeInv, SerialInv, NEW w \in Workers, NEW x \in Calls, Frame(w), Alone(w), NotifyWait(w, x)
  PROVE  SerialInv'
  <1>1. w \in Workers /\ pc \in [Workers -> Labels] /\ items \in [Workers -> SUBSET DOMAIN queue]
    BY DEF TypeInv, LocalTypes, Workers
  <1>2. ProjOK'
    <2>1. UNCHANGED <<proj, applied>> /\ pc'[w] \notin {"projLoad", "projFlush"}
      BY <1>1 DEF NotifyWait, store, Goto, Leave, Commits, NextEntry
    <2> QED
      BY <1>1, <2>1, ProjQuiet
  <1>3. EffectsOK'
    <2>1. UNCHANGED <<delivered, dedup, queue>> /\ pc'[w] \notin {"enqueue", "replayDedup", "replayInvoke"}
          /\ items'[w] = items[w] /\ pc[w] \notin {"invoke", "complete"}
      BY <1>1 DEF NotifyWait, store, Goto, Leave, Commits, NextEntry
    <2> QED
      BY <1>1, <2>1, EffectsQuiet
  <1>4. WakeOK'
    BY NotifyWaitWake
  <1> QED
    BY <1>1, <1>2, <1>3, <1>4, SerialKept DEF SerialInv

LEMMA DedupReadSerial ==
  ASSUME TypeInv, SerialInv, NEW w \in Workers, NEW r \in Reactions, Frame(w), Alone(w), DedupRead(w, r)
  PROVE  SerialInv'
  <1>1. w \in Workers /\ pc \in [Workers -> Labels] /\ items \in [Workers -> SUBSET DOMAIN queue]
    BY DEF TypeInv, LocalTypes, Workers
  <1>2. ProjOK'
    <2>1. UNCHANGED <<proj, applied>> /\ pc'[w] \notin {"projLoad", "projFlush"}
      BY <1>1 DEF DedupRead, store, Goto, Leave, Commits, NextEntry
    <2> QED
      BY <1>1, <2>1, ProjQuiet
  <1>3. EffectsOK'
    BY DedupReadEffects
  <1>4. WakeOK'
    <2>1. UNCHANGED <<waits, deferred>> /\ pc'[w] \notin {"update", "defer", "deferAgain"}
          /\ (pc'[w] = "await" => Blocks(w))
      BY <1>1 DEF DedupRead, store, Goto, Leave, Commits, NextEntry
    <2> QED
      BY <1>1, <2>1, WakeQuiet
  <1> QED
    BY <1>1, <1>2, <1>3, <1>4, SerialKept DEF SerialInv

LEMMA EnqueueReactionSerial ==
  ASSUME TypeInv, SerialInv, NEW w \in Workers, Frame(w), Alone(w), EnqueueReaction(w)
  PROVE  SerialInv'
  <1>1. w \in Workers /\ pc \in [Workers -> Labels] /\ items \in [Workers -> SUBSET DOMAIN queue]
    BY DEF TypeInv, LocalTypes, Workers
  <1>2. ProjOK'
    <2>1. UNCHANGED <<proj, applied>> /\ pc'[w] \notin {"projLoad", "projFlush"}
      BY <1>1 DEF EnqueueReaction, store, Goto, Leave, Commits, NextEntry
    <2> QED
      BY <1>1, <2>1, ProjQuiet
  <1>3. EffectsOK'
    BY EnqueueReactionEffects
  <1>4. WakeOK'
    <2>1. UNCHANGED <<waits, deferred>> /\ pc'[w] \notin {"update", "defer", "deferAgain"}
          /\ (pc'[w] = "await" => Blocks(w))
      BY <1>1 DEF EnqueueReaction, store, Goto, Leave, Commits, NextEntry
    <2> QED
      BY <1>1, <2>1, WakeQuiet
  <1> QED
    BY <1>1, <1>2, <1>3, <1>4, SerialKept DEF SerialInv

LEMMA MarkProjectionSerial ==
  ASSUME TypeInv, SerialInv, NEW w \in Workers, Frame(w), Alone(w), MarkProjection(w)
  PROVE  SerialInv'
  <1>1. w \in Workers /\ pc \in [Workers -> Labels] /\ items \in [Workers -> SUBSET DOMAIN queue]
    BY DEF TypeInv, LocalTypes, Workers
  <1>2. ProjOK'
    BY MarkProjectionProj
  <1>3. EffectsOK'
    <2>1. UNCHANGED <<delivered, dedup, queue>> /\ pc'[w] \notin {"enqueue", "replayDedup", "replayInvoke"}
          /\ items'[w] = items[w] /\ pc[w] \notin {"invoke", "complete"}
      BY <1>1 DEF MarkProjection, store, Goto, Leave, Commits, NextEntry
    <2> QED
      BY <1>1, <2>1, EffectsQuiet
  <1>4. WakeOK'
    <2>1. UNCHANGED <<waits, deferred>> /\ pc'[w] \notin {"update", "defer", "deferAgain"}
          /\ (pc'[w] = "await" => Blocks(w))
      BY <1>1 DEF MarkProjection, store, Goto, Leave, Commits, NextEntry
    <2> QED
      BY <1>1, <2>1, WakeQuiet
  <1> QED
    BY <1>1, <1>2, <1>3, <1>4, SerialKept DEF SerialInv

LEMMA LoadProjectionSerial ==
  ASSUME TypeInv, SerialInv, NEW w \in Workers, Frame(w), Alone(w), LoadProjection(w)
  PROVE  SerialInv'
  <1>1. w \in Workers /\ pc \in [Workers -> Labels] /\ items \in [Workers -> SUBSET DOMAIN queue]
    BY DEF TypeInv, LocalTypes, Workers
  <1>2. ProjOK'
    BY LoadProjectionProj
  <1>3. EffectsOK'
    <2>1. UNCHANGED <<delivered, dedup, queue>> /\ pc'[w] \notin {"enqueue", "replayDedup", "replayInvoke"}
          /\ items'[w] = items[w] /\ pc[w] \notin {"invoke", "complete"}
      BY <1>1 DEF LoadProjection, store, Goto, Leave, Commits, NextEntry
    <2> QED
      BY <1>1, <2>1, EffectsQuiet
  <1>4. WakeOK'
    <2>1. UNCHANGED <<waits, deferred>> /\ pc'[w] \notin {"update", "defer", "deferAgain"}
          /\ (pc'[w] = "await" => Blocks(w))
      BY <1>1 DEF LoadProjection, store, Goto, Leave, Commits, NextEntry
    <2> QED
      BY <1>1, <2>1, WakeQuiet
  <1> QED
    BY <1>1, <1>2, <1>3, <1>4, SerialKept DEF SerialInv

LEMMA FlushProjectionSerial ==
  ASSUME TypeInv, SerialInv, NEW w \in Workers, Frame(w), Alone(w), FlushProjection(w)
  PROVE  SerialInv'
  <1>1. w \in Workers /\ pc \in [Workers -> Labels] /\ items \in [Workers -> SUBSET DOMAIN queue]
    BY DEF TypeInv, LocalTypes, Workers
  <1>2. ProjOK'
    BY FlushProjectionProj
  <1>3. EffectsOK'
    <2>1. UNCHANGED <<delivered, dedup, queue>> /\ pc'[w] \notin {"enqueue", "replayDedup", "replayInvoke"}
          /\ items'[w] = items[w] /\ pc[w] \notin {"invoke", "complete"}
      BY <1>1 DEF FlushProjection, store, Goto, Leave, Commits, NextEntry
    <2> QED
      BY <1>1, <2>1, EffectsQuiet
  <1>4. WakeOK'
    <2>1. UNCHANGED <<waits, deferred>> /\ pc'[w] \notin {"update", "defer", "deferAgain"}
          /\ (pc'[w] = "await" => Blocks(w))
      BY <1>1 DEF FlushProjection, store, Goto, Leave, Commits, NextEntry
    <2> QED
      BY <1>1, <2>1, WakeQuiet
  <1> QED
    BY <1>1, <1>2, <1>3, <1>4, SerialKept DEF SerialInv

LEMMA ClaimReactionBatchSerial ==
  ASSUME TypeInv, SerialInv, NEW w \in Workers, Frame(w), Alone(w), ClaimReactionBatch(w)
  PROVE  SerialInv'
  <1>1. w \in Workers /\ pc \in [Workers -> Labels] /\ items \in [Workers -> SUBSET DOMAIN queue]
    BY DEF TypeInv, LocalTypes, Workers
  <1>2. ProjOK'
    <2>1. UNCHANGED <<proj, applied>> /\ pc'[w] \notin {"projLoad", "projFlush"}
      BY <1>1 DEF ClaimReactionBatch, store, Goto, Leave, Commits, NextEntry
    <2> QED
      BY <1>1, <2>1, ProjQuiet
  <1>3. EffectsOK'
    BY ClaimReactionBatchEffects
  <1>4. WakeOK'
    <2>1. UNCHANGED <<waits, deferred>> /\ pc'[w] \notin {"update", "defer", "deferAgain"}
          /\ (pc'[w] = "await" => Blocks(w))
      BY <1>1 DEF ClaimReactionBatch, store, Goto, Leave, Commits, NextEntry
    <2> QED
      BY <1>1, <2>1, WakeQuiet
  <1> QED
    BY <1>1, <1>2, <1>3, <1>4, SerialKept DEF SerialInv

LEMMA InvokeActionSerial ==
  ASSUME TypeInv, SerialInv, NEW w \in Workers, Frame(w), Alone(w), InvokeAction(w)
  PROVE  SerialInv'
  <1>1. w \in Workers /\ pc \in [Workers -> Labels] /\ items \in [Workers -> SUBSET DOMAIN queue]
    BY DEF TypeInv, LocalTypes, Workers
  <1>2. ProjOK'
    <2>1. UNCHANGED <<proj, applied>> /\ pc'[w] \notin {"projLoad", "projFlush"}
      BY <1>1 DEF InvokeAction, store, Goto, Leave, Commits, NextEntry
    <2> QED
      BY <1>1, <2>1, ProjQuiet
  <1>3. EffectsOK'
    BY InvokeActionEffects
  <1>4. WakeOK'
    <2>1. UNCHANGED <<waits, deferred>> /\ pc'[w] \notin {"update", "defer", "deferAgain"}
          /\ (pc'[w] = "await" => Blocks(w))
      BY <1>1 DEF InvokeAction, store, Goto, Leave, Commits, NextEntry
    <2> QED
      BY <1>1, <2>1, WakeQuiet
  <1> QED
    BY <1>1, <1>2, <1>3, <1>4, SerialKept DEF SerialInv

LEMMA CompleteReactionSerial ==
  ASSUME TypeInv, SerialInv, NEW w \in Workers, Frame(w), Alone(w), CompleteReaction(w)
  PROVE  SerialInv'
  <1>1. w \in Workers /\ pc \in [Workers -> Labels] /\ items \in [Workers -> SUBSET DOMAIN queue]
    BY DEF TypeInv, LocalTypes, Workers
  <1>2. ProjOK'
    <2>1. UNCHANGED <<proj, applied>> /\ pc'[w] \notin {"projLoad", "projFlush"}
      BY <1>1 DEF CompleteReaction, store, Goto, Leave, Commits, NextEntry
    <2> QED
      BY <1>1, <2>1, ProjQuiet
  <1>3. EffectsOK'
    BY CompleteReactionEffects
  <1>4. WakeOK'
    <2>1. UNCHANGED <<waits, deferred>> /\ pc'[w] \notin {"update", "defer", "deferAgain"}
          /\ (pc'[w] = "await" => Blocks(w))
      BY <1>1 DEF CompleteReaction, store, Goto, Leave, Commits, NextEntry
    <2> QED
      BY <1>1, <2>1, WakeQuiet
  <1> QED
    BY <1>1, <1>2, <1>3, <1>4, SerialKept DEF SerialInv

LEMMA DrainedSerial ==
  ASSUME TypeInv, SerialInv, NEW w \in Workers, Frame(w), Alone(w), Drained(w)
  PROVE  SerialInv'
  <1>1. w \in Workers /\ pc \in [Workers -> Labels] /\ items \in [Workers -> SUBSET DOMAIN queue]
    BY DEF TypeInv, LocalTypes, Workers
  <1>2. ProjOK'
    <2>1. UNCHANGED <<proj, applied>> /\ pc'[w] \notin {"projLoad", "projFlush"}
      BY <1>1 DEF Drained, store, Goto, Leave, Commits, NextEntry
    <2> QED
      BY <1>1, <2>1, ProjQuiet
  <1>3. EffectsOK'
    <2>1. pc'[w] = "ack"
      BY <1>1 DEF Drained, Leave, Goto
    <2>2. items'[w] = {} /\ UNCHANGED <<delivered, dedup, queue>>
      BY <1>1 DEF Drained, Leave, store
    <2>3. pc'[w] \notin {"enqueue", "replayDedup", "replayInvoke"}
      BY <2>1
    <2> QED
      BY <1>1, <2>2, <2>3, EffectsEmptied
  <1>4. WakeOK'
    <2>1. UNCHANGED <<waits, deferred>> /\ pc'[w] \notin {"update", "defer", "deferAgain"}
          /\ (pc'[w] = "await" => Blocks(w))
      BY <1>1 DEF Drained, store, Goto, Leave, Commits, NextEntry
    <2> QED
      BY <1>1, <2>1, WakeQuiet
  <1> QED
    BY <1>1, <1>2, <1>3, <1>4, SerialKept DEF SerialInv

LEMMA CallSerial ==
  ASSUME TypeInv, SerialInv, NEW c \in Calls, Frame(c), Alone(c), Begin(c) \/ Call(c), ~ Unblock(c)
  PROVE  SerialInv'
  BY BeginSerial, RegisterBlockWaitSerial, RegisterDeferredSerial, ReadMaxSeqSerial, LoadSerial,
     DisableReactionSerial, CommitEntrySerial, CommitThrowsSerial, CommitWaitRegisterSerial, CommitWaitCancelSerial,
     CommitReactionRegisterSerial, CommitReactionDisableSerial, ReplaySerial, ReplayDedupSerial, ReplayInvokeSerial,
     TailJournalSerial, AckFanoutSerial, FinishSerial, InvokeThrowsSerial DEF Call

LEMMA DispatchSerial ==
  ASSUME TypeInv, SerialInv, NEW w \in Workers, Frame(w), Alone(w), Dispatch(w)
  PROVE  SerialInv'
  BY DispatchEntrySerial, UpdateWaitSerial, SkipEntrySerial, ListReactionsSerial, NotifyWaitSerial, DedupReadSerial,
     EnqueueReactionSerial, MarkProjectionSerial, LoadProjectionSerial, FlushProjectionSerial,
     ClaimReactionBatchSerial, InvokeActionSerial, CompleteReactionSerial, DrainedSerial DEF Dispatch

LEMMA RunsAlone ==
  ASSUME SerialInv, NEW w \in Workers, pc[w] \notin Over
  PROVE  Alone(w)
  BY DEF SerialInv, Serial, Running, Alone

\* A call that begins finds no other running.
LEMMA BeginsAlone ==
  ASSUME TypeInv, Slots = 1, NEW c \in Calls, Begin(c)
  PROVE  Alone(c)
  <1>1. IsFiniteSet(Workers)
    BY CallAssumption, FS_AddElement DEF Workers
  <1>2. Running \subseteq Workers
    BY DEF Running
  <1>3. IsFiniteSet(Running) /\ Cardinality(Running) \in Nat
    BY <1>1, <1>2, FS_Subset, FS_CardinalityType
  <1>4. Cardinality(Running) = 0
    BY <1>3 DEF Begin
  <1>5. Running = {}
    BY <1>3, <1>4, FS_EmptySet
  <1> QED
    BY <1>5 DEF Running, Alone

LEMMA UnblockSerial ==
  ASSUME TypeInv, SerialInv, NEW c \in Calls, Unblock(c)
  PROVE  SerialInv'
  <1>1. c \in Workers /\ pc \in [Workers -> Labels] /\ Calls \subseteq Workers
    BY DEF TypeInv, LocalTypes, Workers
  <1>2. UNCHANGED <<journal, proj, applied, delivered, dedup, queue, items, left, read, waits, deferred>>
        /\ pc' = [pc EXCEPT ![c] = "done"] /\ pc[c] = "await"
    BY DEF Unblock, store, Goto
  <1>3. pc'[c] = "done" /\ \A v \in Workers : v # c => pc'[v] = pc[v]
    BY <1>1, <1>2
  <1>4. Serial'
    BY <1>1, <1>3 DEF SerialInv, Serial, Running, Over
  <1>5. ProjOK'
    <2>1. ProjectionComplete'
      BY <1>2, UnblockTypes, MarkedKept DEF SerialInv, ProjOK, Frame
    <2> QED
      BY <1>2, <1>3, <2>1 DEF SerialInv, ProjOK
  <1>6. EffectsOK'
    <2> SUFFICES ASSUME NoBypass PROVE EffectsOK'
      BY DEF EffectsOK, NoBypass
    <2>1. items[c] = {}
      BY <1>1, <1>2 DEF SerialInv, EffectsOK
    <2> QED
      BY <1>1, <1>2, <1>3, <2>1 DEF SerialInv, EffectsOK, Pair
  <1>7. WakeOK'
    BY <1>1, <1>2, <1>3 DEF SerialInv, WakeOK, Blocks
  <1> QED
    BY <1>4, <1>5, <1>6, <1>7 DEF SerialInv

LEMMA RecoverySerial ==
  ASSUME TypeInv, SerialInv, Frame(Rec), ClaimFanoutBatch \/ RecoveryAck \/ RecoveryFails
  PROVE  SerialInv'
  <1>1. Rec \in Workers /\ Rec \notin Calls /\ pc \in [Workers -> Labels] /\ items \in [Workers -> SUBSET DOMAIN queue]
    BY CallAssumption DEF TypeInv, LocalTypes, Workers
  <1>2. Alone(Rec)
    BY <1>1, RunsAlone DEF ClaimFanoutBatch, RecoveryAck, RecoveryFails, Over
  <1>3. UNCHANGED <<proj, applied, delivered, dedup, queue, waits, deferred>>
    BY DEF ClaimFanoutBatch, RecoveryAck, RecoveryFails, store
  <1>4. pc'[Rec] \in {"boot", "entry", "done"}
    <2>1. CASE ClaimFanoutBatch
      BY <1>1, <2>1 DEF ClaimFanoutBatch, Goto
    <2>2. CASE RecoveryAck \/ RecoveryFails
      <3>1. NextOfBatch /\ pc[Rec] \in Draining
        BY <2>2 DEF RecoveryAck, RecoveryFails, Draining
      <3>2. pc'[Rec] \in {"boot", "entry"}
        BY <3>1, BatchTypes
      <3> QED
        BY <3>2
    <2> QED
      BY <2>1, <2>2
  <1>5. ProjOK'
    BY <1>1, <1>2, <1>3, <1>4, ProjQuiet
  <1>6. EffectsOK'
    <2>1. pc'[Rec] \notin {"enqueue", "replayDedup", "replayInvoke"}
      BY <1>4
    <2>2. CASE RecoveryFails
      <3>1. items'[Rec] = {}
        BY <1>1, <2>2 DEF RecoveryFails
      <3> QED
        BY <1>1, <1>2, <1>3, <2>1, <3>1, EffectsEmptied
    <2>3. CASE ClaimFanoutBatch \/ RecoveryAck
      <3>1. items'[Rec] = items[Rec] /\ pc[Rec] \notin {"invoke", "complete"}
        BY <2>3 DEF ClaimFanoutBatch, RecoveryAck
      <3> QED
        BY <1>1, <1>2, <1>3, <2>1, <3>1, EffectsQuiet
    <2> QED
      BY <2>2, <2>3
  <1>7. WakeOK'
    BY <1>1, <1>2, <1>3, <1>4, WakeQuiet
  <1> QED
    BY <1>1, <1>2, <1>5, <1>6, <1>7, SerialKept DEF SerialInv

LEMMA CrashSerial ==
  ASSUME TypeInv, SerialInv, Crash
  PROVE  SerialInv'
  <1>1. Rec \in Workers /\ Calls \subseteq Workers /\ StoreGrows
    BY CrashTypes DEF Workers
  <1>2. \A w \in Workers : pc'[w] \in {"boot", "new", "done", "thrown", "gone"} /\ (pc'[w] = "boot" => w = Rec) /\ items'[w] = {}
    BY CrashTypes DEF Crashed
  <1>3. UNCHANGED <<journal, proj, applied, delivered, dedup, queue, waits>> /\ deferred' = [c \in Calls |-> None]
    BY DEF Crash, store
  <1>4. Serial'
    BY <1>2 DEF Serial, Running, Over
  <1>5. ProjOK'
    <2>1. ProjectionComplete'
      BY <1>1, <1>3, MarkedKept DEF SerialInv, ProjOK
    <2> QED
      BY <1>2, <2>1 DEF ProjOK
  <1>6. EffectsOK'
    <2> SUFFICES ASSUME NoBypass PROVE EffectsOK'
      BY DEF EffectsOK, NoBypass
    <2> QED
      BY <1>1, <1>2, <1>3 DEF SerialInv, EffectsOK, Pair
  <1>7. WakeOK'
    BY <1>1, <1>2, <1>3, NoneAssumption DEF WakeOK
  <1> QED
    BY <1>4, <1>5, <1>6, <1>7 DEF SerialInv

LEMMA StillSerial ==
  ASSUME SerialInv, RetryDue \/ UNCHANGED vars
  PROVE  SerialInv'
  <1>1. UNCHANGED <<journal, proj, applied, delivered, dedup, queue, items, left, read, waits, deferred, pc>>
    BY DEF RetryDue, vars, store, local
  <1>2. Serial'
    BY <1>1 DEF SerialInv, Serial, Running
  <1>3. ProjOK'
    BY <1>1 DEF SerialInv, ProjOK, ProjectionComplete
  <1>4. EffectsOK'
    BY <1>1 DEF SerialInv, EffectsOK, NoBypass, Pair
  <1>5. WakeOK'
    BY <1>1 DEF SerialInv, WakeOK, Blocks
  <1> QED
    BY <1>2, <1>3, <1>4, <1>5 DEF SerialInv

LEMMA StepSerial ==
  ASSUME Slots = 1, TypeInv, SerialInv, [Next]_vars
  PROVE  SerialInv'
  <1>1. Calls \subseteq Workers /\ Rec \in Workers
    BY DEF Workers
  <1>2. ASSUME NEW c \in Calls, Begin(c) PROVE SerialInv'
    BY <1>2, BeginsAlone, CallTypes, BeginSerial
  <1>3. ASSUME NEW c \in Calls, Call(c) PROVE SerialInv'
    <2>1. CASE Unblock(c)
      BY <2>1, UnblockSerial
    <2>2. CASE ~ Unblock(c)
      <3>1. pc[c] \notin Over
        BY <1>3, <2>2 DEF Call, Over, RegisterBlockWait, RegisterDeferred, ReadMaxSeq, Load, DisableReaction,
           CommitEntry, CommitThrows, CommitWaitRegister, CommitWaitCancel, CommitReactionRegister,
           CommitReactionDisable, Replay, ReplayDedup, ReplayInvoke, TailJournal, AckFanout, Finish, InvokeThrows
      <3>2. Alone(c)
        BY <1>1, <3>1, RunsAlone
      <3> QED
        BY <1>3, <2>2, <3>2, CallTypes, CallSerial
    <2> QED
      BY <2>1, <2>2
  <1>4. ASSUME NEW w \in Workers, Dispatch(w) PROVE SerialInv'
    <2>1. pc[w] \notin Over
      BY <1>4 DEF Dispatch, Over, DispatchEntry, UpdateWait, SkipEntry, ListReactions, NotifyWait, DedupRead,
         EnqueueReaction, MarkProjection, LoadProjection, FlushProjection, ClaimReactionBatch, InvokeAction,
         CompleteReaction, Drained
    <2>2. Alone(w)
      BY <2>1, RunsAlone
    <2> QED
      BY <1>4, <2>2, DispatchTypes, DispatchSerial
  <1>5. ClaimFanoutBatch \/ RecoveryAck \/ RecoveryFails => SerialInv'
    BY ClaimFanoutBatchTypes, RecoveryAckTypes, RecoveryFailsTypes, RecoverySerial
  <1>6. Crash => SerialInv'
    BY CrashSerial
  <1>7. RetryDue \/ UNCHANGED vars => SerialInv'
    BY StillSerial
  <1> QED
    BY <1>1, <1>2, <1>3, <1>4, <1>5, <1>6, <1>7 DEF Next, Recovery

LEMMA InitSerial == Init => SerialInv
  <1> SUFFICES ASSUME Init PROVE SerialInv
    OBVIOUS
  <1>1. Calls \subseteq Workers /\ \A w \in Workers : pc[w] \in {"new", "done"} /\ items[w] = {}
    BY DEF Init, Workers
  <1>2. Serial
    BY <1>1 DEF Serial, Running, Over
  <1>3. ProjectionComplete
    <2>1. \A a \in Aggs \cup {None} : proj[a] = << >> /\ {s \in applied : journal[s].agg = a} = {}
      BY DEF Init
    <2>2. Cardinality({}) = 0 /\ Len(<< >>) = 0 /\ DOMAIN << >> = {}
      BY FS_EmptySet
    <2> QED
      BY <2>1, <2>2 DEF ProjectionComplete
  <1>4. ProjOK
    BY <1>1, <1>3 DEF ProjOK
  <1>5. EffectsOK
    BY <1>1 DEF Init, EffectsOK
  <1>6. WakeOK
    BY <1>1 DEF Init, WakeOK
  <1> QED
    BY <1>2, <1>4, <1>5, <1>6 DEF SerialInv

LEMMA SerialInvHolds ==
  ASSUME Slots = 1
  PROVE  Spec => [](TypeInv /\ SerialInv)
  <1>1. Init => TypeInv /\ SerialInv
    BY InitTypes, InitSerial
  <1>2. TypeInv /\ SerialInv /\ [Next]_vars => (TypeInv /\ SerialInv)'
    BY StepTypes, StepSerial
  <1> QED
    BY <1>1, <1>2, PTL DEF Spec

(* K18: with one call at a time, an action is invoked at most once for a   *)
(* reaction and an entry, unless a replay says bypass_dedup, across any    *)
(* crashes, retries and replays (insertDedup before enqueue, claim before  *)
(* invoke).  Two calls at a time break it: both read the ledger before     *)
(* either writes it.                                                       *)
THEOREM EffectsHappenOnce ==
  ASSUME Slots = 1
  PROVE  Spec => []OneDelivery
  <1>1. EffectsOK => OneDelivery
    BY DEF EffectsOK, NoBypass, OneDelivery
  <1> QED
    BY <1>1, SerialInvHolds, PTL DEF SerialInv

(* K9: with one call at a time, an aggregate's projection has every entry  *)
(* that is marked as applied to it, once, wherever the daemon crashed      *)
(* (tryMarkProjectionApplied, load and flush in one transaction's place).  *)
THEOREM ProjectionsAreComplete ==
  ASSUME Slots = 1
  PROVE  Spec => []ProjectionComplete
  <1>1. ProjOK => ProjectionComplete
    BY DEF ProjOK
  <1> QED
    BY <1>1, SerialInvHolds, PTL DEF SerialInv

(* With one call at a time, a blocked call whose wait row is resolved has  *)
(* its answer: the promise was settled before the row was written, and     *)
(* registered before there was anything to settle it (registerBlockWait,   *)
(* resolveWait).                                                           *)
THEOREM NoWakeupIsLost ==
  ASSUME Slots = 1
  PROVE  Spec => []NoLostWakeup
  <1>1. TypeInv /\ WakeOK => NoLostWakeup
    BY DEF TypeInv, WorkOK, CallWork, WakeOK, NoLostWakeup
  <1> QED
    BY <1>1, SerialInvHolds, PTL DEF SerialInv
=============================================================================
