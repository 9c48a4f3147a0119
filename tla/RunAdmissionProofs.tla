------------------------- MODULE RunAdmissionProofs -------------------------
(***************************************************************************)
(* Proofs about RunAdmission, for every set of calls, spaces, flows and    *)
(* indexes.                                                                *)
(*                                                                         *)
(* Types hold of every behaviour.  The capacity and the pinning of runs    *)
(* hold when every call goes through the daemon's guard (Serialised): the  *)
(* call at the head of a chain is alone in the inner part of a section, so *)
(* what it read (the entry, the policy, the count, the quiescence) is      *)
(* still true when it writes.  That one run is made for an idempotency key *)
(* needs less: the paths outside the guard may run too (KeysAreLocal).     *)
(***************************************************************************)
EXTENDS RunAdmission, FiniteSetTheorems, TLAPS

(* What a call has done before it is at a label. *)
WorkOK ==
    \A c \in Calls :
        /\ pc[c] \in {"inserted", "park"} => run[c] # None
        /\ pc[c] \in {"runKey", "policy", "count"} => Request[c].flow # None
        /\ pc[c] \in {"commit", "bind"} => snapshot[c] # None
        /\ pc[c] \in {"bind", "bound", "starting"} => run[Request[c].of] # None

TypeInv == TypeOK /\ WorkOK

-----------------------------------------------------------------------------
(* Types of the values the actions store. *)

LEMMA RequestTypes ==
  ASSUME NEW c \in Calls
  PROVE  /\ Request[c].kind \in Kinds
         /\ Request[c].space \in Spaces
         /\ Request[c].flow \in Flows \union {None}
         /\ Request[c].digest \in Digests
         /\ Request[c].key \in Keys \union {None}
         /\ Request[c].input \in Keys \union {None}
         /\ Request[c].of \in Calls
         /\ ChainOf(c) \in Chains
  BY AdmissionAssumption DEF RequestType, ChainOf, Chains

LEMMA NewRunType ==
  ASSUME NEW c \in Calls, NEW f \in Flows \union {None}, NEW d \in Digests \union {None}
  PROVE  NewRun(c, f, d) \in RunRow
  <1>1. RunKey(c) \in Keys \union {None}
    BY RequestTypes DEF RunKey
  <1>2. "working" \in Lifecycles
    BY DEF Lifecycles
  <1> QED
    BY <1>1, <1>2, RequestTypes DEF NewRun, RunRow

LEMMA WithLifeType ==
  ASSUME NEW row \in RunRow, NEW l \in Lifecycles
  PROVE  WithLife(row, l) \in RunRow
  BY DEF WithLife, RunRow

LEMMA WithFlowType ==
  ASSUME NEW row \in RunRow, NEW f \in Flows \union {None}, NEW d \in Digests
  PROVE  WithFlow(row, f, d) \in RunRow
  BY DEF WithFlow, RunRow

LEMMA InitType == Init => TypeInv
  <1> SUFFICES ASSUME Init PROVE TypeInv
    OBVIOUS
  <1>1. TypeOK
    BY AdmissionAssumption DEF Init, TypeOK, Labels
  <1>2. WorkOK
    BY DEF Init, WorkOK
  <1> QED
    BY <1>1, <1>2 DEF TypeInv

\* A section's early return keeps the variables it writes well typed.
LEMMA AnswerType ==
  ASSUME TypeOK, NEW c \in Calls, NEW r \in Calls \union {None}, At(c, pc[c]), Answer(c, r)
  PROVE  /\ pc' \in [Calls -> Labels]
         /\ got' \in [Calls -> Calls \union {None}]
         /\ guard' \in [Chains -> Seq(Calls)]
         /\ pc' = [pc EXCEPT ![c] = "done"]
  <1>1. guard[ChainOf(c)] \in Seq(Calls) /\ guard[ChainOf(c)] # <<>>
    BY RequestTypes DEF TypeOK, At, Holds
  <1>2. Tail(guard[ChainOf(c)]) \in Seq(Calls)
    BY <1>1
  <1>3. guard' = [guard EXCEPT ![ChainOf(c)] = Tail(guard[ChainOf(c)])]
    BY DEF Answer, Settle
  <1> QED
    BY <1>2, <1>3 DEF TypeOK, Answer, Goto, Labels

\* Runs are never deleted, and Goto moves only the call that acts.
LEMMA WorkKept ==
  ASSUME TypeInv, NEW c \in Calls, NEW label \in Labels,
         pc' = [pc EXCEPT ![c] = label],
         \A r \in Calls : run[r] # None => run'[r] # None,
         \A d \in Calls \ {c} : snapshot'[d] = snapshot[d],
         label \in {"inserted", "park"} => run'[c] # None,
         label \in {"runKey", "policy", "count"} => Request[c].flow # None,
         label \in {"commit", "bind"} => snapshot'[c] # None,
         label \in {"bind", "bound", "starting"} => run'[Request[c].of] # None
  PROVE  WorkOK'
  <1> SUFFICES ASSUME NEW d \in Calls
               PROVE  /\ pc'[d] \in {"inserted", "park"} => run'[d] # None
                      /\ pc'[d] \in {"runKey", "policy", "count"} => Request[d].flow # None
                      /\ pc'[d] \in {"commit", "bind"} => snapshot'[d] # None
                      /\ pc'[d] \in {"bind", "bound", "starting"} => run'[Request[d].of] # None
    BY DEF WorkOK
  <1>1. CASE d = c
    BY <1>1 DEF TypeInv, TypeOK
  <1>2. CASE d # c
    <2>1. pc'[d] = pc[d] /\ snapshot'[d] = snapshot[d]
      BY <1>2 DEF TypeInv, TypeOK
    <2>2. Request[d].of \in Calls
      BY RequestTypes
    <2> QED
      BY <2>1, <2>2 DEF TypeInv, WorkOK
  <1> QED
    BY <1>1, <1>2

\* An early return of a section that writes nothing else.
LEMMA AnswerInv ==
  ASSUME TypeInv, NEW c \in Calls, NEW r \in Calls \union {None}, At(c, pc[c]), Answer(c, r),
         UNCHANGED <<run, digest, limit, snapshot>>, index' \in [Spaces -> Index]
  PROVE  TypeInv'
  <1>1. TypeOK'
    BY AnswerType DEF TypeInv, TypeOK
  <1>2. pc' = [pc EXCEPT ![c] = "done"]
    BY DEF Answer, Goto
  <1>3. WorkOK'
    BY <1>2, WorkKept DEF Labels
  <1> QED
    BY <1>1, <1>3 DEF TypeInv

\* A step of a section that moves on and writes nothing else.
LEMMA GotoInv ==
  ASSUME TypeInv, NEW c \in Calls, NEW label \in Labels, Goto(c, label),
         guard' \in [Chains -> Seq(Calls)],
         digest' \in [Calls -> Digests \union {None}],
         limit' \in [Calls -> Nat],
         UNCHANGED <<index, run, snapshot, got>>,
         label \notin {"inserted", "park", "commit", "bind", "bound", "starting"},
         label \in {"runKey", "policy", "count"} => Request[c].flow # None
  PROVE  TypeInv'
  <1>1. TypeOK'
    BY DEF TypeInv, TypeOK, Goto
  <1>2. pc' = [pc EXCEPT ![c] = label]
    BY DEF Goto
  <1>3. WorkOK'
    BY <1>2, WorkKept
  <1> QED
    BY <1>1, <1>3 DEF TypeInv

\* A run row that is written stays a row, and the other rows stay as they are.
LEMMA RowWritten ==
  ASSUME TypeOK, NEW r \in Calls, NEW row \in RunRow, run' = [run EXCEPT ![r] = row]
  PROVE  /\ run' \in [Calls -> RunRow \union {None}]
         /\ run'[r] = row /\ row # None
         /\ \A q \in Calls : run[q] # None => run'[q] # None
         /\ \A q \in Calls \ {r} : run'[q] = run[q]
  BY AdmissionAssumption DEF TypeOK

LEMMA IndexRead ==
  ASSUME TypeOK, NEW c \in Calls
  PROVE  /\ index[Request[c].space] \in Index
         /\ index[Request[c].space].entry \in [Flows -> Digests \union {None}]
         /\ index[Request[c].space].limit \in [Flows -> Nat]
  BY RequestTypes DEF TypeOK, Index

LEMMA NextType == TypeInv /\ [Next]_vars => TypeInv'
  <1> SUFFICES ASSUME TypeInv, [Next]_vars PROVE TypeInv'
    OBVIOUS
  <1> USE RequestTypes
  <1>0. TypeOK
    BY DEF TypeInv
  <1>1. ASSUME NEW c \in Calls, With(c) PROVE TypeInv'
    <2> DEFINE label == FirstAwait(Request[c].kind)
    <2>1. label \in {"idempotency", "quiescence", "entry"}
      BY DEF FirstAwait
    <2>2. Goto(c, label)
      BY <1>1 DEF With
    <2>3. guard[ChainOf(c)] \in Seq(Calls)
      BY <1>0 DEF TypeOK
    <2>4. guard' = [guard EXCEPT ![ChainOf(c)] = Append(guard[ChainOf(c)], c)]
      BY <1>1 DEF With
    <2>5. guard' \in [Chains -> Seq(Calls)]
      BY <1>0, <2>3, <2>4 DEF TypeOK
    <2>6. digest' \in [Calls -> Digests \union {None}] /\ limit' \in [Calls -> Nat]
      BY <1>0, <1>1 DEF With, TypeOK
    <2>7. label \in Labels
      BY <2>1 DEF Labels
    <2>8. UNCHANGED <<index, run, snapshot, got>>
      BY <1>1 DEF With
    <2> HIDE DEF label
    <2> QED
      BY <2>1, <2>2, <2>5, <2>6, <2>7, <2>8, GotoInv
  <1>2. ASSUME NEW c \in Calls, FindRunByIdempotencyKey(c) PROVE TypeInv'
    <2>1. CASE \E r \in SameKey(c) : Answer(c, r)
      <3>1. PICK r \in Calls : Answer(c, r)
        BY <2>1 DEF SameKey, Runs
      <3> QED
        BY <1>0, <1>2, <3>1, AnswerInv DEF FindRunByIdempotencyKey, At, TypeOK
    <2>2. CASE Goto(c, "entry") /\ UNCHANGED <<guard, got>>
      BY <1>0, <1>2, <2>2, GotoInv DEF FindRunByIdempotencyKey, TypeOK, Labels
    <2> QED
      BY <1>2, <2>1, <2>2 DEF FindRunByIdempotencyKey
  <1>3. ASSUME NEW c \in Calls, GetFlowIndexEntry(c) PROVE TypeInv'
    <2>1. CASE Goto(c, "insert") /\ UNCHANGED <<guard, digest, got>>
      BY <1>0, <1>3, <2>1, GotoInv DEF GetFlowIndexEntry, TypeOK, Labels, Inner
    <2>2. CASE /\ Request[c].flow # None
               /\ digest' = [digest EXCEPT ![c] = index[Request[c].space].entry[Request[c].flow]]
               /\ Goto(c, IF Request[c].kind = "start" THEN "runKey" ELSE "policy")
               /\ UNCHANGED <<guard, got>>
      <3>1. digest' \in [Calls -> Digests \union {None}]
        BY <1>0, <2>2, IndexRead DEF TypeOK
      <3>2. PICK label \in {"runKey", "policy"} : Goto(c, label)
        BY <2>2
      <3>3. label \in Labels
        BY DEF Labels, Inner
      <3> QED
        BY <1>0, <1>3, <2>2, <3>1, <3>2, <3>3, GotoInv DEF GetFlowIndexEntry, TypeOK
    <2>3. CASE Answer(c, None) /\ UNCHANGED digest
      BY <1>0, <1>3, <2>3, AnswerInv DEF GetFlowIndexEntry, At, TypeOK
    <2> QED
      BY <1>3, <2>1, <2>2, <2>3 DEF GetFlowIndexEntry
  <1>4. ASSUME NEW c \in Calls, FindRunByFlowKey(c) PROVE TypeInv'
    <2>1. CASE \E r \in SameRunKey(c) : Answer(c, r)
      <3>1. PICK r \in Calls : Answer(c, r)
        BY <2>1 DEF SameRunKey, Runs
      <3> QED
        BY <1>0, <1>4, <3>1, AnswerInv DEF FindRunByFlowKey, At, TypeOK
    <2>2. CASE Goto(c, "policy") /\ UNCHANGED <<guard, got>>
      <3>1. Request[c].flow # None
        BY <1>4 DEF FindRunByFlowKey, At, TypeInv, WorkOK
      <3> QED
        BY <1>0, <1>4, <2>2, <3>1, GotoInv DEF FindRunByFlowKey, TypeOK, Labels, Inner
    <2> QED
      BY <1>4, <2>1, <2>2 DEF FindRunByFlowKey
  <1>5. ASSUME NEW c \in Calls, ListIndexedRunPolicies(c) PROVE TypeInv'
    <2>1. Request[c].flow # None
      BY <1>5 DEF ListIndexedRunPolicies, At, TypeInv, WorkOK
    <2>2. limit' \in [Calls -> Nat]
      BY <1>0, <1>5, <2>1, IndexRead DEF ListIndexedRunPolicies, TypeOK
    <2>3. PICK label \in {"insert", "count"} : Goto(c, label)
      BY <1>5 DEF ListIndexedRunPolicies
    <2>4. label \in Labels
      BY DEF Labels, Inner
    <2> QED
      BY <1>0, <1>5, <2>1, <2>2, <2>3, <2>4, GotoInv DEF ListIndexedRunPolicies, TypeOK
  <1>6. ASSUME NEW c \in Calls, AdmitFlowRun(c) PROVE TypeInv'
    <2>1. CASE Answer(c, None)
      BY <1>0, <1>6, <2>1, AnswerInv DEF AdmitFlowRun, At, TypeOK
    <2>2. CASE Goto(c, "insert") /\ UNCHANGED <<guard, got>>
      BY <1>0, <1>6, <2>2, GotoInv DEF AdmitFlowRun, TypeOK, Labels, Inner
    <2> QED
      BY <1>6, <2>1, <2>2 DEF AdmitFlowRun
  <1>7. ASSUME NEW c \in Calls, CreateRun(c) PROVE TypeInv'
    <2>1. CASE Answer(c, None) /\ UNCHANGED run
      BY <1>0, <1>7, <2>1, AnswerInv DEF CreateRun, At, TypeOK
    <2>2. CASE /\ run' = [run EXCEPT ![c] = NewRun(c, IF Request[c].kind \in {"attach", "invoke"}
                                                     THEN None ELSE Request[c].flow, digest[c])]
               /\ Goto(c, "inserted")
               /\ UNCHANGED <<guard, got>>
      <3>1. digest[c] \in Digests \union {None}
        BY <1>0 DEF TypeOK
      <3>2. PICK row \in RunRow : run' = [run EXCEPT ![c] = row]
        BY <2>2, <3>1, NewRunType
      <3>3. TypeOK'
        BY <1>0, <1>7, <2>2, <3>2, RowWritten DEF CreateRun, TypeOK, Goto, Labels, Inner
      <3>4. pc' = [pc EXCEPT ![c] = "inserted"] /\ snapshot' = snapshot
        BY <1>7, <2>2 DEF CreateRun, Goto
      <3>5. WorkOK'
        BY <1>0, <3>2, <3>4, RowWritten, WorkKept DEF Labels, Inner
      <3> QED
        BY <3>3, <3>5 DEF TypeInv
    <2> QED
      BY <1>7, <2>1, <2>2 DEF CreateRun
  <1>8. ASSUME NEW c \in Calls, RunCreated(c) PROVE TypeInv'
    <2>1. run[c] # None
      BY <1>8 DEF RunCreated, At, TypeInv, WorkOK
    <2>2. guard[ChainOf(c)] \in Seq(Calls) /\ guard[ChainOf(c)] # <<>>
      BY <1>0, <1>8 DEF RunCreated, At, Holds, TypeOK
    <2>3. guard' \in [Chains -> Seq(Calls)]
      <3>1. Tail(guard[ChainOf(c)]) \in Seq(Calls)
        BY <2>2
      <3>2. guard' = [guard EXCEPT ![ChainOf(c)] = Tail(guard[ChainOf(c)])]
        BY <1>8 DEF RunCreated, Settle
      <3> QED
        BY <1>0, <3>1, <3>2 DEF TypeOK
    <2>4. PICK label \in {"park", "done"} : pc' = [pc EXCEPT ![c] = label]
      BY <1>8 DEF RunCreated, Goto
    <2>5. label \in Labels
      BY DEF Labels
    <2>6. UNCHANGED <<index, run, digest, limit, snapshot>> /\ got' = [got EXCEPT ![c] = c]
      BY <1>8 DEF RunCreated
    <2>7. TypeOK'
      BY <1>0, <2>3, <2>4, <2>5, <2>6 DEF TypeOK
    <2>8. WorkOK'
      BY <2>1, <2>4, <2>5, <2>6, WorkKept
    <2> QED
      BY <2>7, <2>8 DEF TypeInv
  <1>9. ASSUME NEW c \in Calls, ParkRun(c) PROVE TypeInv'
    <2>1. run[c] \in RunRow
      BY <1>0, <1>9 DEF ParkRun, TypeInv, WorkOK, TypeOK
    <2>2. PICK row \in RunRow : run' = [run EXCEPT ![c] = row]
      BY <1>9, <2>1, WithLifeType DEF ParkRun, Lifecycles
    <2>3. pc' = [pc EXCEPT ![c] = "done"] /\ snapshot' = snapshot
      BY <1>9 DEF ParkRun, Goto
    <2>4. TypeOK'
      BY <1>0, <1>9, <2>2, <2>3, RowWritten DEF ParkRun, TypeOK, Labels
    <2>5. WorkOK'
      BY <1>0, <2>2, <2>3, RowWritten, WorkKept DEF Labels
    <2> QED
      BY <2>4, <2>5 DEF TypeInv
  <1>10. ASSUME NEW c \in Calls, AssertSpaceQuiescent(c) PROVE TypeInv'
    <2>1. CASE Answer(c, None)
      BY <1>0, <1>10, <2>1, AnswerInv DEF AssertSpaceQuiescent, At, TypeOK
    <2>2. CASE Goto(c, "candidate") /\ UNCHANGED <<guard, got>>
      BY <1>0, <1>10, <2>2, GotoInv DEF AssertSpaceQuiescent, TypeOK, Labels, Inner
    <2> QED
      BY <1>10, <2>1, <2>2 DEF AssertSpaceQuiescent
  <1>11. ASSUME NEW c \in Calls, Candidate(c) PROVE TypeInv'
    <2>1. CASE Answer(c, None) /\ UNCHANGED snapshot
      BY <1>0, <1>11, <2>1, AnswerInv DEF Candidate, At, TypeOK
    <2>2. CASE \E b \in Configs, flows, handlers \in BOOLEAN :
             /\ snapshot' = [snapshot EXCEPT ![c] = Merged(index[Request[c].space], b, flows, handlers)]
             /\ Goto(c, "commit")
             /\ UNCHANGED <<guard, got>>
      <3>1. PICK b \in Configs, flows \in BOOLEAN, handlers \in BOOLEAN :
             /\ snapshot' = [snapshot EXCEPT ![c] = Merged(index[Request[c].space], b, flows, handlers)]
             /\ Goto(c, "commit")
             /\ UNCHANGED <<guard, got>>
        BY <2>2
      <3>2. b.entry \in [Flows -> Digests \union {None}] /\ b.limit \in [Flows -> Nat]
        BY AdmissionAssumption DEF Index
      <3>3. PICK ix \in Index : snapshot' = [snapshot EXCEPT ![c] = ix]
        BY <1>0, <3>1, <3>2, IndexRead DEF Index, Merged
      <3>4. snapshot' \in [Calls -> Index \union {None}] /\ snapshot'[c] # None
        BY <1>0, <3>3, AdmissionAssumption DEF TypeOK
      <3>5. pc' = [pc EXCEPT ![c] = "commit"] /\ UNCHANGED <<index, run, guard, digest, limit, got>>
        BY <1>11, <3>1 DEF Candidate, Goto
      <3>6. TypeOK'
        BY <1>0, <3>4, <3>5 DEF TypeOK, Labels, Inner
      <3>7. \A d \in Calls \ {c} : snapshot'[d] = snapshot[d]
        BY <1>0, <3>3 DEF TypeOK
      <3>8. WorkOK'
        BY <3>4, <3>5, <3>7, WorkKept DEF Labels, Inner
      <3> QED
        BY <3>6, <3>8 DEF TypeInv
    <2> QED
      BY <1>11, <2>1, <2>2 DEF Candidate
  <1>12. ASSUME NEW c \in Calls, ReplaceSpaceIndex(c) PROVE TypeInv'
    <2>1. snapshot[c] \in Index
      BY <1>0, <1>12 DEF ReplaceSpaceIndex, At, TypeInv, WorkOK, TypeOK
    <2>2. index' \in [Spaces -> Index]
      BY <1>0, <1>12, <2>1 DEF ReplaceSpaceIndex, TypeOK
    <2> QED
      BY <1>12, <2>2, AnswerInv DEF ReplaceSpaceIndex, At
  <1>13. ASSUME NEW c \in Calls, LaneRead(c) PROVE TypeInv'
    <2>1. run[Request[c].of] \in RunRow
      BY <1>0, <1>13 DEF LaneRead, Runs, TypeOK
    <2>2. digest' \in [Calls -> Digests \union {None}]
      BY <1>0, <1>13, <2>1 DEF LaneRead, TypeOK, RunRow
    <2> QED
      BY <1>0, <1>13, <2>2, GotoInv DEF LaneRead, TypeOK, Labels
  <1>14. ASSUME NEW c \in Calls, LaneCreate(c) PROVE TypeInv'
    <2>1. digest[c] \in Digests \union {None}
      BY <1>0 DEF TypeOK
    <2>2. PICK row \in RunRow : run' = [run EXCEPT ![c] = row]
      BY <1>14, <2>1, NewRunType DEF LaneCreate
    <2>3. pc' = [pc EXCEPT ![c] = "done"] /\ snapshot' = snapshot
      BY <1>14 DEF LaneCreate, Goto
    <2>4. TypeOK'
      BY <1>0, <1>14, <2>2, <2>3, RowWritten DEF LaneCreate, TypeOK, Labels
    <2>5. WorkOK'
      BY <1>0, <2>2, <2>3, RowWritten, WorkKept DEF Labels
    <2> QED
      BY <2>4, <2>5 DEF TypeInv
  <1>15. ASSUME NEW c \in Calls, BindRead(c) PROVE TypeInv'
    <2>1. index[Request[c].space] \in Index /\ index[Request[c].space] # None
      BY <1>0, IndexRead, AdmissionAssumption
    <2>2. snapshot' = [snapshot EXCEPT ![c] = index[Request[c].space]]
      BY <1>15 DEF BindRead
    <2>3. /\ snapshot' \in [Calls -> Index \union {None}] /\ snapshot'[c] # None
          /\ \A d \in Calls \ {c} : snapshot'[d] = snapshot[d]
      BY <1>0, <2>1, <2>2 DEF TypeOK
    <2>4. /\ pc' = [pc EXCEPT ![c] = "bind"] /\ UNCHANGED <<index, run, guard, digest, limit, got>>
          /\ run[Request[c].of] # None
      BY <1>15 DEF BindRead, Goto, Runs
    <2>5. TypeOK'
      BY <1>0, <2>3, <2>4 DEF TypeOK, Labels
    <2>6. WorkOK'
      BY <2>3, <2>4, WorkKept DEF Labels
    <2> QED
      BY <2>5, <2>6 DEF TypeInv
  <1>16. ASSUME NEW c \in Calls, UpsertEphemeralFlowEntry(c) PROVE TypeInv'
    <2>1. snapshot[c] \in Index
      BY <1>0, <1>16 DEF UpsertEphemeralFlowEntry, TypeInv, WorkOK, TypeOK
    <2>2. [entry |-> [snapshot[c].entry EXCEPT ![Request[c].flow] = Request[c].digest],
           limit |-> snapshot[c].limit] \in Index
      BY <2>1 DEF Index
    <2>3. index' \in [Spaces -> Index]
      BY <1>0, <1>16, <2>2 DEF UpsertEphemeralFlowEntry, TypeOK
    <2>4. pc' = [pc EXCEPT ![c] = "bound"] /\ UNCHANGED <<run, guard, digest, limit, snapshot, got>>
      BY <1>16 DEF UpsertEphemeralFlowEntry, Goto
    <2>5. run[Request[c].of] # None
      BY <1>16 DEF UpsertEphemeralFlowEntry, TypeInv, WorkOK
    <2>6. TypeOK'
      BY <1>0, <2>3, <2>4 DEF TypeOK, Labels
    <2>7. WorkOK'
      BY <2>4, <2>5, WorkKept DEF Labels
    <2> QED
      BY <2>6, <2>7 DEF TypeInv
  <1>17. ASSUME NEW c \in Calls, UpdateRunFlowBinding(c) PROVE TypeInv'
    <2>1. run[Request[c].of] \in RunRow
      BY <1>0, <1>17 DEF UpdateRunFlowBinding, TypeInv, WorkOK, TypeOK
    <2>2. WithFlow(run[Request[c].of], Request[c].flow, Request[c].digest) \in RunRow
      BY <2>1, WithFlowType
    <2>3. PICK row \in RunRow : run' = [run EXCEPT ![Request[c].of] = row]
      BY <1>17, <2>2 DEF UpdateRunFlowBinding
    <2>4. pc' = [pc EXCEPT ![c] = "starting"] /\ snapshot' = snapshot
      BY <1>17 DEF UpdateRunFlowBinding, Goto
    <2>5. TypeOK'
      BY <1>0, <1>17, <2>3, <2>4, RowWritten DEF UpdateRunFlowBinding, TypeOK, Labels
    <2>6. run'[Request[c].of] # None
      BY <1>0, <2>1, <2>3, RowWritten, RequestTypes, AdmissionAssumption DEF TypeInv, TypeOK
    <2>7. WorkOK'
      BY <1>0, <2>3, <2>4, <2>6, RowWritten, WorkKept DEF Labels
    <2> QED
      BY <2>5, <2>7 DEF TypeInv
  <1>22. ASSUME NEW c \in Calls, StartBoundRun(c) PROVE TypeInv'
    <2>1. run[Request[c].of] \in RunRow
      BY <1>0, <1>22 DEF StartBoundRun, TypeInv, WorkOK, TypeOK
    <2>2. pc' = [pc EXCEPT ![c] = "done"] /\ snapshot' = snapshot
      BY <1>22 DEF StartBoundRun, Goto
    <2>3. CASE run' = run
      <3>1. TypeOK'
        BY <1>0, <1>22, <2>2, <2>3 DEF StartBoundRun, TypeOK, Labels
      <3>2. WorkOK'
        BY <1>0, <2>2, <2>3, WorkKept DEF Labels
      <3> QED
        BY <3>1, <3>2 DEF TypeInv
    <2>4. CASE run' = [run EXCEPT ![Request[c].of] = WithLife(run[Request[c].of], "working")]
      <3>1. PICK row \in RunRow : run' = [run EXCEPT ![Request[c].of] = row]
        BY <2>1, <2>4, WithLifeType DEF Lifecycles
      <3>2. TypeOK'
        BY <1>0, <1>22, <2>2, <3>1, RowWritten DEF StartBoundRun, TypeOK, Labels
      <3>3. WorkOK'
        BY <1>0, <2>2, <3>1, RowWritten, WorkKept DEF Labels
      <3> QED
        BY <3>2, <3>3 DEF TypeInv
    <2> QED
      BY <1>22, <2>3, <2>4 DEF StartBoundRun
  <1>18. ASSUME NEW r \in Calls, NEW from, NEW to \in Lifecycles, MoveRun(r, from, to)
         PROVE  TypeInv'
    <2>1. run[r] \in RunRow
      BY <1>0, <1>18 DEF MoveRun, Runs, TypeOK
    <2>2. PICK row \in RunRow : run' = [run EXCEPT ![r] = row]
      BY <1>18, <2>1, WithLifeType DEF MoveRun
    <2>3. TypeOK'
      BY <1>0, <1>18, <2>2, RowWritten DEF MoveRun, TypeOK
    <2>4. WorkOK'
      BY <1>0, <1>18, <2>2, RowWritten DEF MoveRun, TypeInv, WorkOK
    <2> QED
      BY <2>3, <2>4 DEF TypeInv
  <1>19. ASSUME Restart PROVE TypeInv'
    <2>1. \A r \in Calls : run[r] # None /\ run[r].life = "working" => WithLife(run[r], "failed") \in RunRow
      BY <1>0, WithLifeType DEF TypeOK, Lifecycles
    <2>2. run' \in [Calls -> RunRow \union {None}] /\ \A r \in Calls : run[r] # None => run'[r] # None
      BY <1>0, <1>19, <2>1, AdmissionAssumption DEF Restart, TypeOK
    <2>3. guard' \in [Chains -> Seq(Calls)]
      BY <1>19 DEF Restart
    <2>4. pc' \in [Calls -> Labels] /\ \A c \in Calls : pc'[c] \in {"idle", "done", "dead"}
      BY <1>0, <1>19 DEF Restart, TypeOK, Labels
    <2>5. TypeOK'
      BY <1>0, <1>19, <2>2, <2>3, <2>4 DEF Restart, TypeOK
    <2>6. WorkOK'
      BY <2>4 DEF WorkOK
    <2> QED
      BY <2>5, <2>6 DEF TypeInv
  <1>20. ASSUME UNCHANGED vars PROVE TypeInv'
    BY <1>20 DEF vars, TypeInv, TypeOK, WorkOK
  <1>21. "working" \in Lifecycles /\ "input-required" \in Lifecycles
         /\ {"completed", "failed", "cancelled"} \subseteq Lifecycles
    BY DEF Lifecycles
  <1> QED
    BY <1>1, <1>2, <1>3, <1>4, <1>5, <1>6, <1>7, <1>8, <1>9, <1>10, <1>11, <1>12, <1>13,
       <1>14, <1>15, <1>16, <1>17, <1>18, <1>19, <1>20, <1>21, <1>22
       DEF Next, Step, RequireInput, Resume, EndRun

(* Whatever calls race, in or out of the guard, the rows of runs and indexes,
   the chains and what the sections of startFlowRun, admitAndCreateRun and the
   apply route keep between awaits are well formed. *)
THEOREM TypeCorrect == Spec => []TypeOK
  <1>1. TypeInv => TypeOK
    BY DEF TypeInv
  <1> QED
    BY <1>1, InitType, NextType, PTL DEF Spec

-----------------------------------------------------------------------------
(* Every call goes through the guard the daemon injects: no invoke, no matrix
   lane, no orchestration. *)
Serialised == \A c \in Calls : Request[c].kind \in {"start", "create", "retry", "apply"}

(* A call past its first await is at the head of its chain. *)
HoldsInside == \A c \in Calls : pc[c] \in Inner => Holds(c)

(* No call is on a path outside the guard. *)
NoBypass == \A c \in Calls : pc[c] \notin {"park", "lane", "bind", "bound", "starting"}

(* What the call in the section read is still so. *)
EntryFresh ==
    \A c \in Calls :
        pc[c] \in {"runKey", "policy", "count", "insert"} /\ Request[c].flow # None =>
            digest[c] = index[Request[c].space].entry[Request[c].flow]

PolicyFresh ==
    \A c \in Calls :
        pc[c] = "count" => limit[c] = index[Request[c].space].limit[Request[c].flow]

RoomLeft ==
    \A c \in Calls :
        pc[c] = "insert" /\ Request[c].flow # None
            /\ index[Request[c].space].limit[Request[c].flow] > 0 =>
        Cardinality(Active(Request[c].space, Request[c].flow))
            < index[Request[c].space].limit[Request[c].flow]

StillQuiescent ==
    \A c \in Calls : pc[c] \in {"candidate", "commit"} => ActiveIn(Request[c].space) = {}

IInv ==
    /\ TypeInv
    /\ HoldsInside /\ NoBypass
    /\ EntryFresh /\ PolicyFresh /\ RoomLeft /\ StillQuiescent
    /\ CapacityRespected /\ PinnedToApplied

(* Two calls for one space are not in a section together. *)
LEMMA AloneInside ==
  ASSUME Serialised, HoldsInside, NEW c \in Calls, NEW d \in Calls, Holds(c),
         pc[d] \in Inner, Request[c].space = Request[d].space
  PROVE  c = d
  <1>1. ChainOf(c) = ChainOf(d)
    BY DEF Serialised, ChainOf
  <1>2. Holds(d)
    BY DEF HoldsInside
  <1> QED
    BY <1>1, <1>2 DEF Holds

LEMMA SmallerSet ==
  ASSUME NEW A \in SUBSET Calls, NEW B \in SUBSET A
  PROVE  /\ Cardinality(A) \in Nat
         /\ Cardinality(B) \in Nat
         /\ Cardinality(B) <= Cardinality(A)
  <1>1. IsFiniteSet(A)
    BY AdmissionAssumption, FS_Subset
  <1>2. IsFiniteSet(B) /\ Cardinality(B) <= Cardinality(A)
    BY <1>1, FS_Subset
  <1> QED
    BY <1>1, <1>2, FS_CardinalityType

LEMMA OneMore ==
  ASSUME NEW A \in SUBSET Calls, NEW x \in Calls, NEW B \in SUBSET (A \union {x})
  PROVE  /\ Cardinality(A) \in Nat
         /\ Cardinality(B) \in Nat
         /\ Cardinality(B) <= Cardinality(A) + 1
  <1>1. IsFiniteSet(A) /\ Cardinality(A) \in Nat
    BY AdmissionAssumption, FS_Subset, FS_CardinalityType
  <1>2. Cardinality(A \union {x}) <= Cardinality(A) + 1
    <2>1. CASE x \in A
      <3>1. A \union {x} = A
        BY <2>1
      <3>2. Cardinality(A) <= Cardinality(A) + 1
        BY <1>1
      <3> QED
        BY <3>1, <3>2, Zenon
    <2>2. CASE x \notin A
      BY <1>1, <2>2, FS_AddElement
    <2> QED
      BY <2>1, <2>2
  <1>3. A \union {x} \in SUBSET Calls
    OBVIOUS
  <1>4. Cardinality(B) \in Nat /\ Cardinality(A \union {x}) \in Nat
        /\ Cardinality(B) <= Cardinality(A \union {x})
    BY <1>3, SmallerSet
  <1> QED
    BY <1>1, <1>2, <1>4

\* The chain of a space moves in one of three ways, and each leaves the call in
\* the inner part of a section at the head.
LEMMA HoldsKept ==
  ASSUME TypeOK, HoldsInside, NEW c \in Calls, NEW label \in Labels,
         pc' = [pc EXCEPT ![c] = label],
         \/ guard' = guard /\ Holds(c)
         \/ /\ guard' = [guard EXCEPT ![ChainOf(c)] = Append(guard[ChainOf(c)], c)]
            /\ label \notin Inner
         \/ /\ guard' = [guard EXCEPT ![ChainOf(c)] = Tail(guard[ChainOf(c)])]
            /\ Holds(c) /\ label \notin Inner
  PROVE  HoldsInside'
  <1> SUFFICES ASSUME NEW d \in Calls, pc'[d] \in Inner
               PROVE  guard'[ChainOf(d)] # <<>> /\ Head(guard'[ChainOf(d)]) = d
    BY DEF HoldsInside, Holds, ChainOf
  <1>1. guard[ChainOf(d)] \in Seq(Calls) /\ ChainOf(d) \in Chains
    BY RequestTypes DEF TypeOK
  <1>2. CASE guard' = guard /\ Holds(c)
    <2>1. d = c \/ pc'[d] = pc[d]
      BY DEF TypeOK
    <2> QED
      BY <1>2, <2>1 DEF HoldsInside, Holds
  <1>3. ASSUME label \notin Inner PROVE d # c /\ pc[d] \in Inner /\ Holds(d)
    BY <1>3 DEF TypeOK, HoldsInside
  <1>4. CASE /\ guard' = [guard EXCEPT ![ChainOf(c)] = Append(guard[ChainOf(c)], c)]
             /\ label \notin Inner
    <2>1. guard[ChainOf(d)] # <<>> /\ Head(guard[ChainOf(d)]) = d
      BY <1>3, <1>4 DEF Holds
    <2>2. CASE ChainOf(d) = ChainOf(c)
      <3>1. guard'[ChainOf(d)] = Append(guard[ChainOf(d)], c)
        BY <1>1, <1>4, <2>2 DEF TypeOK
      <3> QED
        BY <1>1, <2>1, <3>1
    <2>3. CASE ChainOf(d) # ChainOf(c)
      BY <1>1, <1>4, <2>1, <2>3 DEF TypeOK
    <2> QED
      BY <2>2, <2>3
  <1>5. CASE /\ guard' = [guard EXCEPT ![ChainOf(c)] = Tail(guard[ChainOf(c)])]
             /\ Holds(c) /\ label \notin Inner
    <2>1. guard[ChainOf(d)] # <<>> /\ Head(guard[ChainOf(d)]) = d /\ d # c
      BY <1>3, <1>5 DEF Holds
    <2>2. ChainOf(d) # ChainOf(c)
      BY <1>5, <2>1 DEF Holds
    <2> QED
      BY <1>1, <1>5, <2>1, <2>2 DEF TypeOK
  <1> QED
    BY <1>2, <1>4, <1>5

\* A step of call c that writes neither run rows nor the index keeps every
\* conjunct, provided c knows what its new label says it knows.
LEMMA SectionStep ==
  ASSUME IInv, NEW c \in Calls, NEW label \in Labels,
         pc' = [pc EXCEPT ![c] = label], UNCHANGED <<index, run>>,
         \A d \in Calls \ {c} : digest'[d] = digest[d] /\ limit'[d] = limit[d],
         label \notin {"park", "lane", "bind", "bound", "starting"},
         label \in {"runKey", "policy", "count", "insert"} /\ Request[c].flow # None =>
             digest'[c] = index[Request[c].space].entry[Request[c].flow],
         label = "count" => limit'[c] = index[Request[c].space].limit[Request[c].flow],
         label = "insert" /\ Request[c].flow # None
             /\ index[Request[c].space].limit[Request[c].flow] > 0 =>
             Cardinality(Active(Request[c].space, Request[c].flow))
                 < index[Request[c].space].limit[Request[c].flow],
         label \in {"candidate", "commit"} => ActiveIn(Request[c].space) = {}
  PROVE  /\ NoBypass' /\ EntryFresh' /\ PolicyFresh' /\ RoomLeft' /\ StillQuiescent'
         /\ CapacityRespected' /\ PinnedToApplied'
  <1>1. \A d \in Calls : pc'[d] = IF d = c THEN label ELSE pc[d]
    BY DEF IInv, TypeInv, TypeOK
  <1>2. NoBypass'
    BY <1>1 DEF IInv, NoBypass
  <1>3. EntryFresh'
    BY <1>1 DEF IInv, EntryFresh
  <1>4. PolicyFresh'
    BY <1>1 DEF IInv, PolicyFresh
  <1>5. \A s, f : Active(s, f)' = Active(s, f) /\ ActiveIn(s)' = ActiveIn(s)
    BY DEF Active, ActiveIn, Runs
  <1>6. RoomLeft'
    <2> SUFFICES ASSUME NEW d \in Calls, pc'[d] = "insert", Request[d].flow # None,
                        index[Request[d].space].limit[Request[d].flow] > 0
                 PROVE  Cardinality(Active(Request[d].space, Request[d].flow))
                            < index[Request[d].space].limit[Request[d].flow]
      BY <1>5 DEF RoomLeft, Active, Runs
    <2>1. CASE d = c
      BY <1>1, <2>1
    <2>2. CASE d # c
      BY <1>1, <2>2 DEF IInv, RoomLeft
    <2> QED
      BY <2>1, <2>2
  <1>7. StillQuiescent'
    <2> SUFFICES ASSUME NEW d \in Calls, pc'[d] \in {"candidate", "commit"}
                 PROVE  ActiveIn(Request[d].space) = {}
      BY <1>5 DEF StillQuiescent, ActiveIn, Runs
    <2>1. CASE d = c
      BY <1>1, <2>1
    <2>2. CASE d # c
      BY <1>1, <2>2 DEF IInv, StillQuiescent
    <2> QED
      BY <2>1, <2>2
  <1>8. CapacityRespected'
    BY DEF IInv, CapacityRespected, Active, Runs
  <1>9. PinnedToApplied'
    BY DEF IInv, PinnedToApplied, Runs
  <1> QED
    BY <1>2, <1>3, <1>4, <1>6, <1>7, <1>8, <1>9

\* Ending, parking and resuming runs only ever takes rows out of the active sets.
LEMMA RowsShrink ==
  ASSUME IInv, UNCHANGED index,
         \A r \in Calls : run'[r] # None /\ run'[r].life \in NonTerminal =>
             /\ run[r] # None /\ run[r].life \in NonTerminal
             /\ run'[r].space = run[r].space /\ run'[r].flow = run[r].flow
             /\ run'[r].digest = run[r].digest
  PROVE  /\ CapacityRespected' /\ PinnedToApplied'
         /\ \A s, f : /\ Active(s, f)' \in SUBSET Active(s, f)
                      /\ ActiveIn(s)' \in SUBSET ActiveIn(s)
  <1>1. \A s, f : /\ Active(s, f)' \in SUBSET Active(s, f)
                  /\ ActiveIn(s)' \in SUBSET ActiveIn(s)
    BY DEF Active, ActiveIn, Runs
  <1>2. CapacityRespected'
    <2> SUFFICES ASSUME NEW s \in Spaces, NEW f \in Flows, index'[s].limit[f] > 0
                 PROVE  Cardinality(Active(s, f)') <= index'[s].limit[f]
      BY DEF CapacityRespected
    <2>1. Cardinality(Active(s, f)) <= index[s].limit[f]
      BY DEF IInv, CapacityRespected
    <2>2. Active(s, f) \in SUBSET Calls /\ Active(s, f)' \in SUBSET Active(s, f)
      BY <1>1 DEF Active, Runs
    <2>3. /\ Cardinality(Active(s, f)) \in Nat /\ Cardinality(Active(s, f)') \in Nat
          /\ Cardinality(Active(s, f)') <= Cardinality(Active(s, f))
      BY <2>2, SmallerSet
    <2>4. index[s].limit[f] \in Nat
      BY DEF IInv, TypeInv, TypeOK, Index
    <2> QED
      BY <2>1, <2>3, <2>4
  <1>3. PinnedToApplied'
    BY DEF IInv, PinnedToApplied, Runs
  <1> QED
    BY <1>1, <1>2, <1>3

\* A run ends, waits or resumes.
LEMMA MoveRunStep ==
  ASSUME IInv, NEW r \in Calls, NEW from \in SUBSET NonTerminal, NEW to \in Lifecycles,
         MoveRun(r, from, to), TypeInv'
  PROVE  IInv'
  <1>1. UNCHANGED <<index, guard, pc, digest, limit, snapshot, got>>
    BY DEF MoveRun
  <1>2. run[r] # None /\ run[r].life \in NonTerminal
    BY DEF MoveRun, Runs
  <1>3. \A q \in Calls : run'[q] = IF q = r THEN WithLife(run[r], to) ELSE run[q]
    BY DEF MoveRun, IInv, TypeInv, TypeOK
  <1>4. \A q \in Calls : run'[q] # None /\ run'[q].life \in NonTerminal =>
             /\ run[q] # None /\ run[q].life \in NonTerminal
             /\ run'[q].space = run[q].space /\ run'[q].flow = run[q].flow
             /\ run'[q].digest = run[q].digest
    BY <1>2, <1>3 DEF WithLife
  <1>5. /\ CapacityRespected' /\ PinnedToApplied'
        /\ \A s, f : /\ Active(s, f)' \in SUBSET Active(s, f)
                     /\ ActiveIn(s)' \in SUBSET ActiveIn(s)
    BY <1>1, <1>4, RowsShrink
  <1>6. HoldsInside' /\ NoBypass' /\ EntryFresh' /\ PolicyFresh'
    BY <1>1 DEF IInv, HoldsInside, NoBypass, EntryFresh, PolicyFresh, Holds, ChainOf
  <1>7. RoomLeft'
    <2> SUFFICES ASSUME NEW d \in Calls, pc[d] = "insert", Request[d].flow # None,
                        index[Request[d].space].limit[Request[d].flow] > 0
                 PROVE  Cardinality(Active(Request[d].space, Request[d].flow)')
                            < index[Request[d].space].limit[Request[d].flow]
      BY <1>1 DEF RoomLeft
    <2> DEFINE A == Active(Request[d].space, Request[d].flow)
    <2>1. Cardinality(A) < index[Request[d].space].limit[Request[d].flow]
      BY DEF IInv, RoomLeft
    <2>2. A \in SUBSET Calls /\ A' \in SUBSET A
      BY <1>5 DEF Active, Runs
    <2>3. Cardinality(A) \in Nat /\ Cardinality(A') \in Nat /\ Cardinality(A') <= Cardinality(A)
      BY <2>2, SmallerSet
    <2>4. index[Request[d].space].limit[Request[d].flow] \in Nat
      BY RequestTypes, IndexRead DEF IInv, TypeInv
    <2> HIDE DEF A
    <2>5. Cardinality(A') < index[Request[d].space].limit[Request[d].flow]
      BY <2>1, <2>3, <2>4
    <2> QED
      BY <2>5 DEF A
  <1>8. StillQuiescent'
    BY <1>1, <1>5 DEF IInv, StillQuiescent
  <1> QED
    BY <1>5, <1>6, <1>7, <1>8 DEF IInv

LEMMA RestartStep ==
  ASSUME IInv, Restart, TypeInv'
  PROVE  IInv'
  <1>1. \A c \in Calls : pc'[c] \in {"idle", "done", "dead"}
    BY DEF Restart, IInv, TypeInv, TypeOK
  <1>2. \A r \in Calls : run'[r] = IF run[r] # None /\ run[r].life = "working"
                                   THEN WithLife(run[r], "failed") ELSE run[r]
    BY DEF Restart
  <1>3. \A r \in Calls : run'[r] # None /\ run'[r].life \in NonTerminal =>
             /\ run[r] # None /\ run[r].life \in NonTerminal
             /\ run'[r].space = run[r].space /\ run'[r].flow = run[r].flow
             /\ run'[r].digest = run[r].digest
    <2> SUFFICES ASSUME NEW r \in Calls, run'[r] # None, run'[r].life \in NonTerminal
                 PROVE  run'[r] = run[r]
      OBVIOUS
    <2>1. WithLife(run[r], "failed").life = "failed"
      BY DEF WithLife
    <2>2. "failed" \notin NonTerminal
      BY DEF NonTerminal
    <2> QED
      BY <1>2, <2>1, <2>2
  <1>4. index' = index
    BY DEF Restart
  <1>5. CapacityRespected' /\ PinnedToApplied'
    BY <1>3, <1>4, RowsShrink
  <1>6. /\ HoldsInside' /\ NoBypass' /\ EntryFresh' /\ PolicyFresh'
        /\ RoomLeft' /\ StillQuiescent'
    BY <1>1 DEF HoldsInside, NoBypass, EntryFresh, PolicyFresh, RoomLeft, StillQuiescent, Inner
  <1> QED
    BY <1>5, <1>6 DEF IInv

\* A run is inserted: the call counted before it inserts, alone in its space.
LEMMA CreateRunStep ==
  ASSUME Serialised, IInv, NEW c \in Calls, CreateRun(c), ~ Answer(c, None), TypeInv'
  PROVE  IInv'
  <1> USE RequestTypes
  <1> DEFINE s0 == Request[c].space
             f0 == Request[c].flow
  <1>1. /\ pc[c] = "insert" /\ Holds(c)
        /\ pc' = [pc EXCEPT ![c] = "inserted"]
        /\ UNCHANGED <<index, guard, digest, limit, snapshot, got>>
        /\ run' = [run EXCEPT ![c] = NewRun(c, f0, digest[c])]
    BY DEF CreateRun, At, Goto, Serialised
  <1>2. TypeOK
    BY DEF IInv, TypeInv
  <1>3. \A d \in Calls : pc'[d] = IF d = c THEN "inserted" ELSE pc[d]
    BY <1>1, <1>2 DEF TypeOK
  <1>4. NewRun(c, f0, digest[c]) \in RunRow
    BY <1>2, NewRunType DEF TypeOK
  <1>5. /\ run'[c] = NewRun(c, f0, digest[c]) /\ run'[c] # None
        /\ \A q \in Calls \ {c} : run'[q] = run[q]
    BY <1>1, <1>2, <1>4, RowWritten
  <1>6. run'[c].space = s0 /\ run'[c].flow = f0 /\ run'[c].digest = digest[c]
    BY <1>5 DEF NewRun
  <1>7. \A s, f : /\ Active(s, f)' \in SUBSET (Active(s, f) \union {c})
                  /\ s # s0 \/ f # f0 => Active(s, f)' \in SUBSET Active(s, f)
                  /\ s # s0 => ActiveIn(s)' \in SUBSET ActiveIn(s)
    BY <1>5, <1>6 DEF Active, ActiveIn, Runs
  <1>8. HoldsInside'
    BY <1>1, <1>2, HoldsKept DEF IInv, Labels, Inner
  <1>9. NoBypass' /\ EntryFresh' /\ PolicyFresh'
    BY <1>1, <1>3 DEF IInv, NoBypass, EntryFresh, PolicyFresh
  <1>10. \A d \in Calls \ {c} : pc[d] \in Inner => Request[d].space # s0
    BY <1>1, AloneInside DEF IInv
  <1>11. RoomLeft'
    <2> SUFFICES ASSUME NEW d \in Calls, pc'[d] = "insert", Request[d].flow # None,
                        index[Request[d].space].limit[Request[d].flow] > 0
                 PROVE  Cardinality(Active(Request[d].space, Request[d].flow)')
                            < index[Request[d].space].limit[Request[d].flow]
      BY <1>1 DEF RoomLeft
    <2> DEFINE A == Active(Request[d].space, Request[d].flow)
    <2>1. d # c /\ pc[d] = "insert"
      BY <1>3
    <2>2. Request[d].space # s0
      BY <1>10, <2>1 DEF Inner
    <2>3. A \in SUBSET Calls /\ A' \in SUBSET A
      <3>1. A \in SUBSET Calls
        BY DEF Active, Runs
      <3>2. A' \in SUBSET A
        BY <1>7, <2>2
      <3> QED
        BY <3>1, <3>2
    <2>4. Cardinality(A) \in Nat /\ Cardinality(A') \in Nat /\ Cardinality(A') <= Cardinality(A)
      BY <2>3, SmallerSet
    <2>5. Cardinality(A) < index[Request[d].space].limit[Request[d].flow]
      BY <2>1 DEF IInv, RoomLeft
    <2>6. index[Request[d].space].limit[Request[d].flow] \in Nat
      BY <1>2, IndexRead
    <2> HIDE DEF A
    <2>7. Cardinality(A') < index[Request[d].space].limit[Request[d].flow]
      BY <2>4, <2>5, <2>6
    <2> QED
      BY <2>7 DEF A
  <1>12. StillQuiescent'
    <2> SUFFICES ASSUME NEW d \in Calls, pc'[d] \in {"candidate", "commit"}
                 PROVE  ActiveIn(Request[d].space)' = {}
      BY DEF StillQuiescent
    <2>1. d # c /\ pc[d] \in {"candidate", "commit"}
      BY <1>3
    <2>2. Request[d].space # s0
      BY <1>10, <2>1 DEF Inner
    <2>3. ActiveIn(Request[d].space) = {}
      BY <2>1 DEF IInv, StillQuiescent
    <2> QED
      BY <1>7, <2>2, <2>3
  <1>13. CapacityRespected'
    <2> SUFFICES ASSUME NEW s \in Spaces, NEW f \in Flows, index[s].limit[f] > 0
                 PROVE  Cardinality(Active(s, f)') <= index[s].limit[f]
      BY <1>1 DEF CapacityRespected
    <2> DEFINE A == Active(s, f)
    <2>1. A \in SUBSET Calls
      BY DEF Active, Runs
    <2>2. index[s].limit[f] \in Nat
      BY <1>2 DEF TypeOK, Index
    <2>3. CASE s = s0 /\ f = f0
      <3>1. f0 # None
        BY <2>3, AdmissionAssumption
      <3>2. Cardinality(A) < index[s].limit[f]
        BY <1>1, <2>3, <3>1 DEF IInv, RoomLeft
      <3>3. A' \in SUBSET (A \union {c})
        BY <1>7
      <3> HIDE DEF A
      <3>4. Cardinality(A) \in Nat /\ Cardinality(A') \in Nat /\ Cardinality(A') <= Cardinality(A) + 1
        BY <2>1, <3>3, OneMore
      <3>5. Cardinality(A') <= index[s].limit[f]
        BY <2>2, <3>2, <3>4
      <3> QED
        BY <3>5 DEF A
    <2>4. CASE ~ (s = s0 /\ f = f0)
      <3>1. Cardinality(A) <= index[s].limit[f]
        BY DEF IInv, CapacityRespected
      <3>2. A' \in SUBSET A
        BY <1>7, <2>4
      <3> HIDE DEF A
      <3>3. Cardinality(A) \in Nat /\ Cardinality(A') \in Nat /\ Cardinality(A') <= Cardinality(A)
        BY <2>1, <3>2, SmallerSet
      <3>4. Cardinality(A') <= index[s].limit[f]
        BY <2>2, <3>1, <3>3
      <3> QED
        BY <3>4 DEF A
    <2> QED
      BY <2>3, <2>4
  <1>14. PinnedToApplied'
    <2> SUFFICES ASSUME NEW r \in Calls, run'[r] # None, run'[r].life \in NonTerminal,
                        run'[r].flow # None
                 PROVE  run'[r].digest = index[run'[r].space].entry[run'[r].flow]
      BY <1>1 DEF PinnedToApplied, Runs
    <2>1. CASE r = c
      BY <1>1, <1>6, <2>1 DEF IInv, EntryFresh
    <2>2. CASE r # c
      BY <1>5, <2>2 DEF IInv, PinnedToApplied, Runs
    <2> QED
      BY <2>1, <2>2
  <1> QED
    BY <1>8, <1>9, <1>11, <1>12, <1>13, <1>14 DEF IInv

\* An apply commits: its space is still quiescent, so no run and no other
\* section depends on the index it replaces.
LEMMA ReplaceStep ==
  ASSUME Serialised, IInv, NEW c \in Calls, ReplaceSpaceIndex(c), TypeInv'
  PROVE  IInv' /\ ActiveIn(Request[c].space) = {}
  <1> USE RequestTypes
  <1> DEFINE s0 == Request[c].space
  <1>1. /\ pc[c] = "commit" /\ Holds(c)
        /\ pc' = [pc EXCEPT ![c] = "done"]
        /\ guard' = [guard EXCEPT ![ChainOf(c)] = Tail(guard[ChainOf(c)])]
        /\ UNCHANGED <<run, digest, limit>>
        /\ index' = [index EXCEPT ![s0] = snapshot[c]]
    BY DEF ReplaceSpaceIndex, At, Answer, Settle, Goto
  <1>2. TypeOK
    BY DEF IInv, TypeInv
  <1>3. \A d \in Calls : pc'[d] = IF d = c THEN "done" ELSE pc[d]
    BY <1>1, <1>2 DEF TypeOK
  <1>4. \A s \in Spaces \ {s0} : index'[s] = index[s]
    BY <1>1, <1>2 DEF TypeOK
  <1>5. ActiveIn(s0) = {}
    BY <1>1 DEF IInv, StillQuiescent
  <1>6. \A d \in Calls : pc'[d] \in Inner => d # c /\ pc[d] = pc'[d] /\ Request[d].space # s0
    BY <1>1, <1>3, AloneInside DEF IInv, Inner
  <1>7. HoldsInside'
    BY <1>1, <1>2, HoldsKept DEF IInv, Labels, Inner
  <1>8. NoBypass'
    BY <1>3 DEF IInv, NoBypass
  <1>9. \A d \in Calls : pc'[d] \in Inner => index'[Request[d].space] = index[Request[d].space]
    BY <1>4, <1>6
  <1>10. EntryFresh'
    BY <1>1, <1>6, <1>9 DEF IInv, EntryFresh, Inner
  <1>11. PolicyFresh'
    BY <1>1, <1>6, <1>9 DEF IInv, PolicyFresh, Inner
  <1>12. \A s, f : Active(s, f)' = Active(s, f) /\ ActiveIn(s)' = ActiveIn(s)
    BY <1>1 DEF Active, ActiveIn, Runs
  <1>13. RoomLeft'
    <2> SUFFICES ASSUME NEW d \in Calls, pc'[d] = "insert", Request[d].flow # None,
                        index'[Request[d].space].limit[Request[d].flow] > 0
                 PROVE  Cardinality(Active(Request[d].space, Request[d].flow))
                            < index'[Request[d].space].limit[Request[d].flow]
      BY <1>12 DEF RoomLeft
    <2>1. pc[d] = "insert" /\ index'[Request[d].space] = index[Request[d].space]
      BY <1>6, <1>9 DEF Inner
    <2> QED
      BY <2>1 DEF IInv, RoomLeft
  <1>14. StillQuiescent'
    <2> SUFFICES ASSUME NEW d \in Calls, pc'[d] \in {"candidate", "commit"}
                 PROVE  ActiveIn(Request[d].space) = {}
      BY <1>12 DEF StillQuiescent
    <2>1. pc[d] = pc'[d]
      BY <1>6 DEF Inner
    <2> QED
      BY <2>1 DEF IInv, StillQuiescent
  <1>15. CapacityRespected'
    <2> SUFFICES ASSUME NEW s \in Spaces, NEW f \in Flows, index'[s].limit[f] > 0
                 PROVE  Cardinality(Active(s, f)) <= index'[s].limit[f]
      BY <1>12 DEF CapacityRespected
    <2>1. CASE s = s0
      <3>1. Active(s, f) = {}
        BY <1>5, <2>1 DEF Active, ActiveIn
      <3>2. index'[s].limit[f] \in Nat
        BY DEF TypeInv, TypeOK, Index
      <3>3. Cardinality(Active(s, f)) = 0
        BY <3>1, FS_EmptySet
      <3> QED
        BY <3>2, <3>3
    <2>2. CASE s # s0
      BY <1>4, <2>2 DEF IInv, CapacityRespected
    <2> QED
      BY <2>1, <2>2
  <1>16. PinnedToApplied'
    <2> SUFFICES ASSUME NEW r \in Calls, run[r] # None, run[r].life \in NonTerminal,
                        run[r].flow # None
                 PROVE  run[r].digest = index'[run[r].space].entry[run[r].flow]
      BY <1>1 DEF PinnedToApplied, Runs
    <2>1. run[r].space # s0
      BY <1>5 DEF ActiveIn, Runs
    <2>2. run[r].space \in Spaces
      BY <1>2 DEF TypeOK, RunRow
    <2> QED
      BY <1>4, <2>1, <2>2 DEF IInv, PinnedToApplied, Runs
  <1> QED
    BY <1>5, <1>7, <1>8, <1>10, <1>11, <1>13, <1>14, <1>15, <1>16 DEF IInv

\* The early return of a section that wrote nothing.
LEMMA AnswerStep ==
  ASSUME IInv, NEW c \in Calls, NEW r, At(c, pc[c]), Answer(c, r),
         UNCHANGED <<index, run, digest, limit>>, TypeInv'
  PROVE  IInv'
  <1>1. /\ pc' = [pc EXCEPT ![c] = "done"]
        /\ guard' = [guard EXCEPT ![ChainOf(c)] = Tail(guard[ChainOf(c)])]
        /\ Holds(c)
    BY DEF Answer, Goto, Settle, At
  <1>2. HoldsInside'
    BY <1>1, HoldsKept DEF IInv, TypeInv, Labels, Inner
  <1>3. /\ NoBypass' /\ EntryFresh' /\ PolicyFresh' /\ RoomLeft' /\ StillQuiescent'
        /\ CapacityRespected' /\ PinnedToApplied'
    BY <1>1, SectionStep DEF Labels
  <1> QED
    BY <1>2, <1>3 DEF IInv

LEMMA SerialStep == Serialised /\ IInv /\ [Next]_vars => IInv'
  <1> SUFFICES ASSUME Serialised, IInv, [Next]_vars PROVE IInv'
    OBVIOUS
  <1> USE RequestTypes
  <1>0. TypeInv /\ TypeOK /\ HoldsInside /\ TypeInv'
    BY NextType DEF IInv, TypeInv
  <1>1. ASSUME NEW c \in Calls, With(c) PROVE IInv'
    <2>1. PICK label \in {"idempotency", "quiescence", "entry"} : pc' = [pc EXCEPT ![c] = label]
      BY <1>1 DEF With, Goto, FirstAwait
    <2>2. label \in Labels /\ label \notin Inner
      BY DEF Labels, Inner
    <2>3. guard' = [guard EXCEPT ![ChainOf(c)] = Append(guard[ChainOf(c)], c)]
      BY <1>1 DEF With
    <2>4. UNCHANGED <<index, run, digest, limit>>
      BY <1>1 DEF With
    <2>5. HoldsInside'
      BY <1>0, <2>1, <2>2, <2>3, HoldsKept
    <2>6. /\ NoBypass' /\ EntryFresh' /\ PolicyFresh' /\ RoomLeft' /\ StillQuiescent'
          /\ CapacityRespected' /\ PinnedToApplied'
      BY <2>1, <2>2, <2>4, SectionStep
    <2> QED
      BY <1>0, <2>5, <2>6 DEF IInv
  <1>2. ASSUME NEW c \in Calls, FindRunByIdempotencyKey(c) PROVE IInv'
    <2>1. CASE \E r \in SameKey(c) : Answer(c, r)
      BY <1>0, <1>2, <2>1, AnswerStep DEF FindRunByIdempotencyKey, At
    <2>2. CASE Goto(c, "entry") /\ UNCHANGED <<guard, got>>
      <3>1. /\ pc' = [pc EXCEPT ![c] = "entry"] /\ Holds(c)
            /\ UNCHANGED <<index, run, guard, digest, limit>>
        BY <1>2, <2>2 DEF FindRunByIdempotencyKey, Goto, At
      <3>2. HoldsInside'
        BY <1>0, <3>1, HoldsKept DEF Labels
      <3>3. /\ NoBypass' /\ EntryFresh' /\ PolicyFresh' /\ RoomLeft' /\ StillQuiescent'
            /\ CapacityRespected' /\ PinnedToApplied'
        BY <3>1, SectionStep DEF Labels
      <3> QED
        BY <1>0, <3>2, <3>3 DEF IInv
    <2> QED
      BY <1>2, <2>1, <2>2 DEF FindRunByIdempotencyKey
  <1>3. ASSUME NEW c \in Calls, GetFlowIndexEntry(c) PROVE IInv'
    <2>0. At(c, "entry") /\ Holds(c) /\ UNCHANGED <<index, run, limit>>
      BY <1>3 DEF GetFlowIndexEntry, At
    <2>1. CASE Request[c].flow = None /\ Goto(c, "insert") /\ UNCHANGED <<guard, digest, got>>
      <3>1. pc' = [pc EXCEPT ![c] = "insert"]
        BY <2>1 DEF Goto
      <3>2. HoldsInside'
        BY <1>0, <2>0, <2>1, <3>1, HoldsKept DEF Labels, Inner
      <3>3. /\ NoBypass' /\ EntryFresh' /\ PolicyFresh' /\ RoomLeft' /\ StillQuiescent'
            /\ CapacityRespected' /\ PinnedToApplied'
        BY <2>0, <2>1, <3>1, SectionStep DEF Labels, Inner
      <3> QED
        BY <1>0, <3>2, <3>3 DEF IInv
    <2>2. CASE /\ Request[c].flow # None
               /\ digest' = [digest EXCEPT ![c] = index[Request[c].space].entry[Request[c].flow]]
               /\ Goto(c, IF Request[c].kind = "start" THEN "runKey" ELSE "policy")
               /\ UNCHANGED <<guard, got>>
      <3>1. PICK label \in {"runKey", "policy"} : pc' = [pc EXCEPT ![c] = label]
        BY <2>2 DEF Goto
      <3>2. label \in Labels
        BY DEF Labels, Inner
      <3>3. /\ digest'[c] = index[Request[c].space].entry[Request[c].flow]
            /\ \A d \in Calls \ {c} : digest'[d] = digest[d]
        BY <1>0, <2>2 DEF TypeOK
      <3>4. HoldsInside'
        BY <1>0, <2>0, <2>2, <3>1, <3>2, HoldsKept
      <3>5. /\ NoBypass' /\ EntryFresh' /\ PolicyFresh' /\ RoomLeft' /\ StillQuiescent'
            /\ CapacityRespected' /\ PinnedToApplied'
        BY <2>0, <3>1, <3>2, <3>3, SectionStep
      <3> QED
        BY <1>0, <3>4, <3>5 DEF IInv
    <2>3. CASE Answer(c, None) /\ UNCHANGED digest
      BY <1>0, <2>0, <2>3, AnswerStep DEF At
    <2>4. Request[c].kind \notin {"attach", "invoke"}
      BY DEF Serialised
    <2> QED
      BY <1>3, <2>1, <2>2, <2>3, <2>4 DEF GetFlowIndexEntry
  <1>4. ASSUME NEW c \in Calls, FindRunByFlowKey(c) PROVE IInv'
    <2>1. CASE \E r \in SameRunKey(c) : Answer(c, r)
      BY <1>0, <1>4, <2>1, AnswerStep DEF FindRunByFlowKey, At
    <2>2. CASE Goto(c, "policy") /\ UNCHANGED <<guard, got>>
      <3>1. /\ pc[c] = "runKey" /\ pc' = [pc EXCEPT ![c] = "policy"] /\ Holds(c)
            /\ UNCHANGED <<index, run, guard, digest, limit>>
        BY <1>4, <2>2 DEF FindRunByFlowKey, Goto, At
      <3>2. HoldsInside'
        BY <1>0, <3>1, HoldsKept DEF Labels, Inner
      <3>3. Request[c].flow # None => digest[c] = index[Request[c].space].entry[Request[c].flow]
        BY <3>1 DEF IInv, EntryFresh
      <3>4. /\ NoBypass' /\ EntryFresh' /\ PolicyFresh' /\ RoomLeft' /\ StillQuiescent'
            /\ CapacityRespected' /\ PinnedToApplied'
        BY <3>1, <3>3, SectionStep DEF Labels, Inner
      <3> QED
        BY <1>0, <3>2, <3>4 DEF IInv
    <2> QED
      BY <1>4, <2>1, <2>2 DEF FindRunByFlowKey
  <1>5. ASSUME NEW c \in Calls, ListIndexedRunPolicies(c) PROVE IInv'
    <2>1. /\ pc[c] = "policy" /\ Holds(c) /\ UNCHANGED <<index, run, guard, digest>>
          /\ limit' = [limit EXCEPT ![c] = index[Request[c].space].limit[Request[c].flow]]
          /\ pc' = [pc EXCEPT ![c] = IF index[Request[c].space].limit[Request[c].flow] = 0
                                     THEN "insert" ELSE "count"]
      BY <1>5 DEF ListIndexedRunPolicies, At, Goto
    <2>2. PICK label \in {"insert", "count"} :
             /\ pc' = [pc EXCEPT ![c] = label]
             /\ label = "insert" => index[Request[c].space].limit[Request[c].flow] = 0
      BY <2>1
    <2>3. label \in Labels
      BY DEF Labels, Inner
    <2>4. /\ limit'[c] = index[Request[c].space].limit[Request[c].flow]
          /\ \A d \in Calls \ {c} : limit'[d] = limit[d]
      BY <1>0, <2>1 DEF TypeOK
    <2>5. Request[c].flow # None => digest[c] = index[Request[c].space].entry[Request[c].flow]
      BY <2>1 DEF IInv, EntryFresh
    <2>6. HoldsInside'
      BY <1>0, <2>1, <2>2, <2>3, HoldsKept
    <2>7. /\ NoBypass' /\ EntryFresh' /\ PolicyFresh' /\ RoomLeft' /\ StillQuiescent'
          /\ CapacityRespected' /\ PinnedToApplied'
      <3>1. label = "insert" => ~ (index[Request[c].space].limit[Request[c].flow] > 0)
        BY <2>2
      <3>2. UNCHANGED <<index, run>> /\ \A d \in Calls \ {c} : digest'[d] = digest[d]
        BY <2>1
      <3>3. label \notin {"park", "lane", "bind", "bound", "starting", "candidate", "commit"}
        OBVIOUS
      <3>4. Request[c].flow # None =>
                digest'[c] = index[Request[c].space].entry[Request[c].flow]
        BY <2>1, <2>5
      <3> QED
        BY <2>2, <2>3, <2>4, <3>1, <3>2, <3>3, <3>4, SectionStep
    <2> QED
      BY <1>0, <2>6, <2>7 DEF IInv
  <1>6. ASSUME NEW c \in Calls, AdmitFlowRun(c) PROVE IInv'
    <2>1. CASE Answer(c, None)
      BY <1>0, <1>6, <2>1, AnswerStep DEF AdmitFlowRun, At
    <2>2. CASE /\ ~ (Cardinality(Active(Request[c].space, Request[c].flow)) >= limit[c])
               /\ Goto(c, "insert") /\ UNCHANGED <<guard, got>>
      <3>1. /\ pc[c] = "count" /\ pc' = [pc EXCEPT ![c] = "insert"] /\ Holds(c)
            /\ UNCHANGED <<index, run, guard, digest, limit>>
        BY <1>6, <2>2 DEF AdmitFlowRun, Goto, At
      <3>2. HoldsInside'
        BY <1>0, <3>1, HoldsKept DEF Labels, Inner
      <3>3. /\ Request[c].flow # None => digest[c] = index[Request[c].space].entry[Request[c].flow]
            /\ limit[c] = index[Request[c].space].limit[Request[c].flow]
        BY <3>1 DEF IInv, EntryFresh, PolicyFresh
      <3>4. Active(Request[c].space, Request[c].flow) \in SUBSET Calls
        BY DEF Active, Runs
      <3>5. Cardinality(Active(Request[c].space, Request[c].flow)) \in Nat
        BY <3>4, SmallerSet
      <3>6. limit[c] \in Nat
        BY <1>0 DEF TypeOK
      <3>7. Cardinality(Active(Request[c].space, Request[c].flow))
                < index[Request[c].space].limit[Request[c].flow]
        BY <2>2, <3>3, <3>5, <3>6
      <3>8. /\ NoBypass' /\ EntryFresh' /\ PolicyFresh' /\ RoomLeft' /\ StillQuiescent'
            /\ CapacityRespected' /\ PinnedToApplied'
        BY <3>1, <3>3, <3>7, SectionStep DEF Labels, Inner
      <3> QED
        BY <1>0, <3>2, <3>8 DEF IInv
    <2> QED
      BY <1>6, <2>1, <2>2 DEF AdmitFlowRun
  <1>7. ASSUME NEW c \in Calls, CreateRun(c) PROVE IInv'
    <2>1. CASE Answer(c, None) /\ UNCHANGED run
      BY <1>0, <1>7, <2>1, AnswerStep DEF CreateRun, At
    <2>2. CASE ~ Answer(c, None)
      BY <1>0, <1>7, <2>2, CreateRunStep
    <2>3. ASSUME Goto(c, "inserted") PROVE ~ Answer(c, None)
      <3>1. pc'[c] = "inserted"
        BY <1>0, <2>3 DEF Goto, TypeOK
      <3> QED
        BY <1>0, <3>1 DEF Answer, Goto, TypeOK
    <2> QED
      BY <1>7, <2>1, <2>2, <2>3 DEF CreateRun
  <1>8. ASSUME NEW c \in Calls, RunCreated(c) PROVE IInv'
    <2>1. /\ pc[c] = "inserted" /\ Holds(c) /\ pc' = [pc EXCEPT ![c] = "done"]
          /\ UNCHANGED <<index, run, digest, limit>>
          /\ guard' = [guard EXCEPT ![ChainOf(c)] = Tail(guard[ChainOf(c)])]
      BY <1>8 DEF RunCreated, At, Goto, Settle, Serialised
    <2>2. HoldsInside'
      BY <1>0, <2>1, HoldsKept DEF Labels, Inner
    <2>3. /\ NoBypass' /\ EntryFresh' /\ PolicyFresh' /\ RoomLeft' /\ StillQuiescent'
          /\ CapacityRespected' /\ PinnedToApplied'
      BY <2>1, SectionStep DEF Labels
    <2> QED
      BY <1>0, <2>2, <2>3 DEF IInv
  <1>9. ASSUME NEW c \in Calls, AssertSpaceQuiescent(c) PROVE IInv'
    <2>1. CASE Answer(c, None)
      BY <1>0, <1>9, <2>1, AnswerStep DEF AssertSpaceQuiescent, At
    <2>2. CASE /\ ActiveIn(Request[c].space) = {}
               /\ Goto(c, "candidate") /\ UNCHANGED <<guard, got>>
      <3>1. /\ pc' = [pc EXCEPT ![c] = "candidate"] /\ Holds(c)
            /\ UNCHANGED <<index, run, guard, digest, limit>>
        BY <1>9, <2>2 DEF AssertSpaceQuiescent, Goto, At
      <3>2. HoldsInside'
        BY <1>0, <3>1, HoldsKept DEF Labels, Inner
      <3>3. /\ NoBypass' /\ EntryFresh' /\ PolicyFresh' /\ RoomLeft' /\ StillQuiescent'
            /\ CapacityRespected' /\ PinnedToApplied'
        BY <2>2, <3>1, SectionStep DEF Labels, Inner
      <3> QED
        BY <1>0, <3>2, <3>3 DEF IInv
    <2> QED
      BY <1>9, <2>1, <2>2 DEF AssertSpaceQuiescent
  <1>10. ASSUME NEW c \in Calls, Candidate(c) PROVE IInv'
    <2>1. CASE Answer(c, None)
      BY <1>0, <1>10, <2>1, AnswerStep DEF Candidate, At
    <2>2. CASE Goto(c, "commit") /\ UNCHANGED <<guard, got>>
      <3>1. /\ pc[c] = "candidate" /\ pc' = [pc EXCEPT ![c] = "commit"] /\ Holds(c)
            /\ UNCHANGED <<index, run, guard, digest, limit>>
        BY <1>10, <2>2 DEF Candidate, Goto, At
      <3>2. HoldsInside'
        BY <1>0, <3>1, HoldsKept DEF Labels, Inner
      <3>3. ActiveIn(Request[c].space) = {}
        BY <3>1 DEF IInv, StillQuiescent
      <3>4. /\ NoBypass' /\ EntryFresh' /\ PolicyFresh' /\ RoomLeft' /\ StillQuiescent'
            /\ CapacityRespected' /\ PinnedToApplied'
        BY <3>1, <3>3, SectionStep DEF Labels, Inner
      <3> QED
        BY <1>0, <3>2, <3>4 DEF IInv
    <2> QED
      BY <1>10, <2>1, <2>2 DEF Candidate
  <1>11. ASSUME NEW c \in Calls, ReplaceSpaceIndex(c) PROVE IInv'
    BY <1>0, <1>11, ReplaceStep
  <1>12. ASSUME NEW c \in Calls,
                \/ ParkRun(c) \/ LaneRead(c) \/ LaneCreate(c)
                \/ BindRead(c) \/ UpsertEphemeralFlowEntry(c) \/ UpdateRunFlowBinding(c)
                \/ StartBoundRun(c)
         PROVE  FALSE
    <2>1. pc[c] \notin {"park", "lane", "bind", "bound", "starting"}
      BY DEF IInv, NoBypass
    <2>2. Request[c].kind \notin {"lane", "bind"}
      BY DEF Serialised
    <2> QED
      BY <1>12, <2>1, <2>2
         DEF ParkRun, LaneRead, LaneCreate, BindRead, UpsertEphemeralFlowEntry, UpdateRunFlowBinding,
             StartBoundRun
  <1>13. ASSUME NEW r \in Calls, RequireInput(r) \/ Resume(r) PROVE IInv'
    BY <1>0, <1>13, MoveRunStep DEF RequireInput, Resume, NonTerminal, Lifecycles
  <1>14. ASSUME NEW r \in Calls, NEW life \in {"completed", "failed", "cancelled"}, EndRun(r, life)
         PROVE  IInv'
    <2>1. life \in Lifecycles
      BY DEF Lifecycles
    <2> QED
      BY <1>0, <1>14, <2>1, MoveRunStep DEF EndRun
  <1>15. ASSUME Restart PROVE IInv'
    BY <1>0, <1>15, RestartStep
  <1>16. ASSUME UNCHANGED vars PROVE IInv'
    BY <1>0, <1>16 DEF vars, IInv, HoldsInside, NoBypass, EntryFresh, PolicyFresh, RoomLeft,
       StillQuiescent, CapacityRespected, PinnedToApplied, Holds, ChainOf, Active, ActiveIn, Runs
  <1> QED
    BY <1>1, <1>2, <1>3, <1>4, <1>5, <1>6, <1>7, <1>8, <1>9, <1>10, <1>11, <1>12, <1>13, <1>14,
       <1>15, <1>16 DEF Next, Step

LEMMA SerialInit == Init => IInv
  <1> SUFFICES ASSUME Init PROVE IInv
    OBVIOUS
  <1>1. TypeInv
    BY InitType
  <1>2. \A c \in Calls : pc[c] = "idle" /\ run[c] = None
    BY DEF Init
  <1>3. /\ HoldsInside /\ NoBypass /\ EntryFresh /\ PolicyFresh /\ RoomLeft /\ StillQuiescent
    BY <1>2 DEF HoldsInside, NoBypass, EntryFresh, PolicyFresh, RoomLeft, StillQuiescent, Inner
  <1>4. Runs = {}
    BY <1>2 DEF Runs
  <1>5. CapacityRespected
    <2> SUFFICES ASSUME NEW s \in Spaces, NEW f \in Flows
                 PROVE  Cardinality(Active(s, f)) <= index[s].limit[f]
      BY DEF CapacityRespected
    <2>1. Active(s, f) = {}
      BY <1>4 DEF Active
    <2>2. Cardinality(Active(s, f)) = 0
      BY <2>1, FS_EmptySet
    <2>3. index[s].limit[f] \in Nat
      BY <1>1 DEF TypeInv, TypeOK, Index
    <2> QED
      BY <2>2, <2>3
  <1>6. PinnedToApplied
    BY <1>4 DEF PinnedToApplied
  <1> QED
    BY <1>1, <1>3, <1>5, <1>6 DEF IInv

(* With every start and apply in the daemon's guard, no interleaving of
   startFlowRun, admitAndCreateRun, retryRun, the apply route, ending runs and
   restarts lets a flow have more non-terminal runs than its policy allows. *)
THEOREM CapacityHolds == ASSUME Serialised PROVE Spec => []CapacityRespected
  <1>1. IInv => CapacityRespected
    BY DEF IInv
  <1> QED
    BY <1>1, SerialInit, SerialStep, PTL DEF Spec

(* With every start and apply in the daemon's guard, a run keeps the flow entry
   it was admitted with until it ends. *)
THEOREM RunsStayPinned == ASSUME Serialised PROVE Spec => []PinnedToApplied
  <1>1. IInv => PinnedToApplied
    BY DEF IInv
  <1> QED
    BY <1>1, SerialInit, SerialStep, PTL DEF Spec

(* With every start and apply in the daemon's guard, an index is replaced only
   while its space has no run that has not ended. *)
THEOREM AppliesAreQuiescent == ASSUME Serialised PROVE Spec => ApplyIsQuiescent
  <1>1. IInv /\ [Next]_vars =>
            [\A s \in Spaces : index'[s] # index[s] => ActiveIn(s) = {}]_vars
    <2> SUFFICES ASSUME IInv, [Next]_vars, NEW s \in Spaces, index'[s] # index[s]
                 PROVE  ActiveIn(s) = {}
      OBVIOUS
    <2>0. TypeInv'
      BY NextType DEF IInv
    <2>1. ASSUME NEW c \in Calls, ReplaceSpaceIndex(c) PROVE ActiveIn(s) = {}
      <3>1. s = Request[c].space
        BY <2>1 DEF ReplaceSpaceIndex, IInv, TypeInv, TypeOK
      <3> QED
        BY <2>0, <2>1, <3>1, ReplaceStep
    <2>2. ASSUME NEW c \in Calls, UpsertEphemeralFlowEntry(c) PROVE FALSE
      BY <2>2 DEF UpsertEphemeralFlowEntry, IInv, NoBypass
    <2> QED
      BY <2>1, <2>2 DEF Next, Step, vars, With, LaneRead, BindRead, FindRunByIdempotencyKey,
         GetFlowIndexEntry, FindRunByFlowKey, ListIndexedRunPolicies, AdmitFlowRun, CreateRun,
         RunCreated, ParkRun, AssertSpaceQuiescent, Candidate, LaneCreate, UpdateRunFlowBinding,
         StartBoundRun, RequireInput, Resume, EndRun, MoveRun, Restart
  <1> QED
    BY <1>1, SerialInit, SerialStep, PTL DEF Spec, ApplyIsQuiescent

-----------------------------------------------------------------------------
(* Idempotency keys.  The look-up of startFlowRun and the insert of its run   *)
(* are in one section, so they exclude each other for the starts of a space;   *)
(* the guard of another space does not, which is why KeysAreLocal is needed.   *)

(* A key is used for the starts of a flow in one space only, and the gate that a
   bind approves belongs to an attached run. *)
KeysAreLocal ==
    \A c, d \in Calls :
        /\ /\ Request[c].kind = "start" /\ Request[d].kind = "start"
           /\ Request[c].key # None /\ Request[c].key = Request[d].key
           /\ Request[c].flow = Request[d].flow
           => Request[c].space = Request[d].space
        /\ Request[c].kind = "bind" => Request[Request[c].of].kind = "attach"

LookedUp == {"entry", "runKey", "policy", "count", "insert"}

IsKeyed(c) == Request[c].kind = "start" /\ Request[c].key # None

(* A start that looked its key up is at the head of its chain. *)
StartHolds ==
    \A c \in Calls : IsKeyed(c) /\ pc[c] \in LookedUp => Holds(c)

(* Only a start stores a key, its own, and its run keeps its flow. *)
RowIsOwn ==
    \A r \in Calls :
        run[r] # None /\ run[r].key # None =>
            /\ IsKeyed(r)
            /\ run[r].key = Request[r].key /\ run[r].flow = Request[r].flow

(* What the look-up found is still so when the run is inserted. *)
HasRun(c) ==
    \E r \in Calls : run[r] # None /\ run[r].key = Request[c].key /\ run[r].flow = Request[c].flow

NoneYet ==
    \A c \in Calls : IsKeyed(c) /\ pc[c] \in LookedUp => ~HasRun(c)

(* Only lanes and binds are on their paths outside the guard. *)
OutsideOK ==
    \A c \in Calls :
        /\ pc[c] = "lane" => Request[c].kind = "lane"
        /\ pc[c] \in {"bind", "bound", "starting"} => Request[c].kind = "bind"

KeyInv == TypeInv /\ OutsideOK /\ StartHolds /\ RowIsOwn /\ NoneYet /\ OneRunPerKey

LEMMA OutsideNext == TypeOK /\ OutsideOK /\ [Next]_vars => OutsideOK'
  <1> SUFFICES ASSUME TypeOK, OutsideOK, [Next]_vars PROVE OutsideOK'
    OBVIOUS
  <1>1. ASSUME NEW c \in Calls, NEW label, Goto(c, label),
               label = "lane" => Request[c].kind = "lane",
               label \in {"bind", "bound", "starting"} => Request[c].kind = "bind"
        PROVE  OutsideOK'
    BY <1>1 DEF Goto, TypeOK, OutsideOK
  <1>2. ASSUME NEW c \in Calls, Step(c) PROVE OutsideOK'
    BY <1>1, <1>2 DEF Step, FindRunByIdempotencyKey, GetFlowIndexEntry, FindRunByFlowKey, Answer,
       ListIndexedRunPolicies, AdmitFlowRun, CreateRun, RunCreated, ParkRun, AssertSpaceQuiescent,
       Candidate, ReplaceSpaceIndex, LaneCreate, UpsertEphemeralFlowEntry, UpdateRunFlowBinding,
       StartBoundRun, OutsideOK
  <1>3. ASSUME NEW c \in Calls, With(c) \/ LaneRead(c) \/ BindRead(c) PROVE OutsideOK'
    BY <1>1, <1>3 DEF With, FirstAwait, LaneRead, BindRead
  <1>4. CASE UNCHANGED pc
    BY <1>4 DEF OutsideOK
  <1>5. CASE Restart
    BY <1>5 DEF Restart, OutsideOK
  <1> QED
    BY <1>2, <1>3, <1>4, <1>5 DEF Next, vars, RequireInput, Resume, EndRun, MoveRun

(* No row appears with a key, and rows with one keep it and their flow. *)
KeysKept ==
    \A r \in Calls :
        run'[r] # None /\ run'[r].key # None =>
            run[r] # None /\ run'[r].key = run[r].key /\ run'[r].flow = run[r].flow

LEMMA RowsKept ==
  ASSUME KeyInv, KeysKept
  PROVE  /\ RowIsOwn' /\ OneRunPerKey'
         /\ \A c \in Calls : IsKeyed(c) /\ HasRun(c)' => HasRun(c)
  <1>1. RowIsOwn'
    BY DEF KeyInv, RowIsOwn, KeysKept, IsKeyed
  <1>2. OneRunPerKey'
    BY DEF KeyInv, OneRunPerKey, KeysKept, Runs
  <1>3. ASSUME NEW c \in Calls, IsKeyed(c), HasRun(c)' PROVE HasRun(c)
    <2>1. PICK r \in Calls : run'[r] # None /\ run'[r].key = Request[c].key /\ run'[r].flow = Request[c].flow
      BY <1>3 DEF HasRun
    <2> QED
      BY <1>3, <2>1 DEF HasRun, KeysKept, IsKeyed
  <1> QED
    BY <1>1, <1>2, <1>3

\* A step of one call: what is left to show is that it holds the chain, and found
\* nothing, when its new label says so.
LEMMA KeyStep ==
  ASSUME KeyInv, TypeInv', OutsideOK', KeysKept, NEW c \in Calls, NEW label \in Labels,
         pc' = [pc EXCEPT ![c] = label],
         \/ guard' = guard
         \/ /\ guard' = [guard EXCEPT ![ChainOf(c)] = Append(guard[ChainOf(c)], c)]
            /\ ~(IsKeyed(c) /\ label \in LookedUp)
         \/ /\ guard' = [guard EXCEPT ![ChainOf(c)] = Tail(guard[ChainOf(c)])]
            /\ Holds(c) /\ label \notin LookedUp,
         IsKeyed(c) /\ label \in LookedUp => Holds(c) /\ ~HasRun(c)
  PROVE  KeyInv'
  <1>1. ASSUME NEW d \in Calls, IsKeyed(d), pc'[d] \in LookedUp
        PROVE  Holds(d)' /\ ~HasRun(d)'
    <2>1. guard[ChainOf(d)] \in Seq(Calls) /\ ChainOf(d) \in Chains /\ ChainOf(c) \in Chains
      BY RequestTypes DEF KeyInv, TypeInv, TypeOK
    <2>2. Holds(d) /\ ~HasRun(d)
      BY <1>1 DEF KeyInv, TypeInv, TypeOK, StartHolds, NoneYet
    <2>3. ~HasRun(d)'
      BY <1>1, <2>2, RowsKept
    <2>4. CASE guard' = guard
      BY <2>2, <2>3, <2>4 DEF Holds, ChainOf
    <2>5. guard[ChainOf(d)] # <<>> /\ Head(guard[ChainOf(d)]) = d
      BY <2>2 DEF Holds
    <2>6. CASE /\ guard' = [guard EXCEPT ![ChainOf(c)] = Append(guard[ChainOf(c)], c)]
               /\ ~(IsKeyed(c) /\ label \in LookedUp)
      <3>1. CASE ChainOf(d) = ChainOf(c)
        <4>1. guard'[ChainOf(d)] = Append(guard[ChainOf(d)], c)
          BY <2>1, <2>6, <3>1 DEF KeyInv, TypeInv, TypeOK
        <4>2. guard'[ChainOf(d)] # <<>> /\ Head(guard'[ChainOf(d)]) = d
          BY <2>1, <2>5, <4>1
        <4> QED
          BY <2>3, <4>2 DEF Holds, ChainOf
      <3>2. CASE ChainOf(d) # ChainOf(c)
        <4>1. guard'[ChainOf(d)] = guard[ChainOf(d)]
          BY <2>1, <2>6, <3>2 DEF KeyInv, TypeInv, TypeOK
        <4> QED
          BY <2>3, <2>5, <4>1 DEF Holds, ChainOf
      <3> QED
        BY <3>1, <3>2
    <2>7. CASE /\ guard' = [guard EXCEPT ![ChainOf(c)] = Tail(guard[ChainOf(c)])]
               /\ Holds(c) /\ label \notin LookedUp
      <3>1. d # c
        BY <1>1, <2>7 DEF KeyInv, TypeInv, TypeOK
      <3>2. ChainOf(d) # ChainOf(c)
        BY <2>5, <2>7, <3>1 DEF Holds
      <3>3. guard'[ChainOf(d)] = guard[ChainOf(d)]
        BY <2>1, <2>7, <3>2 DEF KeyInv, TypeInv, TypeOK
      <3> QED
        BY <2>3, <2>5, <3>3 DEF Holds, ChainOf
    <2> QED
      BY <2>4, <2>6, <2>7
  <1>2. StartHolds' /\ NoneYet'
    BY <1>1 DEF StartHolds, NoneYet, IsKeyed
  <1> QED
    BY <1>2, RowsKept DEF KeyInv

\* A step at a label of a section that settles it or goes on.
LEMMA KeySection ==
  ASSUME KeyInv, TypeInv', OutsideOK', KeysKept, NEW c \in Calls, Holds(c), NEW label \in Labels, Goto(c, label),
         guard' = guard \/ (Settle(c) /\ label \notin LookedUp),
         label \in LookedUp => pc[c] \in LookedUp \/ ~IsKeyed(c) \/ ~HasRun(c)
  PROVE  KeyInv'
  <1>1. pc' = [pc EXCEPT ![c] = label]
    BY DEF Goto
  <1>2. Settle(c) => guard' = [guard EXCEPT ![ChainOf(c)] = Tail(guard[ChainOf(c)])]
    BY DEF Settle
  <1>3. IsKeyed(c) /\ label \in LookedUp => Holds(c) /\ ~HasRun(c)
    BY DEF KeyInv, NoneYet
  <1> QED
    BY <1>1, <1>2, <1>3, KeyStep

\* The insert of a start: the other starts of its key and flow are in its chain.
LEMMA KeyInsert ==
  ASSUME KeysAreLocal, KeyInv, TypeInv', OutsideOK', NEW c \in Calls, Holds(c), pc[c] = "insert",
         IsKeyed(c),
         pc' = [pc EXCEPT ![c] = "inserted"], UNCHANGED guard,
         run' = [run EXCEPT ![c] = NewRun(c, Request[c].flow, digest[c])]
  PROVE  KeyInv'
  <1>1. /\ run'[c].key = Request[c].key /\ run'[c].flow = Request[c].flow
        /\ \A r \in Calls : r # c => run'[r] = run[r]
    BY DEF KeyInv, TypeInv, TypeOK, NewRun, IsKeyed
  <1>2. ~HasRun(c)
    BY DEF KeyInv, NoneYet, LookedUp
  <1>3. RowIsOwn'
    BY <1>1 DEF KeyInv, RowIsOwn, IsKeyed
  <1>4. OneRunPerKey'
    <2> SUFFICES ASSUME NEW r \in Calls, NEW s \in Calls, run'[r] # None, run'[s] # None,
                        run'[r].key # None, run'[r].key = run'[s].key, run'[r].flow = run'[s].flow
                 PROVE  r = s
      BY DEF OneRunPerKey, Runs
    <2>1. CASE r # c /\ s # c
      BY <1>1, <2>1 DEF KeyInv, OneRunPerKey, Runs
    <2>2. CASE r = c \/ s = c
      BY <1>1, <1>2, <2>2 DEF HasRun
    <2> QED
      BY <2>1, <2>2
  <1>5. ASSUME NEW d \in Calls, IsKeyed(d), pc'[d] \in LookedUp PROVE Holds(d)' /\ ~HasRun(d)'
    <2>1. d # c /\ pc[d] \in LookedUp
      BY <1>5 DEF KeyInv, TypeInv, TypeOK, LookedUp
    <2>2. Holds(d) /\ ~HasRun(d)
      BY <1>5, <2>1 DEF KeyInv, StartHolds, NoneYet
    <2>3. ~(Request[d].key = Request[c].key /\ Request[d].flow = Request[c].flow)
      <3> SUFFICES ASSUME Request[d].key = Request[c].key, Request[d].flow = Request[c].flow
                   PROVE  FALSE
        OBVIOUS
      <3>1. Request[c].space = Request[d].space
        BY <1>5 DEF KeysAreLocal, IsKeyed
      <3>2. ChainOf(c) = ChainOf(d)
        BY <1>5, <3>1 DEF ChainOf, IsKeyed
      <3> QED
        BY <2>1, <2>2, <3>2 DEF Holds
    <2>4. Holds(d)'
      BY <2>2 DEF Holds, ChainOf
    <2>5. ~HasRun(d)'
      BY <1>1, <2>2, <2>3 DEF HasRun
    <2> QED
      BY <2>4, <2>5
  <1>6. StartHolds' /\ NoneYet'
    BY <1>5 DEF StartHolds, NoneYet, IsKeyed
  <1> QED
    BY <1>3, <1>4, <1>6 DEF KeyInv

LEMMA KeyNext == KeysAreLocal /\ KeyInv /\ [Next]_vars => KeyInv'
  <1> SUFFICES ASSUME KeysAreLocal, KeyInv, [Next]_vars PROVE KeyInv'
    OBVIOUS
  <1>0. TypeInv' /\ OutsideOK'
    BY NextType, OutsideNext DEF KeyInv, TypeInv
  <1>a. ASSUME UNCHANGED run PROVE KeysKept
    BY <1>a DEF KeysKept
  <1>b. ASSUME NEW r \in Calls, NEW life \in Lifecycles, run[r] # None,
               run' = [run EXCEPT ![r] = WithLife(run[r], life)]
        PROVE  KeysKept
    BY <1>b DEF KeysKept, WithLife, KeyInv, TypeInv, TypeOK, RunRow
  <1>c. ASSUME NEW c \in Calls, NEW label \in Labels \ LookedUp, At(c, pc[c]), Goto(c, label), Settle(c), UNCHANGED run
        PROVE  KeyInv'
    BY <1>0, <1>a, <1>c, KeySection DEF At
  <1>d. ASSUME NEW c \in Calls, NEW r, At(c, pc[c]), Answer(c, r), UNCHANGED run
        PROVE  KeyInv'
    <2>1. "done" \in Labels \ LookedUp
      BY DEF Labels, LookedUp
    <2> QED
      BY <1>c, <1>d, <2>1 DEF Answer
  <1>e. ASSUME NEW c \in Calls, NEW label \in Labels, At(c, pc[c]), Goto(c, label), UNCHANGED <<guard, run>>,
               label \in LookedUp => pc[c] \in LookedUp
        PROVE  KeyInv'
    BY <1>0, <1>a, <1>e, KeySection DEF At
  <1>f. ASSUME NEW c \in Calls, NEW label \in Labels \ LookedUp, Goto(c, label), UNCHANGED guard, KeysKept
        PROVE  KeyInv'
    <2>1. pc' = [pc EXCEPT ![c] = label]
      BY <1>f DEF Goto
    <2> QED
      BY <1>0, <1>f, <2>1, KeyStep
  <1>1. ASSUME NEW c \in Calls, With(c) PROVE KeyInv'
    <2>1. FirstAwait(Request[c].kind) \in Labels
      BY DEF FirstAwait, Labels
    <2>2. ~(IsKeyed(c) /\ FirstAwait(Request[c].kind) \in LookedUp)
      BY DEF FirstAwait, LookedUp, IsKeyed
    <2>3. /\ pc' = [pc EXCEPT ![c] = FirstAwait(Request[c].kind)]
          /\ guard' = [guard EXCEPT ![ChainOf(c)] = Append(guard[ChainOf(c)], c)]
          /\ KeysKept
      BY <1>1, <1>a DEF With, Goto
    <2> QED
      BY <1>0, <2>1, <2>2, <2>3, KeyStep
  <1>2. ASSUME NEW c \in Calls, FindRunByIdempotencyKey(c) PROVE KeyInv'
    <2>1. At(c, pc[c]) /\ UNCHANGED run
      BY <1>2 DEF FindRunByIdempotencyKey, At
    <2>2. CASE Request[c].key # None /\ SameKey(c) # {}
      BY <1>2, <1>d, <2>1, <2>2 DEF FindRunByIdempotencyKey
    <2>3. CASE ~(Request[c].key # None /\ SameKey(c) # {})
      <3>1. Goto(c, "entry") /\ guard' = guard /\ "entry" \in Labels
        BY <1>2, <2>3 DEF FindRunByIdempotencyKey, Labels
      <3>2. ~IsKeyed(c) \/ ~HasRun(c)
        BY <2>3 DEF IsKeyed, HasRun, SameKey, Runs
      <3> QED
        BY <1>0, <1>a, <2>1, <3>1, <3>2, KeySection DEF At
    <2> QED
      BY <2>2, <2>3
  <1>3. ASSUME NEW c \in Calls, GetFlowIndexEntry(c) PROVE KeyInv'
    <2>1. At(c, pc[c]) /\ UNCHANGED run /\ pc[c] \in LookedUp
      BY <1>3 DEF GetFlowIndexEntry, At, LookedUp
    <2>2. {"insert", "runKey", "policy"} \subseteq Labels
      BY DEF Labels, Inner
    <2>3. \/ \E label \in {"insert", "runKey", "policy"} : Goto(c, label) /\ UNCHANGED guard
          \/ Answer(c, None)
      BY <1>3 DEF GetFlowIndexEntry
    <2> QED
      BY <1>d, <1>e, <2>1, <2>2, <2>3
  <1>4. ASSUME NEW c \in Calls, FindRunByFlowKey(c) PROVE KeyInv'
    <2>1. At(c, pc[c]) /\ UNCHANGED run /\ pc[c] \in LookedUp /\ "policy" \in Labels
      BY <1>4 DEF FindRunByFlowKey, At, LookedUp, Labels, Inner
    <2> QED
      BY <1>4, <1>d, <1>e, <2>1 DEF FindRunByFlowKey
  <1>5. ASSUME NEW c \in Calls, ListIndexedRunPolicies(c) PROVE KeyInv'
    <2>1. At(c, pc[c]) /\ UNCHANGED <<guard, run>> /\ pc[c] \in LookedUp /\ {"insert", "count"} \subseteq Labels
      BY <1>5 DEF ListIndexedRunPolicies, At, LookedUp, Labels, Inner
    <2> QED
      BY <1>5, <1>e, <2>1 DEF ListIndexedRunPolicies
  <1>6. ASSUME NEW c \in Calls, AdmitFlowRun(c) PROVE KeyInv'
    <2>1. At(c, pc[c]) /\ UNCHANGED run /\ pc[c] \in LookedUp /\ "insert" \in Labels
      BY <1>6 DEF AdmitFlowRun, At, LookedUp, Labels, Inner
    <2> QED
      BY <1>6, <1>d, <1>e, <2>1 DEF AdmitFlowRun
  <1>7. ASSUME NEW c \in Calls, CreateRun(c) PROVE KeyInv'
    <2>1. At(c, pc[c]) /\ Holds(c) /\ pc[c] = "insert"
      BY <1>7 DEF CreateRun, At
    <2>2. CASE Answer(c, None) /\ UNCHANGED run
      BY <1>d, <2>1, <2>2
    <2> DEFINE f == IF Request[c].kind \in {"attach", "invoke"} THEN None ELSE Request[c].flow
    <2>3. CASE /\ run' = [run EXCEPT ![c] = NewRun(c, f, digest[c])]
               /\ Goto(c, "inserted") /\ UNCHANGED guard
      <3>1. CASE IsKeyed(c)
        <4>1. f = Request[c].flow
          BY <3>1 DEF IsKeyed
        <4> QED
          BY <1>0, <2>1, <2>3, <3>1, <4>1, KeyInsert DEF Goto
      <3>2. CASE ~IsKeyed(c)
        <4>1. NewRun(c, f, digest[c]).key = None
          BY <3>2 DEF NewRun, IsKeyed
        <4>2. KeysKept
          <5> HIDE DEF f
          <5> QED
            BY <2>3, <4>1 DEF KeysKept, KeyInv, TypeInv, TypeOK
        <4>3. "inserted" \in Labels \ LookedUp
          BY DEF Labels, Inner, LookedUp
        <4> QED
          BY <1>f, <2>3, <4>2, <4>3
      <3> QED
        BY <3>1, <3>2
    <2> QED
      BY <1>7, <2>2, <2>3 DEF CreateRun
  <1>8. ASSUME NEW c \in Calls, RunCreated(c) PROVE KeyInv'
    <2>1. At(c, pc[c]) /\ UNCHANGED run /\ Settle(c)
      BY <1>8 DEF RunCreated, At
    <2>2. {"park", "done"} \subseteq Labels \ LookedUp
      BY DEF Labels, LookedUp
    <2> QED
      BY <1>8, <1>c, <2>1, <2>2 DEF RunCreated
  <1>9. ASSUME NEW c \in Calls, ParkRun(c) PROVE KeyInv'
    <2>1. run[c] # None /\ "input-required" \in Lifecycles /\ "done" \in Labels \ LookedUp
      BY <1>9 DEF ParkRun, KeyInv, TypeInv, WorkOK, Lifecycles, Labels, LookedUp
    <2> QED
      BY <1>9, <1>b, <1>f, <2>1 DEF ParkRun
  <1>10. ASSUME NEW c \in Calls, AssertSpaceQuiescent(c) PROVE KeyInv'
    <2>1. At(c, pc[c]) /\ UNCHANGED run /\ "candidate" \in Labels \ LookedUp
      BY <1>10 DEF AssertSpaceQuiescent, At, Labels, Inner, LookedUp
    <2> QED
      BY <1>10, <1>d, <1>e, <2>1 DEF AssertSpaceQuiescent
  <1>11. ASSUME NEW c \in Calls, Candidate(c) PROVE KeyInv'
    <2>1. At(c, pc[c]) /\ UNCHANGED run /\ "commit" \in Labels \ LookedUp
      BY <1>11 DEF Candidate, At, Labels, Inner, LookedUp
    <2> QED
      BY <1>11, <1>d, <1>e, <2>1 DEF Candidate
  <1>12. ASSUME NEW c \in Calls, ReplaceSpaceIndex(c) PROVE KeyInv'
    <2>1. At(c, pc[c]) /\ UNCHANGED run
      BY <1>12 DEF ReplaceSpaceIndex, At
    <2> QED
      BY <1>12, <1>d, <2>1 DEF ReplaceSpaceIndex
  <1>13. ASSUME NEW c \in Calls, LaneRead(c) \/ BindRead(c) \/ UpsertEphemeralFlowEntry(c) PROVE KeyInv'
    <2>1. {"lane", "bind", "bound"} \subseteq Labels \ LookedUp
      BY DEF Labels, LookedUp
    <2> QED
      BY <1>13, <1>a, <1>f, <2>1 DEF LaneRead, BindRead, UpsertEphemeralFlowEntry
  <1>14. ASSUME NEW c \in Calls, LaneCreate(c) PROVE KeyInv'
    <2>1. Request[c].kind = "lane"
      BY <1>14 DEF LaneCreate, KeyInv, OutsideOK
    <2>2. NewRun(c, Request[c].flow, digest[c]).key = None
      BY <2>1 DEF NewRun
    <2>3. KeysKept
      BY <1>14, <2>2 DEF LaneCreate, KeysKept, KeyInv, TypeInv, TypeOK
    <2> QED
      BY <1>14, <1>f, <2>3 DEF LaneCreate, Labels, LookedUp
  <1>15. ASSUME NEW c \in Calls, UpdateRunFlowBinding(c) PROVE KeyInv'
    <2> DEFINE r == Request[c].of
    <2>1. r \in Calls /\ run[r] # None /\ Request[r].kind = "attach"
      BY <1>15, RequestTypes DEF UpdateRunFlowBinding, KeyInv, OutsideOK, TypeInv, WorkOK, KeysAreLocal
    <2>2. run[r].key = None
      BY <2>1 DEF KeyInv, RowIsOwn, IsKeyed
    <2>3. KeysKept
      BY <1>15, <2>1, <2>2 DEF UpdateRunFlowBinding, KeysKept, WithFlow, KeyInv, TypeInv, TypeOK
    <2> QED
      BY <1>15, <1>f, <2>3 DEF UpdateRunFlowBinding, Labels, LookedUp
  <1>16. ASSUME NEW c \in Calls, StartBoundRun(c) PROVE KeyInv'
    <2>1. Request[c].of \in Calls /\ run[Request[c].of] # None
      BY <1>16, RequestTypes DEF StartBoundRun, KeyInv, TypeInv, WorkOK
    <2>2. "working" \in Lifecycles /\ "done" \in Labels \ LookedUp
      BY DEF Lifecycles, Labels, LookedUp
    <2>3. KeysKept
      BY <1>16, <1>a, <1>b, <2>1, <2>2 DEF StartBoundRun
    <2> QED
      BY <1>16, <1>f, <2>2, <2>3 DEF StartBoundRun
  <1>17. ASSUME KeysKept, UNCHANGED <<guard, pc>> PROVE KeyInv'
    <2>1. StartHolds'
      BY <1>17 DEF KeyInv, StartHolds, Holds, IsKeyed, ChainOf
    <2>2. NoneYet'
      BY <1>17, RowsKept DEF KeyInv, NoneYet, IsKeyed
    <2> QED
      BY <1>0, <1>17, <2>1, <2>2, RowsKept DEF KeyInv
  <1>18. ASSUME NEW r \in Calls, NEW from, NEW to \in Lifecycles, MoveRun(r, from, to) PROVE KeyInv'
    <2>1. run[r] # None
      BY <1>18 DEF MoveRun, Runs
    <2>2. KeysKept
      BY <1>18, <1>b, <2>1 DEF MoveRun
    <2> QED
      BY <1>17, <1>18, <2>2 DEF MoveRun
  <1>19. CASE Restart
    <2>1. KeysKept
      BY <1>19 DEF Restart, KeysKept, WithLife
    <2>2. \A c \in Calls : pc'[c] \notin LookedUp
      BY <1>19 DEF Restart, LookedUp
    <2> QED
      BY <1>0, <2>1, <2>2, RowsKept DEF KeyInv, StartHolds, NoneYet
  <1>20. CASE UNCHANGED vars
    BY <1>17, <1>20, <1>a DEF vars
  <1>21. {"completed", "failed", "cancelled", "working", "input-required"} \subseteq Lifecycles
    BY DEF Lifecycles
  <1> QED
    BY <1>1, <1>2, <1>3, <1>4, <1>5, <1>6, <1>7, <1>8, <1>9, <1>10, <1>11, <1>12, <1>13, <1>14, <1>15,
       <1>16, <1>18, <1>19, <1>20, <1>21 DEF Next, Step, RequireInput, Resume, EndRun

LEMMA KeyInit == Init => KeyInv
  <1> SUFFICES ASSUME Init PROVE KeyInv
    OBVIOUS
  <1>1. \A c \in Calls : run[c] = None /\ pc[c] = "idle"
    BY DEF Init
  <1> QED
    BY <1>1, InitType DEF KeyInv, OutsideOK, StartHolds, RowIsOwn, NoneYet, OneRunPerKey, Runs, LookedUp

(* Whatever starts, creates, retries, invokes, lanes, attaches, binds and applies
   race, and through restarts, the starts of a flow under one idempotency key
   create one run, when the key is used in one space (the guard of startFlowRun is
   the space's, its look-up is not). *)
THEOREM KeysDeduplicate == ASSUME KeysAreLocal PROVE Spec => []OneRunPerKey
  <1>1. KeyInv => OneRunPerKey
    BY DEF KeyInv
  <1> QED
    BY <1>1, KeyInit, KeyNext, PTL DEF Spec
=============================================================================
