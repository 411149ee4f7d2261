----------------------- MODULE CapsuleLifecycleProofs ------------------------
(***************************************************************************)
(* Proofs about CapsuleLifecycle, for any capsules, operations, volumes,      *)
(* files and bounds.  First types, ownership and ledger:                     *)
(*                                                                           *)
(* The type invariant is stronger than TypeOK: it types the calls on their   *)
(* way to the provider and says that only accepted operations have an        *)
(* executor.  The ownership invariant adds to OwnershipIsMutual that a       *)
(* capsule has at most one owner, which the unique index gives: without it a *)
(* second owner could end and leave the capsule at rest under the first.     *)
(*                                                                           *)
(* Every capsule operation implements OperationLedger.  The invariant behind  *)
(* that says where an executor can be while its row says what: a provider    *)
(* call is only made from a step that the committed intent of a running row  *)
(* leads to, and a compensation reported as complete is one whose effects    *)
(* were seen undone.                                                         *)
(***************************************************************************)
EXTENDS CapsuleLifecycle, TLAPS

Steps ==
  {"none", "claim", "materialize", "intent", "begin", "call", "await", "record",
   "complete", "compensate", "delete", "await_delete", "await_stop", "classify",
   "revoke", "verify", "commit", "undo", "recheck", "plan", "retire", "fence",
   "next", "after"}
Flags ==
  {"intent", "attempted", "uncertain", "stuck", "compensated", "claimed", "observed",
   "offline", "started", "final"}
ExecType ==
  [step : Steps, item : Items, reply : Replies, scope : SUBSET Items,
   gone : SUBSET Items, flags : SUBSET Flags]
CallType == [verb : {"make", "drop", "stop"}, capsule : Capsules, item : Items, op : OpIds]
TargetType == UNION {[D -> TargetStatuses] : D \in SUBSET Items}
WorkerType ==
  [phase : {"serving", "down", "classifying"}, boots : Nat, todo : SUBSET OpIds]
PictureType ==
  [capsule : CapsuleType, objects : SUBSET (Capsules \X Items), usable : SUBSET OpIds]
HistoryType ==
  [before : [Capsules -> PictureType], touched : SUBSET OpIds,
   witnessed : SUBSET OpIds, dirty : SUBSET OpIds, drifts : Nat]

RowsTyped ==
  /\ op \in [OpIds -> OpType]
  /\ capsule \in [Capsules -> CapsuleType]
  /\ rows \in [Capsules -> [Inventory -> RowStatuses]]
  /\ capture \in [OpIds -> [Versioned -> RowStatuses]]
  /\ snapshot \in [OpIds -> {"none", "committed", "retired"}]
  /\ target \in [OpIds -> TargetType]
ProcessTyped ==
  /\ exec \in [OpIds -> ExecType]
  /\ worker \in WorkerType
ProviderTyped ==
  /\ exists \subseteq Capsules \X Items
  /\ pending \subseteq CallType
  /\ running \subseteq Capsules
AcceptedOnly ==
  \A o \in OpIds :
    /\ op[o].status # "absent" => op[o].capsule \in Capsules
    /\ exec[o].step # "none" => op[o].status # "absent"
TypeInv ==
  /\ RowsTyped /\ ProcessTyped /\ ProviderTyped
  /\ history \in HistoryType
  /\ AcceptedOnly

(* Where items come from.                                                   *)
LEMMA ItemsContain ==
  /\ Inventory \subseteq Items /\ Managed \subseteq Inventory
  /\ NoItem \in Items /\ Route \in Items /\ Project \in Items /\ BindMount \in Items
  /\ \A o \in OpIds : Captured(o) \subseteq Items
  /\ \A o \in OpIds, v \in Versioned : Snapshot(v, o) \in Captured(o)
  BY DEF Items, Inventory, Managed, Captured

LEMMA InitTypeInv == Init => TypeInv
<1> SUFFICES ASSUME Init PROVE TypeInv
  OBVIOUS
<1>1. NoItem \in Items
  BY ItemsContain
<1>2. RowsTyped
  <2>1. NoOp \in OpType
    BY DEF NoOp, OpType, Types
  <2>2. NoCapsule \in CapsuleType
    BY DEF NoCapsule, CapsuleType, CapsuleStatuses, BranchStatuses
  <2>3. Unmade \in [Inventory -> RowStatuses]
    BY DEF Unmade, RowStatuses
  <2>4. NoTargets \in TargetType
    <3>1. NoTargets \in [{} -> TargetStatuses]
      BY DEF NoTargets
    <3> QED BY <3>1 DEF TargetType
  <2> QED BY <2>1, <2>2, <2>3, <2>4 DEF Init, RowsTyped, RowStatuses
<1>3. ProcessTyped
  <2>1. Idle \in ExecType
    BY <1>1 DEF ExecType, Idle, Replies, Steps
  <2>2. worker \in WorkerType
    BY DEF Init, WorkerType
  <2> QED BY <2>1, <2>2 DEF Init, ProcessTyped
<1>4. ProviderTyped
  BY DEF Init, ProviderTyped
<1>5. history \in HistoryType
  <2>1. \A c \in Capsules : Picture(c) \in PictureType
    BY <1>2, <1>4 DEF Picture, PictureType, RowsTyped, ProviderTyped
  <2> QED BY <2>1 DEF Init, InitialHistory, HistoryType
<1>6. AcceptedOnly
  BY DEF Init, AcceptedOnly, NoOp, Idle
<1> QED BY <1>2, <1>3, <1>4, <1>5, <1>6 DEF TypeInv

-----------------------------------------------------------------------------
(* An executor that is somewhere belongs to an accepted operation.           *)
LEMMA Executes ==
  ASSUME TypeInv, NEW o \in OpIds, exec[o].step # "none"
  PROVE  /\ exec[o] \in ExecType /\ op[o] \in OpType
         /\ op[o].status # "absent" /\ CapsuleOf(o) \in Capsules
  BY DEF TypeInv, RowsTyped, ProcessTyped, AcceptedOnly, CapsuleOf

(* The executor moves, and no operation is forgotten or changes its capsule. *)
KeepsRows ==
  /\ op' \in [OpIds -> OpType]
  /\ \A p \in OpIds :
       /\ op[p].status # "absent" <=> op'[p].status # "absent"
       /\ op'[p].capsule = op[p].capsule

LEMMA UnchangedKeeps == TypeInv /\ UNCHANGED op => KeepsRows
  BY DEF KeepsRows, TypeInv, RowsTyped

LEMMA StatusKeeps ==
  ASSUME TypeInv, NEW o \in OpIds, op[o].status # "absent",
         NEW status \in Nonterminal \cup Terminal, SetStatus(o, status)
  PROVE  KeepsRows
<1>1. op \in [OpIds -> OpType] /\ status # "absent"
  BY DEF TypeInv, RowsTyped, Nonterminal, Terminal
<1>2. [op[o] EXCEPT !.status = status] \in OpType
  BY <1>1 DEF OpType, Nonterminal, Terminal
<1>3. op' = [op EXCEPT ![o] = [op[o] EXCEPT !.status = status]]
  BY DEF SetStatus
<1>4. op'[o].status = status /\ op'[o].capsule = op[o].capsule
  BY <1>1, <1>3 DEF OpType
<1> QED BY <1>1, <1>2, <1>3, <1>4 DEF KeepsRows

LEMMA ClaimKeeps ==
  ASSUME TypeInv, NEW o \in OpIds, ClaimRow(o)
  PROVE  KeepsRows
  BY DEF KeepsRows, TypeInv, RowsTyped, ClaimRow, OpType, Nonterminal, Terminal

LEMMA IntentKeeps ==
  ASSUME TypeInv, NEW o \in OpIds, op' = [op EXCEPT ![o].intent = TRUE]
  PROVE  KeepsRows
  BY DEF KeepsRows, TypeInv, RowsTyped, OpType

LEMMA MoveTyped ==
  ASSUME TypeInv, NEW o \in OpIds, exec[o].step # "none",
         NEW e \in ExecType, Becomes(o, e), UNCHANGED worker, KeepsRows
  PROVE  ProcessTyped' /\ AcceptedOnly'
<1>1. op[o].status # "absent"
  BY Executes
<1>2. ProcessTyped'
  BY DEF TypeInv, ProcessTyped, Becomes
<1>3. \A p \in OpIds : p # o => exec'[p] = exec[p]
  BY DEF TypeInv, ProcessTyped, Becomes
<1>4. ASSUME NEW p \in OpIds
      PROVE  /\ op'[p].status # "absent" => op'[p].capsule \in Capsules
             /\ exec'[p].step # "none" => op'[p].status # "absent"
  <2>1. /\ op[p].status # "absent" <=> op'[p].status # "absent"
        /\ op'[p].capsule = op[p].capsule
    BY DEF KeepsRows
  <2>2. /\ op[p].status # "absent" => op[p].capsule \in Capsules
        /\ exec[p].step # "none" => op[p].status # "absent"
    BY DEF TypeInv, AcceptedOnly
  <2> QED BY <1>1, <1>3, <2>1, <2>2
<1> QED BY <1>2, <1>4 DEF AcceptedOnly

(* A step that moves nothing but the executor.                              *)
LEMMA PureMove ==
  ASSUME TypeInv, NEW o \in OpIds, exec[o].step # "none",
         NEW e \in ExecType, Becomes(o, e),
         UNCHANGED <<rowVars, worker, providerVars, history>>
  PROVE  TypeInv'
<1>1. ProcessTyped' /\ AcceptedOnly'
  BY MoveTyped, UnchangedKeeps DEF rowVars
<1> QED BY <1>1 DEF TypeInv, RowsTyped, ProviderTyped, rowVars, providerVars

LEMMA SubmitTyped ==
  ASSUME TypeInv, NEW o \in OpIds, exec[o].step # "none",
         NEW verb \in {"make", "drop", "stop"}, NEW item \in Items, Submit(o, verb, item),
         NEW e \in ExecType, Becomes(o, e)
  PROVE  TypeInv'
<1>1. CapsuleOf(o) \in Capsules
  BY Executes
<1>2. ProviderTyped'
  BY <1>1 DEF TypeInv, ProviderTyped, Submit, Call, CallType
<1>3. history' \in HistoryType
  BY DEF TypeInv, HistoryType, Submit
<1>4. ProcessTyped' /\ AcceptedOnly'
  BY MoveTyped, UnchangedKeeps DEF Submit, rowVars
<1> QED BY <1>2, <1>3, <1>4 DEF TypeInv, RowsTyped, Submit, rowVars

LEMMA WitnessTyped ==
  ASSUME TypeInv, NEW o \in OpIds,
         \/ UNCHANGED history
         \/ history' = [history EXCEPT !.witnessed = @ \cup (history.touched \cap {o})]
         \/ history' = [history EXCEPT !.touched = @ \cup {o}]
  PROVE  history' \in HistoryType
  BY DEF TypeInv, HistoryType

-----------------------------------------------------------------------------
(* Create.                                                                  *)
LEMMA CreateCaughtTyped ==
  ASSUME TypeInv, NEW e \in ExecType
  PROVE  CreateCaught(e) \in ExecType /\ CreateCaught(Uncertain(e)) \in ExecType
  BY ItemsContain DEF CreateCaught, Uncertain, MayCompensate, ExecType, Replies, Steps, Flags

LEMMA CreateSettlesTyped ==
  ASSUME TypeInv, NEW o \in OpIds, op[o].status # "absent", NEW safe \in BOOLEAN, Settles(o, safe)
  PROVE  KeepsRows /\ RowsTyped' /\ ProviderTyped' /\ history' \in HistoryType
<1>1. KeepsRows
  BY StatusKeeps DEF Settles, Terminal
<1>2. capsule' \in [Capsules -> CapsuleType]
  BY DEF Settles, TypeInv, RowsTyped, CapsuleType, CapsuleStatuses, BranchStatuses
<1> QED BY <1>1, <1>2 DEF Settles, KeepsRows, TypeInv, RowsTyped, ProviderTyped, providerVars

LEMMA CreateTyped ==
  ASSUME TypeInv, NEW o \in OpIds, CreateStep(o)
  PROVE  TypeInv'
<1> DEFINE e == exec[o]
<1> USE DEF At, SetRow
<1>1. exec[o].step # "none"
  BY DEF CreateStep, CreateThrows, CreateClaim, CreateMaterialize, CreateCommitIntent,
         CreateBegin, CreateCall, CreateReturns, CreateRecord, CreateItemFails, CreateAttempt,
         CreateComplete, CompensateBegin, CompensateCall, CompensateReturns, CompensateFails,
         CompensateFile, CompensationEnds, CreateFail
<1>2. e \in ExecType /\ CapsuleOf(o) \in Capsules /\ op[o].status # "absent" /\ op[o] \in OpType
  BY <1>1, Executes
<1>3. CreateCaught(e) \in ExecType /\ CreateCaught(Uncertain(e)) \in ExecType
  BY <1>2, CreateCaughtTyped
<1>4. Idle \in ExecType
  BY ItemsContain DEF Idle, ExecType, Replies, Steps
<1> HIDE DEF e
(* What most transactions of create do: they set one row and move on.       *)
<1>5. ASSUME NEW f \in ExecType, Becomes(o, f),
             \/ UNCHANGED rows
             \/ \E i \in Items, status \in RowStatuses : SetRow(o, i, status),
             UNCHANGED <<op, capsule, capture, snapshot, target, worker, providerVars, history>>
      PROVE  TypeInv'
  <2>1. ProcessTyped' /\ AcceptedOnly'
    BY <1>1, <1>5, MoveTyped, UnchangedKeeps
  <2>2. rows' \in [Capsules -> [Inventory -> RowStatuses]]
    <3>1. CASE UNCHANGED rows
      BY <3>1 DEF TypeInv, RowsTyped
    <3>2. ASSUME NEW i \in Items, NEW status \in RowStatuses, SetRow(o, i, status)
          PROVE  rows' \in [Capsules -> [Inventory -> RowStatuses]]
      BY <1>2, <3>2 DEF TypeInv, RowsTyped
    <3> QED BY <1>5, <3>1, <3>2
  <2> QED BY <1>5, <2>1, <2>2 DEF TypeInv, RowsTyped, ProviderTyped, providerVars
<1>6. CASE CreateThrows(o)
  BY <1>1, <1>3, <1>6, PureMove DEF CreateThrows, e
<1>7. CASE CreateClaim(o)
  <2>1. PICK f \in ExecType : Becomes(o, f)
    BY <1>2, <1>3, <1>7 DEF CreateClaim, Acknowledged, ExecType, Steps, e
  <2>2. KeepsRows
    BY <1>7, ClaimKeeps DEF CreateClaim
  <2>3. ProcessTyped' /\ AcceptedOnly'
    BY <1>1, <1>7, <2>1, <2>2, MoveTyped DEF CreateClaim
  <2> QED BY <1>7, <2>2, <2>3 DEF CreateClaim, KeepsRows, TypeInv, RowsTyped, ProviderTyped, providerVars
<1>8. CASE CreateMaterialize(o)
  <2>1. PICK f \in ExecType : Becomes(o, f)
    BY <1>2, <1>3, <1>8 DEF CreateMaterialize, Acknowledged, ExecType, Steps, e
  <2>2. ProcessTyped' /\ AcceptedOnly'
    BY <1>1, <1>8, <2>1, MoveTyped, UnchangedKeeps DEF CreateMaterialize
  <2>3. rows' \in [Capsules -> [Inventory -> RowStatuses]]
    BY <1>8 DEF CreateMaterialize, TypeInv, RowsTyped, RowStatuses
  <2> QED BY <1>8, <2>2, <2>3 DEF CreateMaterialize, TypeInv, RowsTyped, ProviderTyped, providerVars
<1>9. CASE CreateCommitIntent(o)
  <2>1. PICK f \in ExecType : Becomes(o, f)
    BY <1>2, <1>3, <1>9 DEF CreateCommitIntent, Acknowledged, ExecType, Steps, Flags, e
  <2>2. KeepsRows
    BY <1>9, IntentKeeps DEF CreateCommitIntent
  <2>3. ProcessTyped' /\ AcceptedOnly'
    BY <1>1, <1>9, <2>1, <2>2, MoveTyped DEF CreateCommitIntent
  <2> QED BY <1>9, <2>2, <2>3 DEF CreateCommitIntent, KeepsRows, TypeInv, RowsTyped, ProviderTyped, providerVars
<1>10. ASSUME NEW i \in Inventory, CreateBegin(o, i) PROVE TypeInv'
  <2>1. PICK f \in ExecType : Becomes(o, f)
    BY <1>2, <1>3, <1>10, ItemsContain DEF CreateBegin, Acknowledged, ExecType, Steps, e
  <2> QED BY <1>5, <1>10, <2>1, ItemsContain DEF CreateBegin, RowStatuses
<1>11. CASE CreateCall(o)
  <2>1. [exec[o] EXCEPT !.step = "await"] \in ExecType /\ [exec[o] EXCEPT !.step = "record"] \in ExecType
    BY <1>2 DEF e, ExecType, Steps
  <2>2. CASE exec[o].item \in Managed
    BY <1>1, <1>2, <1>11, <2>1, <2>2, SubmitTyped DEF CreateCall, Goto, e, ExecType
  <2>3. CASE exec[o].item \notin Managed
    <3>1. ProcessTyped' /\ AcceptedOnly'
      BY <1>1, <1>11, <2>1, <2>3, MoveTyped, UnchangedKeeps DEF CreateCall, Goto, rowVars
    <3>2. history' \in HistoryType
      BY <1>11, <2>3, WitnessTyped DEF CreateCall
    <3> QED BY <1>11, <2>3, <3>1, <3>2 DEF CreateCall, TypeInv, RowsTyped, ProviderTyped, rowVars, providerVars
  <2> QED BY <2>2, <2>3
<1>12. CASE CreateReturns(o)
  <2>1. [exec[o] EXCEPT !.step = "record", !.reply = "none"] \in ExecType
    BY <1>2 DEF e, ExecType, Steps, Replies
  <2> QED BY <1>1, <1>12, <2>1, PureMove DEF CreateReturns
<1>13. CASE CreateRecord(o)
  <2>1. PICK f \in ExecType : Becomes(o, f)
    BY <1>2, <1>3, <1>13, ItemsContain DEF CreateRecord, ExecType, Steps, e
  <2> QED BY <1>2, <1>5, <1>13, <2>1 DEF CreateRecord, RowStatuses, ExecType, e
<1>14. CASE CreateItemFails(o)
  BY <1>2, <1>3, <1>5, <1>14 DEF CreateItemFails, RowStatuses, ExecType, e
<1>15. CASE CreateAttempt(o)
  <2>1. [exec[o] EXCEPT !.step = "complete", !.flags = @ \cup {"attempted"}] \in ExecType
    BY <1>2 DEF e, ExecType, Steps, Flags
  <2> QED BY <1>1, <1>15, <2>1, PureMove DEF CreateAttempt
<1>16. CASE CreateComplete(o)
  <2>1. PICK f \in ExecType : Becomes(o, f)
    BY <1>3, <1>4, <1>16 DEF CreateComplete, Acknowledged, e
  <2>2. KeepsRows
    BY <1>2, <1>16, StatusKeeps DEF CreateComplete, Terminal
  <2>3. ProcessTyped' /\ AcceptedOnly'
    BY <1>1, <1>16, <2>1, <2>2, MoveTyped DEF CreateComplete
  <2>4. capsule' \in [Capsules -> CapsuleType]
    BY <1>2, <1>16 DEF CreateComplete, TypeInv, RowsTyped, CapsuleType, CapsuleStatuses, BranchStatuses
  <2> QED BY <1>16, <2>2, <2>3, <2>4 DEF CreateComplete, KeepsRows, TypeInv, RowsTyped, ProviderTyped, providerVars
<1>17. ASSUME NEW i \in Managed, CompensateBegin(o, i) PROVE TypeInv'
  <2>1. PICK f \in ExecType : Becomes(o, f)
    BY <1>2, <1>17, ItemsContain DEF CompensateBegin, Stuck, Drops, ExecType, Steps, Flags, Replies, e
  <2> QED BY <1>5, <1>17, <2>1, ItemsContain DEF CompensateBegin, RowStatuses
<1>18. CASE CompensateCall(o)
  <2>1. [exec[o] EXCEPT !.step = "await_delete"] \in ExecType
    BY <1>2 DEF e, ExecType, Steps
  <2> QED BY <1>1, <1>2, <1>18, <2>1, SubmitTyped DEF CompensateCall, Goto, e, ExecType
<1>19. CASE CompensateReturns(o)
  <2>1. PICK f \in ExecType : Becomes(o, f)
    BY <1>2, <1>19, ItemsContain DEF CompensateReturns, Stuck, Drops, ExecType, Steps, Flags, Replies, e
  <2> QED BY <1>2, <1>5, <1>19, <2>1 DEF CompensateReturns, RowStatuses, ExecType, e
<1>20. CASE CompensateFails(o)
  <2>1. PICK f \in ExecType : Becomes(o, f)
    BY <1>2, <1>20, ItemsContain DEF CompensateFails, Stuck, Drops, ExecType, Steps, Flags, Replies, e
  <2> QED BY <1>2, <1>5, <1>20, <2>1 DEF CompensateFails, RowStatuses, ExecType, e
<1>21. ASSUME NEW i \in exec[o].scope, CompensateFile(o, i) PROVE TypeInv'
  <2>1. PICK f \in ExecType : Becomes(o, f)
    BY <1>2, <1>21, ItemsContain DEF CompensateFile, Stuck, Drops, ExecType, Steps, Flags, Replies, e
  <2>2. i \in Items
    BY <1>2 DEF e, ExecType
  <2> QED BY <1>5, <1>21, <2>1, <2>2 DEF CompensateFile, RowStatuses
<1>22. CASE CompensationEnds(o)
  <2>1. [exec[o] EXCEPT !.step = "classify", !.flags = @ \cup {"compensated"}] \in ExecType
    BY <1>2 DEF e, ExecType, Steps, Flags
  <2>2. ProcessTyped' /\ AcceptedOnly'
    BY <1>1, <1>22, <2>1, MoveTyped, UnchangedKeeps DEF CompensationEnds, rowVars
  <2>3. history' \in HistoryType
    BY <1>22, WitnessTyped DEF CompensationEnds
  <2> QED BY <1>22, <2>2, <2>3 DEF CompensationEnds, TypeInv, RowsTyped, ProviderTyped, rowVars, providerVars
<1>23. CASE CreateFail(o)
  <2>1. CASE UNCHANGED <<rowVars, providerVars, history>>
    BY <1>1, <1>4, <1>23, <2>1, PureMove DEF CreateFail
  <2>2. ASSUME NEW safe \in BOOLEAN, Settles(o, safe) PROVE TypeInv'
    <3>1. KeepsRows /\ RowsTyped' /\ ProviderTyped' /\ history' \in HistoryType
      BY <1>2, <2>2, CreateSettlesTyped
    <3>2. ProcessTyped' /\ AcceptedOnly'
      BY <1>1, <1>4, <1>23, <3>1, MoveTyped DEF CreateFail
    <3> QED BY <3>1, <3>2 DEF TypeInv
  <2>3. CreateIsSafe(o) \in BOOLEAN
    BY DEF CreateIsSafe, CompensationProven
  <2> QED BY <1>23, <2>1, <2>2, <2>3 DEF CreateFail
<1> QED
  BY <1>6, <1>7, <1>8, <1>9, <1>10, <1>11, <1>12, <1>13, <1>14, <1>15, <1>16, <1>17, <1>18,
     <1>19, <1>20, <1>21, <1>22, <1>23 DEF CreateStep

-----------------------------------------------------------------------------
(* Snapshot.                                                                *)
LEMMA SnapshotSettlesTyped ==
  ASSUME TypeInv, NEW o \in OpIds, op[o].status # "absent", NEW safe \in BOOLEAN,
         SnapshotSettles(o, safe)
  PROVE  KeepsRows /\ RowsTyped' /\ ProviderTyped' /\ history' \in HistoryType
<1> DEFINE k == capsule[CapsuleOf(o)]
<1>1. KeepsRows
  BY StatusKeeps DEF SnapshotSettles, Terminal
<1>2. k \in CapsuleType
  BY DEF TypeInv, RowsTyped, AcceptedOnly, CapsuleOf
<1>3. [k EXCEPT !.branch = "offline"] \in CapsuleType
  BY <1>2 DEF CapsuleType, BranchStatuses
<1>4. [k EXCEPT !.status = IF k.status = "destroyed" THEN "destroyed" ELSE "cleanup_required",
                !.branch = IF k.branch = "snapshotting" THEN "cleanup_required" ELSE k.branch]
        \in CapsuleType
  BY <1>2 DEF CapsuleType, CapsuleStatuses, BranchStatuses
<1>5. capsule' \in [Capsules -> CapsuleType]
  <2>1. capsule' = [capsule EXCEPT ![CapsuleOf(o)] =
          IF safe THEN [k EXCEPT !.branch = "offline"]
          ELSE [k EXCEPT !.status = IF k.status = "destroyed" THEN "destroyed" ELSE "cleanup_required",
                         !.branch = IF k.branch = "snapshotting" THEN "cleanup_required" ELSE k.branch]]
    BY DEF SnapshotSettles
  <2> QED BY <1>3, <1>4, <2>1 DEF TypeInv, RowsTyped
<1> QED BY <1>1, <1>5 DEF SnapshotSettles, KeepsRows, TypeInv, RowsTyped, ProviderTyped, providerVars

LEMMA SnapshotTyped ==
  ASSUME TypeInv, NEW o \in OpIds, SnapshotStep(o)
  PROVE  TypeInv'
<1> DEFINE e == exec[o]
<1> USE DEF At, SetCapture
<1>1. exec[o].step # "none"
  BY DEF SnapshotStep, SnapshotThrows, SnapshotClaim, SnapshotRevokes, SnapshotVerifies,
         SnapshotBegin, SnapshotCall, SnapshotReturns, SnapshotCallFails, SnapshotRecord,
         SnapshotFinalizes, SnapshotCommit, UndoBegins, UndoPasses, UndoBegin, UndoCall,
         UndoReturns, UndoFails, UndoEnds, SnapshotRechecks, SnapshotFail
<1>2. e \in ExecType /\ CapsuleOf(o) \in Capsules /\ op[o].status # "absent" /\ op[o] \in OpType
  BY <1>1, Executes
<1>4. Idle \in ExecType
  BY ItemsContain DEF Idle, ExecType, Replies, Steps
<1>3. ASSUME NEW f \in ExecType PROVE SnapshotCaught(f) \in ExecType
  BY <1>4, ItemsContain DEF SnapshotCaught, Undoes, ExecType, Replies, Steps, Flags
<1> HIDE DEF e
(* What most transactions of a snapshot do: they set one capture and move on. *)
<1>5. ASSUME NEW f \in ExecType, Becomes(o, f), KeepsRows,
             \/ UNCHANGED capture
             \/ \E v, status : status \in RowStatuses /\ SetCapture(o, v, status),
             UNCHANGED <<capsule, rows, snapshot, target, worker, providerVars, history>>
      PROVE  TypeInv'
  <2>1. ProcessTyped' /\ AcceptedOnly'
    BY <1>1, <1>5, MoveTyped
  <2>2. capture' \in [OpIds -> [Versioned -> RowStatuses]]
    <3>1. CASE UNCHANGED capture
      BY <3>1 DEF TypeInv, RowsTyped
    <3>2. ASSUME NEW v, NEW status \in RowStatuses, SetCapture(o, v, status)
          PROVE  capture' \in [OpIds -> [Versioned -> RowStatuses]]
      BY <3>2 DEF TypeInv, RowsTyped
    <3> QED BY <1>5, <3>1, <3>2
  <2> QED BY <1>5, <2>1, <2>2 DEF TypeInv, RowsTyped, ProviderTyped, providerVars, KeepsRows
<1>6. UNCHANGED op => KeepsRows
  BY UnchangedKeeps
<1>8. ASSUME NEW f \in ExecType, NEW i \in Items
      PROVE  Covered(f, i) \in ExecType /\ Missed(f, i) \in ExecType
  BY ItemsContain DEF Covered, Missed, ExecType, Steps, Replies, Flags
<1>9. \A i \in e.scope : i \in Items
  BY <1>2 DEF ExecType
<1>10. e.item \in Items
  BY <1>2 DEF ExecType
<1>11. CASE SnapshotThrows(o)
  BY <1>1, <1>2, <1>3, <1>11, PureMove DEF SnapshotThrows, e
<1>12. CASE SnapshotClaim(o)
  <2>1. PICK f \in ExecType : Becomes(o, f)
    BY <1>2, <1>3, <1>12 DEF SnapshotClaim, SnapshotAcks, ExecType, Steps, Flags, e
  <2>2. KeepsRows
    BY <1>12, ClaimKeeps DEF SnapshotClaim
  <2> QED BY <1>5, <1>12, <2>1, <2>2 DEF SnapshotClaim
<1>13. CASE SnapshotRevokes(o)
  <2>1. [exec[o] EXCEPT !.step = "verify", !.flags = @ \cup {"observed"}] \in ExecType
    BY <1>2 DEF e, ExecType, Steps, Flags
  <2> QED BY <1>1, <1>13, <2>1, PureMove DEF SnapshotRevokes
<1>14. CASE SnapshotVerifies(o)
  <2>1. [exec[o] EXCEPT !.step = "begin", !.flags = @ \cup {"offline", "started"}] \in ExecType
    BY <1>2 DEF e, ExecType, Steps, Flags
  <2>2. [exec[o] EXCEPT !.flags = @ \cup {"offline"}] \in ExecType
    BY <1>2 DEF e, ExecType, Flags
  <2> QED BY <1>1, <1>2, <1>3, <1>14, <2>1, <2>2, PureMove DEF SnapshotVerifies, e
<1>15. ASSUME NEW v \in Versioned, SnapshotBegin(o, v) PROVE TypeInv'
  <2>1. PICK f \in ExecType : Becomes(o, f)
    BY <1>2, <1>3, <1>15, ItemsContain DEF SnapshotBegin, SnapshotAcks, ExecType, Steps, e
  <2>2. KeepsRows
    BY <1>15, IntentKeeps DEF SnapshotBegin
  <2> QED BY <1>5, <1>15, <2>1, <2>2 DEF SnapshotBegin, RowStatuses
<1>16. CASE SnapshotCall(o)
  <2>1. [exec[o] EXCEPT !.step = "await"] \in ExecType
    BY <1>2 DEF e, ExecType, Steps
  <2> QED BY <1>1, <1>10, <1>16, <2>1, SubmitTyped DEF SnapshotCall, Goto, e
<1>17. CASE SnapshotReturns(o)
  <2>1. [exec[o] EXCEPT !.step = "record", !.reply = "none"] \in ExecType
    BY <1>2 DEF e, ExecType, Steps, Replies
  <2> QED BY <1>1, <1>17, <2>1, PureMove DEF SnapshotReturns
<1>18. CASE SnapshotCallFails(o)
  <2>1. SnapshotCaught(e) \in ExecType /\ "error" \in RowStatuses
    BY <1>2, <1>3 DEF RowStatuses
  <2> QED BY <1>5, <1>6, <1>18, <2>1 DEF SnapshotCallFails, e
<1>19. CASE SnapshotRecord(o)
  <2>1. PICK f \in ExecType : Becomes(o, f)
    BY <1>2, <1>3, <1>19, ItemsContain DEF SnapshotRecord, SnapshotAcks, ExecType, Steps, e
  <2> QED BY <1>5, <1>6, <1>19, <2>1 DEF SnapshotRecord, RowStatuses
<1>20. CASE SnapshotFinalizes(o)
  <2>1. [exec[o] EXCEPT !.step = "commit", !.flags = @ \cup {"final"}] \in ExecType
    BY <1>2 DEF e, ExecType, Steps, Flags
  <2>2. [exec[o] EXCEPT !.flags = @ \ {"offline"}] \in ExecType
    BY <1>2 DEF e, ExecType
  <2> QED BY <1>1, <1>3, <1>20, <2>1, <2>2, PureMove DEF SnapshotFinalizes
<1>21. CASE SnapshotCommit(o)
  <2>1. PICK f \in ExecType : Becomes(o, f)
    BY <1>2, <1>3, <1>4, <1>21 DEF SnapshotCommit, SnapshotAcks, e
  <2>2. KeepsRows
    BY <1>2, <1>21, StatusKeeps DEF SnapshotCommit, Terminal
  <2>3. ProcessTyped' /\ AcceptedOnly'
    BY <1>1, <1>21, <2>1, <2>2, MoveTyped DEF SnapshotCommit
  <2>4. capsule' \in [Capsules -> CapsuleType]
    BY <1>2, <1>21 DEF SnapshotCommit, TypeInv, RowsTyped, CapsuleType, BranchStatuses
  <2>5. snapshot' \in [OpIds -> {"none", "committed", "retired"}]
    BY <1>21 DEF SnapshotCommit, TypeInv, RowsTyped
  <2> QED BY <1>21, <2>2, <2>3, <2>4, <2>5
       DEF SnapshotCommit, KeepsRows, TypeInv, RowsTyped, ProviderTyped, providerVars
<1>22. CASE UndoBegins(o)
  <2>1. [exec[o] EXCEPT !.step = "compensate", !.scope = Captured(o)] \in ExecType
    BY <1>2, ItemsContain DEF e, ExecType, Steps
  <2>2. [exec[o] EXCEPT !.step = "recheck"] \in ExecType
    BY <1>2 DEF e, ExecType, Steps
  <2> QED BY <1>1, <1>22, <2>1, <2>2, PureMove DEF UndoBegins, Goto
<1>23. ASSUME NEW i \in exec[o].scope, UndoPasses(o, i) PROVE TypeInv'
  <2>1. Covered(e, i) \in ExecType /\ Missed(e, i) \in ExecType
    BY <1>2, <1>8, <1>9 DEF e
  <2> QED BY <1>1, <1>23, <2>1, PureMove DEF UndoPasses, e
<1>24. ASSUME NEW i \in exec[o].scope, UndoBegin(o, i) PROVE TypeInv'
  <2>1. Missed(e, i) \in ExecType /\ [exec[o] EXCEPT !.step = "delete", !.item = i] \in ExecType
    BY <1>2, <1>8, <1>9 DEF e, ExecType, Steps
  <2> QED BY <1>5, <1>6, <1>24, <2>1 DEF UndoBegin, RowStatuses, e
<1>25. CASE UndoCall(o)
  <2>1. [exec[o] EXCEPT !.step = "await_delete"] \in ExecType
    BY <1>2 DEF e, ExecType, Steps
  <2> QED BY <1>1, <1>10, <1>25, <2>1, SubmitTyped DEF UndoCall, Goto, e
<1>26. CASE UndoReturns(o)
  <2>1. Covered(e, e.item) \in ExecType /\ Missed(e, e.item) \in ExecType
    BY <1>2, <1>8, <1>10
  <2>2. PICK f \in ExecType : Becomes(o, f)
    BY <1>26, <2>1 DEF UndoReturns, e
  <2> QED BY <1>5, <1>6, <1>26, <2>2 DEF UndoReturns, RowStatuses
<1>27. CASE UndoFails(o)
  <2>1. Missed(e, e.item) \in ExecType
    BY <1>2, <1>8, <1>10
  <2> QED BY <1>5, <1>6, <1>27, <2>1 DEF UndoFails, RowStatuses, e
<1>28. CASE UndoEnds(o)
  <2>1. [exec[o] EXCEPT !.step = "recheck",
           !.flags = IF "stuck" \in @ THEN @ ELSE @ \cup {"compensated"}] \in ExecType
    BY <1>2 DEF e, ExecType, Steps, Flags
  <2>2. ProcessTyped' /\ AcceptedOnly'
    BY <1>1, <1>28, <2>1, MoveTyped, UnchangedKeeps DEF UndoEnds, rowVars
  <2>3. history' \in HistoryType
    BY <1>28, WitnessTyped DEF UndoEnds
  <2> QED BY <1>28, <2>2, <2>3 DEF UndoEnds, TypeInv, RowsTyped, ProviderTyped, rowVars, providerVars
<1>29. CASE SnapshotRechecks(o)
  <2>1. [exec[o] EXCEPT !.step = "classify"] \in ExecType
    BY <1>2 DEF e, ExecType, Steps
  <2>2. [exec[o] EXCEPT !.step = "classify", !.flags = @ \ {"offline"}] \in ExecType
    BY <1>2 DEF e, ExecType, Steps
  <2> QED BY <1>1, <1>29, <2>1, <2>2, PureMove DEF SnapshotRechecks, Goto
<1>30. CASE SnapshotFail(o)
  <2>1. CASE UNCHANGED <<rowVars, providerVars, history>>
    BY <1>1, <1>4, <1>30, <2>1, PureMove DEF SnapshotFail
  <2>2. ASSUME NEW safe \in BOOLEAN, SnapshotSettles(o, safe) PROVE TypeInv'
    <3>1. KeepsRows /\ RowsTyped' /\ ProviderTyped' /\ history' \in HistoryType
      BY <1>2, <2>2, SnapshotSettlesTyped
    <3>2. ProcessTyped' /\ AcceptedOnly'
      BY <1>1, <1>4, <1>30, <3>1, MoveTyped DEF SnapshotFail
    <3> QED BY <3>1, <3>2 DEF TypeInv
  <2>3. SnapshotIsSafe(o) \in BOOLEAN
    BY DEF SnapshotIsSafe
  <2> QED BY <1>30, <2>1, <2>2, <2>3 DEF SnapshotFail
<1> QED
  BY <1>11, <1>12, <1>13, <1>14, <1>15, <1>16, <1>17, <1>18, <1>19, <1>20, <1>21, <1>22, <1>23,
     <1>24, <1>25, <1>26, <1>27, <1>28, <1>29, <1>30 DEF SnapshotStep

-----------------------------------------------------------------------------
(* Archive and unarchive.                                                   *)
LEMMA ArchivalSettlesTyped ==
  ASSUME TypeInv, NEW o \in OpIds, op[o].status # "absent", ArchivalSettles(o)
  PROVE  KeepsRows /\ RowsTyped' /\ ProviderTyped' /\ history' \in HistoryType
<1> DEFINE k == capsule[CapsuleOf(o)]
<1>1. KeepsRows
  BY StatusKeeps DEF ArchivalSettles, Terminal
<1>2. k \in CapsuleType
  BY DEF TypeInv, RowsTyped, AcceptedOnly, CapsuleOf
<1>3. \A status \in CapsuleStatuses : [k EXCEPT !.status = status] \in CapsuleType
  BY <1>2 DEF CapsuleType
<1> DEFINE settled == CASE ProviderFree(o) -> "active" [] k.status = "destroyed" -> k.status
                       [] OTHER -> "cleanup_required"
<1>4. settled \in CapsuleStatuses
  BY DEF CapsuleStatuses
<1>5. capsule' \in [Capsules -> CapsuleType]
  <2>1. capsule' = [capsule EXCEPT ![CapsuleOf(o)] = [k EXCEPT !.status = settled]]
    BY DEF ArchivalSettles
  <2>2. [k EXCEPT !.status = settled] \in CapsuleType
    BY <1>3, <1>4
  <2> QED BY <2>1, <2>2 DEF TypeInv, RowsTyped
<1> QED BY <1>1, <1>5 DEF ArchivalSettles, KeepsRows, TypeInv, RowsTyped, ProviderTyped, providerVars

LEMMA ArchivalTyped ==
  ASSUME TypeInv, NEW o \in OpIds, ArchivalStep(o)
  PROVE  TypeInv'
<1> DEFINE e == exec[o]
<1> USE DEF Archiving
<1>1. exec[o].step # "none"
  BY DEF ArchivalStep, ArchivalThrows, ArchivalClaim, ArchivalComplete, ArchivalFail
<1>2. e \in ExecType /\ CapsuleOf(o) \in Capsules /\ op[o].status # "absent" /\ op[o] \in OpType
  BY <1>1, Executes
<1>3. ArchivalCaught(e) \in ExecType
  BY <1>2 DEF ArchivalCaught, ExecType, Steps
<1>4. Idle \in ExecType
  BY ItemsContain DEF Idle, ExecType, Replies, Steps
<1> HIDE DEF e
<1>5. CASE ArchivalThrows(o)
  BY <1>1, <1>3, <1>5, PureMove DEF ArchivalThrows, e
<1>6. CASE ArchivalClaim(o)
  <2>1. PICK f \in ExecType : Becomes(o, f)
    BY <1>2, <1>3, <1>6 DEF ArchivalClaim, ArchivalAcks, ExecType, Steps, e
  <2>2. KeepsRows
    BY <1>6, ClaimKeeps DEF ArchivalClaim
  <2>3. ProcessTyped' /\ AcceptedOnly'
    BY <1>1, <1>6, <2>1, <2>2, MoveTyped DEF ArchivalClaim
  <2> QED BY <1>6, <2>2, <2>3 DEF ArchivalClaim, KeepsRows, TypeInv, RowsTyped, ProviderTyped, providerVars
<1>7. CASE ArchivalComplete(o)
  <2>1. PICK f \in ExecType : Becomes(o, f)
    BY <1>3, <1>4, <1>7 DEF ArchivalComplete, ArchivalAcks, e
  <2>2. KeepsRows
    BY <1>2, <1>7, StatusKeeps DEF ArchivalComplete, Terminal
  <2>3. ProcessTyped' /\ AcceptedOnly'
    BY <1>1, <1>7, <2>1, <2>2, MoveTyped DEF ArchivalComplete
  <2>4. [capsule[CapsuleOf(o)] EXCEPT !.status = "active", !.archived = op[o].type = "archive"]
          \in CapsuleType
    BY <1>2 DEF TypeInv, RowsTyped, CapsuleType, CapsuleStatuses
  <2>5. capsule' \in [Capsules -> CapsuleType]
    BY <1>7, <2>4 DEF ArchivalComplete, TypeInv, RowsTyped
  <2> QED BY <1>7, <2>2, <2>3, <2>5 DEF ArchivalComplete, KeepsRows, TypeInv, RowsTyped, ProviderTyped, providerVars
<1>8. CASE ArchivalFail(o)
  <2>1. CASE UNCHANGED <<rowVars, providerVars, history>>
    BY <1>1, <1>4, <1>8, <2>1, PureMove DEF ArchivalFail
  <2>2. CASE ArchivalSettles(o)
    <3>1. KeepsRows /\ RowsTyped' /\ ProviderTyped' /\ history' \in HistoryType
      BY <1>2, <2>2, ArchivalSettlesTyped
    <3>2. ProcessTyped' /\ AcceptedOnly'
      BY <1>1, <1>4, <1>8, <3>1, MoveTyped DEF ArchivalFail
    <3> QED BY <3>1, <3>2 DEF TypeInv
  <2> QED BY <1>8, <2>1, <2>2 DEF ArchivalFail
<1> QED BY <1>5, <1>6, <1>7, <1>8 DEF ArchivalStep

-----------------------------------------------------------------------------
(* Destroy.                                                                 *)
LEMMA TargetUpdates ==
  ASSUME NEW t \in TargetType, NEW i, NEW status \in TargetStatuses
  PROVE  [t EXCEPT ![i] = status] \in TargetType
<1>1. PICK D \in SUBSET Items : t \in [D -> TargetStatuses]
  BY DEF TargetType
<1>2. [t EXCEPT ![i] = status] \in [D -> TargetStatuses]
  BY <1>1
<1> QED BY <1>2 DEF TargetType

LEMMA TargetsAreItems ==
  ASSUME TypeInv, NEW o \in OpIds
  PROVE  DOMAIN target[o] \subseteq Items /\ \A i \in DOMAIN target[o] : target[o][i] \in TargetStatuses
<1>1. PICK D \in SUBSET Items : target[o] \in [D -> TargetStatuses]
  BY DEF TypeInv, RowsTyped, TargetType
<1> QED BY <1>1

LEMMA DestroySettlesTyped ==
  ASSUME TypeInv, NEW o \in OpIds, op[o].status # "absent", DestroySettles(o)
  PROVE  KeepsRows /\ RowsTyped' /\ ProviderTyped' /\ history' \in HistoryType
<1> DEFINE k == capsule[CapsuleOf(o)]
           t == [i \in DOMAIN target[o] |-> Unsettled(target[o][i])]
<1>1. KeepsRows
  BY StatusKeeps DEF DestroySettles, Terminal
<1>2. k \in CapsuleType
  BY DEF TypeInv, RowsTyped, AcceptedOnly, CapsuleOf
<1>3. [k EXCEPT !.status = "active", !.branch = "offline"] \in CapsuleType
  BY <1>2 DEF CapsuleType, CapsuleStatuses, BranchStatuses
<1>4. [k EXCEPT !.status = CleanedUp(k.status), !.branch = CleanedUp(k.branch)] \in CapsuleType
  BY <1>2 DEF CleanedUp, CapsuleType, CapsuleStatuses, BranchStatuses
<1>5. capsule' \in [Capsules -> CapsuleType]
  <2>1. capsule' = [capsule EXCEPT ![CapsuleOf(o)] =
          IF Restores(o) THEN [k EXCEPT !.status = "active", !.branch = "offline"]
          ELSE [k EXCEPT !.status = CleanedUp(k.status), !.branch = CleanedUp(k.branch)]]
    BY DEF DestroySettles
  <2> QED BY <1>3, <1>4, <2>1 DEF TypeInv, RowsTyped
<1>6. target' \in [OpIds -> TargetType]
  <2>1. \A status \in TargetStatuses : Unsettled(status) \in TargetStatuses
    BY DEF Unsettled, TargetStatuses
  <2>2. t \in [DOMAIN target[o] -> TargetStatuses] /\ DOMAIN target[o] \in SUBSET Items
    BY <2>1, TargetsAreItems
  <2>3. t \in TargetType
    BY <2>2 DEF TargetType
  <2>4. target' = [target EXCEPT ![o] = t]
    BY DEF DestroySettles
  <2> QED BY <2>3, <2>4 DEF TypeInv, RowsTyped
<1> QED BY <1>1, <1>5, <1>6 DEF DestroySettles, KeepsRows, TypeInv, RowsTyped, ProviderTyped, providerVars

LEMMA DestroyTyped ==
  ASSUME TypeInv, NEW o \in OpIds, DestroyStep(o)
  PROVE  TypeInv'
<1> DEFINE e == exec[o]
<1> USE DEF At
<1>1. exec[o].step # "none"
  BY DEF DestroyStep, DestroyThrows, DestroyClaim, DestroyPlan, DestroyRetire, DestroyRevokes,
         DestroyFence, DestroyFindsAbsent, DestroyFindsPresent, DestroyCannotRead, DestroyIntent,
         DestroyStop, DestroyDrop, DestroyDeleted, DestroySettle, DestroyComplete, DestroyFail
<1>2. e \in ExecType /\ CapsuleOf(o) \in Capsules /\ op[o].status # "absent" /\ op[o] \in OpType
  BY <1>1, Executes
<1>3. DestroyCaught(e) \in ExecType
  BY <1>2, ItemsContain DEF DestroyCaught, ExecType, Steps
<1>4. Idle \in ExecType
  BY ItemsContain DEF Idle, ExecType, Replies, Steps
<1> HIDE DEF e
(* What most transactions of destroy do: they set one target and move on.    *)
<1>5. ASSUME NEW f \in ExecType, Becomes(o, f), KeepsRows,
             \/ UNCHANGED target
             \/ \E i, status : status \in TargetStatuses /\ SetTarget(o, i, status),
             UNCHANGED <<capsule, rows, capture, snapshot, worker, providerVars, history>>
      PROVE  TypeInv'
  <2>1. ProcessTyped' /\ AcceptedOnly'
    BY <1>1, <1>5, MoveTyped
  <2>2. target' \in [OpIds -> TargetType]
    <3>1. CASE UNCHANGED target
      BY <3>1 DEF TypeInv, RowsTyped
    <3>2. ASSUME NEW i, NEW status \in TargetStatuses, SetTarget(o, i, status)
          PROVE  target' \in [OpIds -> TargetType]
      <4>1. target' = [target EXCEPT ![o] = [target[o] EXCEPT ![i] = status]]
        BY <3>2 DEF SetTarget
      <4>2. [target[o] EXCEPT ![i] = status] \in TargetType
        BY TargetUpdates DEF TypeInv, RowsTyped
      <4> QED BY <4>1, <4>2 DEF TypeInv, RowsTyped
    <3> QED BY <1>5, <3>1, <3>2
  <2> QED BY <1>5, <2>1, <2>2 DEF TypeInv, RowsTyped, ProviderTyped, providerVars, KeepsRows
<1>6. UNCHANGED op => KeepsRows
  BY UnchangedKeeps
<1>7. e.item \in Items
  BY <1>2 DEF ExecType
<1>8. \A step \in Steps : [exec[o] EXCEPT !.step = step] \in ExecType
  BY <1>2 DEF e, ExecType
<1>9. \A s1 \in TargetStatuses : s1 \in TargetStatuses
  OBVIOUS
<1>10. {"planned", "absent", "deleting", "deleted", "unresolved"} \subseteq TargetStatuses
  BY DEF TargetStatuses
<1>11. CASE DestroyThrows(o)
  BY <1>1, <1>3, <1>11, PureMove DEF DestroyThrows, e
<1>12. CASE DestroyClaim(o)
  <2>1. PICK f \in ExecType : Becomes(o, f)
    BY <1>3, <1>8, <1>12 DEF DestroyClaim, DestroyAcks, Steps, e
  <2>2. KeepsRows
    BY <1>12, ClaimKeeps DEF DestroyClaim
  <2> QED BY <1>5, <1>12, <2>1, <2>2 DEF DestroyClaim
<1>13. CASE DestroyPlan(o)
  <2>1. PICK f \in ExecType : Becomes(o, f)
    BY <1>3, <1>8, <1>13 DEF DestroyPlan, DestroyAcks, Steps, e
  <2>2. ProcessTyped' /\ AcceptedOnly'
    BY <1>1, <1>6, <1>13, <2>1, MoveTyped DEF DestroyPlan
  <2>3. Targets(CapsuleOf(o)) \in SUBSET Items
    BY ItemsContain DEF Targets
  <2>4. [i \in Targets(CapsuleOf(o)) |-> "planned"] \in [Targets(CapsuleOf(o)) -> TargetStatuses]
    BY <1>10
  <2>5. [i \in Targets(CapsuleOf(o)) |-> "planned"] \in TargetType
    BY <2>3, <2>4 DEF TargetType
  <2>6. target' \in [OpIds -> TargetType]
    BY <1>13, <2>5 DEF DestroyPlan, TypeInv, RowsTyped
  <2> QED BY <1>13, <2>2, <2>6 DEF DestroyPlan, TypeInv, RowsTyped, ProviderTyped, providerVars
<1>14. CASE DestroyRetire(o)
  <2>1. PICK f \in ExecType : Becomes(o, f)
    BY <1>3, <1>8, <1>14 DEF DestroyRetire, DestroyAcks, Steps, e
  <2>2. ProcessTyped' /\ AcceptedOnly'
    BY <1>1, <1>6, <1>14, <2>1, MoveTyped DEF DestroyRetire
  <2>3. snapshot' \in [OpIds -> {"none", "committed", "retired"}]
    BY <1>14 DEF DestroyRetire, Retires, TypeInv, RowsTyped
  <2> QED BY <1>14, <2>2, <2>3 DEF DestroyRetire, TypeInv, RowsTyped, ProviderTyped, providerVars
<1>15. CASE DestroyRevokes(o)
  BY <1>1, <1>8, <1>15, PureMove DEF DestroyRevokes, Goto, Steps
<1>16. CASE DestroyFence(o)
  <2>1. PICK f \in ExecType : Becomes(o, f)
    BY <1>3, <1>8, <1>16 DEF DestroyFence, DestroyAcks, Steps, e
  <2>2. KeepsRows
    BY <1>16, IntentKeeps DEF DestroyFence
  <2> QED BY <1>5, <1>16, <2>1, <2>2 DEF DestroyFence
<1>17. ASSUME NEW i \in DOMAIN target[o], DestroyFindsAbsent(o, i) PROVE TypeInv'
  <2>1. PICK f \in ExecType : Becomes(o, f)
    BY <1>2, <1>3, <1>17 DEF DestroyFindsAbsent, DestroyAcks, e
  <2> QED BY <1>5, <1>6, <1>10, <1>17, <2>1 DEF DestroyFindsAbsent
<1>18. ASSUME NEW i \in DOMAIN target[o], DestroyFindsPresent(o, i) PROVE TypeInv'
  <2>1. i \in Items
    BY TargetsAreItems
  <2>2. [exec[o] EXCEPT !.step = "intent", !.item = i] \in ExecType
    BY <1>2, <2>1 DEF e, ExecType, Steps
  <2> QED BY <1>1, <1>3, <1>18, <2>2, PureMove DEF DestroyFindsPresent, DestroyAcks, e
<1>19. ASSUME NEW i \in DOMAIN target[o], DestroyCannotRead(o, i) PROVE TypeInv'
  BY <1>3, <1>5, <1>6, <1>10, <1>19 DEF DestroyCannotRead, e
<1>20. CASE DestroyIntent(o)
  <2>1. PICK f \in ExecType : Becomes(o, f)
    BY <1>3, <1>8, <1>20 DEF DestroyIntent, DestroyAcks, Steps, e
  <2> QED BY <1>5, <1>6, <1>10, <1>20, <2>1 DEF DestroyIntent
<1>21. CASE DestroyStop(o)
  <2>1. Instance \in Items
    BY ItemsContain DEF Managed
  <2> QED BY <1>1, <1>8, <1>21, <2>1, SubmitTyped DEF DestroyStop, Goto, Steps
<1>22. CASE DestroyDrop(o)
  <2>1. [exec[o] EXCEPT !.step = "await_delete", !.reply = "none"] \in ExecType
    BY <1>2 DEF e, ExecType, Steps, Replies
  <2> QED BY <1>1, <1>7, <1>22, <2>1, SubmitTyped DEF DestroyDrop, e
<1>23. CASE DestroyDeleted(o)
  <2>1. [exec[o] EXCEPT !.step = "after", !.reply = "none"] \in ExecType
    BY <1>2 DEF e, ExecType, Steps, Replies
  <2> QED BY <1>1, <1>23, <2>1, PureMove DEF DestroyDeleted
<1>24. CASE DestroySettle(o)
  <2>1. [exec[o] EXCEPT !.step = "next", !.item = NoItem] \in ExecType
    BY <1>2, ItemsContain DEF e, ExecType, Steps
  <2>2. CASE Present(o, exec[o].item)
    BY <1>3, <1>5, <1>6, <1>10, <1>24, <2>2 DEF DestroySettle, e
  <2>3. CASE ~Present(o, exec[o].item)
    <3>1. PICK f \in ExecType : Becomes(o, f)
      BY <1>3, <1>24, <2>1, <2>3 DEF DestroySettle, DestroyAcks, e
    <3> QED BY <1>5, <1>6, <1>10, <1>24, <2>3, <3>1 DEF DestroySettle
  <2> QED BY <2>2, <2>3
<1>25. CASE DestroyComplete(o)
  <2>1. PICK f \in ExecType : Becomes(o, f)
    BY <1>3, <1>4, <1>25 DEF DestroyComplete, DestroyAcks, e
  <2>2. KeepsRows
    BY <1>2, <1>25, StatusKeeps DEF DestroyComplete, Terminal
  <2>3. ProcessTyped' /\ AcceptedOnly'
    BY <1>1, <1>25, <2>1, <2>2, MoveTyped DEF DestroyComplete
  <2>4. [capsule[CapsuleOf(o)] EXCEPT !.status = "destroyed", !.branch = "destroyed"] \in CapsuleType
    BY <1>2 DEF TypeInv, RowsTyped, CapsuleType, CapsuleStatuses, BranchStatuses
  <2>5. capsule' \in [Capsules -> CapsuleType]
    BY <1>25, <2>4 DEF DestroyComplete, TypeInv, RowsTyped
  <2> QED BY <1>25, <2>2, <2>3, <2>5 DEF DestroyComplete, KeepsRows, TypeInv, RowsTyped, ProviderTyped, providerVars
<1>26. CASE DestroyFail(o)
  <2>1. CASE UNCHANGED <<rowVars, providerVars, history>>
    BY <1>1, <1>4, <1>26, <2>1, PureMove DEF DestroyFail
  <2>2. CASE DestroySettles(o)
    <3>1. KeepsRows /\ RowsTyped' /\ ProviderTyped' /\ history' \in HistoryType
      BY <1>2, <2>2, DestroySettlesTyped
    <3>2. ProcessTyped' /\ AcceptedOnly'
      BY <1>1, <1>4, <1>26, <3>1, MoveTyped DEF DestroyFail
    <3> QED BY <3>1, <3>2 DEF TypeInv
  <2> QED BY <1>26, <2>1, <2>2 DEF DestroyFail
<1> QED
  BY <1>11, <1>12, <1>13, <1>14, <1>15, <1>16, <1>17, <1>18, <1>19, <1>20, <1>21, <1>22, <1>23,
     <1>24, <1>25, <1>26 DEF DestroyStep

-----------------------------------------------------------------------------
(* Acceptance.                                                              *)
LEMMA AcceptTyped ==
  ASSUME TypeInv, NEW o \in OpIds, NEW c \in Capsules, Accept(o, c)
  PROVE  TypeInv'
<1>1. PICK type \in Types, force \in BOOLEAN : Insert(o, type, c, force)
  BY DEF Accept, AcceptCreate, AcceptSnapshot, AcceptArchival, AcceptDestroy, Types, Archivals
<1>2. capsule[c] \in CapsuleType
  BY DEF TypeInv, RowsTyped
<1>3. capsule' \in [Capsules -> CapsuleType]
  <2>1. PICK k \in CapsuleType : capsule' = [capsule EXCEPT ![c] = k]
    <3>1. CASE AcceptCreate(o, c)
      BY <3>1 DEF AcceptCreate, CapsuleType, CapsuleStatuses, BranchStatuses
    <3>2. CASE AcceptSnapshot(o, c)
      <4>1. [capsule[c] EXCEPT !.branch = "snapshotting"] \in CapsuleType
        BY <1>2 DEF CapsuleType, BranchStatuses
      <4> QED BY <3>2, <4>1 DEF AcceptSnapshot
    <3>3. ASSUME NEW t \in Archivals, AcceptArchival(o, c, t)
          PROVE  \E k \in CapsuleType : capsule' = [capsule EXCEPT ![c] = k]
      <4>1. Fence(t) \in CapsuleStatuses
        BY DEF Fence, CapsuleStatuses
      <4>2. [capsule[c] EXCEPT !.status = Fence(t)] \in CapsuleType
        BY <1>2, <4>1 DEF CapsuleType
      <4> QED BY <3>3, <4>2 DEF AcceptArchival
    <3>4. ASSUME NEW f \in BOOLEAN, AcceptDestroy(o, c, f)
          PROVE  \E k \in CapsuleType : capsule' = [capsule EXCEPT ![c] = k]
      <4> DEFINE k1 == [capsule[c] EXCEPT !.status = "destroying",
               !.branch = IF capsule[c].branch = "destroyed" THEN "destroyed" ELSE "destroying"]
      <4>1. k1 \in CapsuleType
        BY <1>2 DEF CapsuleType, CapsuleStatuses, BranchStatuses
      <4>2. capsule' = [capsule EXCEPT ![c] = k1]
        BY <3>4 DEF AcceptDestroy
      <4> QED BY <4>1, <4>2
    <3> QED BY <3>1, <3>2, <3>3, <3>4 DEF Accept
  <2> QED BY <2>1 DEF TypeInv, RowsTyped
<1>4. capture' \in [OpIds -> [Versioned -> RowStatuses]]
  BY DEF Accept, AcceptCreate, AcceptSnapshot, AcceptArchival, AcceptDestroy, TypeInv, RowsTyped,
         RowStatuses
<1>5. [type |-> type, status |-> "accepted", capsule |-> c, intent |-> FALSE, force |-> force]
        \in OpType
  BY DEF OpType, Nonterminal
<1>6. op' \in [OpIds -> OpType]
  BY <1>1, <1>5 DEF Insert, TypeInv, RowsTyped
<1>7. RowsTyped'
  BY <1>1, <1>3, <1>4, <1>6 DEF Insert, TypeInv, RowsTyped
<1>8. Started \in ExecType
  BY ItemsContain DEF Started, Idle, ExecType, Replies, Steps
<1>9. ProcessTyped'
  BY <1>1, <1>8 DEF Insert, Becomes, TypeInv, ProcessTyped
<1>10. history' \in HistoryType
  <2>1. Picture(c) \in PictureType
    BY DEF Picture, PictureType, TypeInv, RowsTyped, ProviderTyped
  <2> QED BY <1>1, <2>1 DEF Insert, TypeInv, HistoryType
<1>11. AcceptedOnly'
  <2>1. ASSUME NEW p \in OpIds, p # o
        PROVE  op'[p] = op[p] /\ exec'[p] = exec[p]
    BY <1>1, <2>1 DEF Insert, Becomes, TypeInv, RowsTyped, ProcessTyped
  <2>2. op'[o].status = "accepted" /\ op'[o].capsule = c
    BY <1>1 DEF Insert, TypeInv, RowsTyped
  <2> QED BY <2>1, <2>2 DEF AcceptedOnly, TypeInv
<1> QED BY <1>1, <1>7, <1>9, <1>10, <1>11 DEF Insert, TypeInv, ProviderTyped, providerVars

-----------------------------------------------------------------------------
(* Startup classification, the provider, and everything else.               *)
LEMMA AbandonedTyped ==
  ASSUME TypeInv, NEW o \in OpIds, ClassifyAbandoned(o)
  PROVE  TypeInv'
<1>1. PICK type \in Types : Listed(o, type)
  BY DEF ClassifyAbandoned, AbandonedCreate, AbandonedSnapshot, AbandonedArchival,
         AbandonedDestroy, Archivals, Types
<1>2. op[o].status # "absent"
  BY <1>1 DEF Listed, Nonterminal
<1>3. KeepsRows /\ RowsTyped' /\ ProviderTyped' /\ history' \in HistoryType
  <2>1. CASE AbandonedCreate(o)
    BY <1>2, <2>1, CreateSettlesTyped DEF AbandonedCreate, AbandonedIsSafe
  <2>2. CASE AbandonedSnapshot(o)
    BY <1>2, <2>2, SnapshotSettlesTyped DEF AbandonedSnapshot, Pristine
  <2>3. CASE AbandonedArchival(o)
    BY <1>2, <2>3, ArchivalSettlesTyped DEF AbandonedArchival
  <2>4. CASE AbandonedDestroy(o)
    BY <1>2, <2>4, DestroySettlesTyped DEF AbandonedDestroy
  <2> QED BY <2>1, <2>2, <2>3, <2>4 DEF ClassifyAbandoned
<1>4. ProcessTyped'
  BY <1>1 DEF Listed, TypeInv, ProcessTyped, WorkerType
<1>5. AcceptedOnly'
  BY <1>1, <1>3 DEF Listed, KeepsRows, TypeInv, AcceptedOnly
<1> QED BY <1>3, <1>4, <1>5 DEF TypeInv

LEMMA ProviderStepTyped == TypeInv /\ Provider => TypeInv'
<1> SUFFICES ASSUME TypeInv, NEW call \in pending, Land(call) \/ Refuse(call)
             PROVE  TypeInv'
  BY DEF Provider
<1>1. call \in CallType
  BY DEF TypeInv, ProviderTyped
<1>2. exec' \in [OpIds -> ExecType] /\ \A p \in OpIds : exec'[p].step = exec[p].step
  <2>1. PICK reply \in Replies : Answer(call, reply)
    BY DEF Land, Refuse, Replies
  <2>2. CASE UNCHANGED exec
    BY <2>2 DEF TypeInv, ProcessTyped
  <2>3. CASE exec' = [exec EXCEPT ![call.op].reply = reply]
    <3>1. exec \in [OpIds -> ExecType] /\ call.op \in OpIds
      BY <1>1 DEF TypeInv, ProcessTyped, CallType
    <3>2. [exec[call.op] EXCEPT !.reply = reply] \in ExecType
      BY <3>1 DEF ExecType
    <3>3. [exec[call.op] EXCEPT !.reply = reply].step = exec[call.op].step
      BY <3>1 DEF ExecType
    <3> QED BY <2>3, <3>1, <3>2, <3>3
  <2> QED BY <2>1, <2>2, <2>3 DEF Answer
<1>3. ProviderTyped'
  BY <1>1 DEF Land, Refuse, Object, TypeInv, ProviderTyped, CallType
<1>4. history' \in HistoryType
  BY <1>1 DEF Land, Refuse, TypeInv, HistoryType, CallType
<1>5. ProcessTyped' /\ AcceptedOnly' /\ RowsTyped'
  BY <1>2 DEF Land, Refuse, TypeInv, ProcessTyped, AcceptedOnly, RowsTyped, rowVars
<1> QED BY <1>3, <1>4, <1>5 DEF TypeInv

LEMMA BranchTyped ==
  ASSUME TypeInv, NEW c \in Capsules, BranchStarts(c) \/ BranchStops(c) \/ RuntimeDrifts(c)
  PROVE  TypeInv'
<1>1. capsule' \in [Capsules -> CapsuleType]
  <2>1. \A b \in BranchStatuses : [capsule[c] EXCEPT !.branch = b] \in CapsuleType
    BY DEF TypeInv, RowsTyped, CapsuleType
  <2>2. "online" \in BranchStatuses /\ "offline" \in BranchStatuses
    BY DEF BranchStatuses
  <2> QED BY <2>1, <2>2 DEF BranchStarts, BranchStops, RuntimeDrifts, rowVars, TypeInv, RowsTyped
<1>2. ProviderTyped'
  BY ItemsContain DEF BranchStarts, BranchStops, RuntimeDrifts, TypeInv, ProviderTyped
<1>3. history' \in HistoryType
  BY DEF BranchStarts, BranchStops, RuntimeDrifts, TypeInv, HistoryType
<1> QED BY <1>1, <1>2, <1>3
     DEF BranchStarts, BranchStops, RuntimeDrifts, rowVars, TypeInv, RowsTyped, ProcessTyped, AcceptedOnly

LEMMA ProcessStepTyped == TypeInv /\ (Crash \/ Boot \/ Serve) => TypeInv'
<1> SUFFICES ASSUME TypeInv, Crash \/ Boot \/ Serve PROVE TypeInv'
  OBVIOUS
<1>1. Idle \in ExecType
  BY ItemsContain DEF Idle, ExecType, Replies, Steps
<1>2. exec' \in [OpIds -> ExecType] /\ \A p \in OpIds : exec'[p] = exec[p] \/ exec'[p].step = "none"
  <2>1. exec' = exec \/ exec' = [p \in OpIds |-> Idle]
    BY DEF Crash, Boot, Serve
  <2>2. Idle.step = "none"
    BY DEF Idle
  <2> QED BY <1>1, <2>1, <2>2 DEF TypeInv, ProcessTyped
<1>3. worker' \in WorkerType
  <2>1. worker \in WorkerType /\ NonterminalOps \subseteq OpIds
    BY DEF TypeInv, ProcessTyped, NonterminalOps
  <2> HIDE DEF TypeInv
  <2>2. CASE Crash
    BY <2>1, <2>2 DEF Crash, WorkerType
  <2>3. CASE Boot
    BY <2>1, <2>3 DEF Boot, WorkerType
  <2>4. CASE Serve
    BY <2>1, <2>4 DEF Serve, WorkerType
  <2> QED BY <2>2, <2>3, <2>4
<1> QED BY <1>2, <1>3
     DEF Crash, Boot, Serve, rowVars, providerVars, TypeInv, RowsTyped, ProcessTyped, ProviderTyped, AcceptedOnly

LEMMA NextTyped == TypeInv /\ [Next]_vars => TypeInv'
<1> SUFFICES ASSUME TypeInv, [Next]_vars PROVE TypeInv'
  OBVIOUS
<1>1. ASSUME NEW o \in OpIds, NEW c \in Capsules, Accept(o, c) PROVE TypeInv'
  BY <1>1, AcceptTyped
<1>2. ASSUME NEW o \in OpIds, Execute(o) PROVE TypeInv'
  BY <1>2, CreateTyped, SnapshotTyped, ArchivalTyped, DestroyTyped DEF Execute
<1>3. ASSUME NEW o \in OpIds, ClassifyAbandoned(o) PROVE TypeInv'
  BY <1>3, AbandonedTyped
<1>4. CASE Provider
  BY <1>4, ProviderStepTyped
<1>5. ASSUME NEW c \in Capsules, BranchStarts(c) \/ BranchStops(c) \/ RuntimeDrifts(c)
      PROVE TypeInv'
  BY <1>5, BranchTyped
<1>6. CASE Crash \/ Boot \/ Serve
  BY <1>6, ProcessStepTyped
<1>7. CASE UNCHANGED vars
  BY <1>7 DEF vars, rowVars, providerVars, TypeInv, RowsTyped, ProcessTyped, ProviderTyped, AcceptedOnly
<1> QED BY <1>1, <1>2, <1>3, <1>4, <1>5, <1>6, <1>7 DEF Next

LEMMA TypeInvariant == Spec => []TypeInv
  BY InitTypeInv, NextTyped, PTL DEF Spec

(* Every row, executor, call and object of the capsule operations keeps its   *)
(* type, whatever fails, crashes or lands late.                              *)
THEOREM CapsuleTypeCorrect == Spec => []TypeOK
<1>1. TypeInv => TypeOK
  <2> SUFFICES ASSUME TypeInv PROVE TypeOK
    OBVIOUS
  <2>1. \A o \in OpIds : /\ DOMAIN target[o] \subseteq Items
                         /\ \A i \in DOMAIN target[o] : target[o][i] \in TargetStatuses
    BY TargetsAreItems
  <2>2. \A o \in OpIds : exec[o].item \in Items /\ exec[o].reply \in Replies
    BY DEF TypeInv, ProcessTyped, ExecType
  <2>3. worker.phase \in {"serving", "down", "classifying"} /\ worker.todo \subseteq OpIds
    BY DEF TypeInv, ProcessTyped, WorkerType
  <2> QED BY <2>1, <2>2, <2>3 DEF TypeOK, TypeInv, RowsTyped, ProviderTyped
<1> QED BY <1>1, TypeInvariant, PTL

-----------------------------------------------------------------------------
(* Ownership: the status of a capsule and its unfinished operation agree.    *)

OneOwner == \A c \in Capsules : \A o, p \in Owner(c) : o = p
OwnershipInv == TypeInv /\ OneOwner /\ OwnershipIsMutual

RestingStatuses == {"absent", "active", "creation_failed", "destroyed", "cleanup_required"}
RestingType ==
  {k \in CapsuleType : k.status \in RestingStatuses /\ k.branch # "snapshotting"}

(* A step is quiet about ownership, or it ends the operation that owns a      *)
(* capsule and leaves the capsule at rest.                                  *)
Quiet ==
  /\ UNCHANGED capsule
  /\ \A p \in OpIds :
       /\ op'[p].type = op[p].type /\ op'[p].capsule = op[p].capsule
       /\ op'[p].status \in Nonterminal <=> op[p].status \in Nonterminal
EndsOwner(o) ==
  /\ op[o].status \in Nonterminal
  /\ \E status \in Terminal : SetStatus(o, status)
  /\ \E k \in RestingType : capsule' = [capsule EXCEPT ![CapsuleOf(o)] = k]

LEMMA UnchangedIsQuiet == UNCHANGED <<op, capsule>> => Quiet
  BY DEF Quiet

LEMMA ClaimIsQuiet ==
  ASSUME TypeInv, NEW o \in OpIds, ClaimRow(o), UNCHANGED capsule
  PROVE  Quiet
  BY DEF ClaimRow, Quiet, TypeInv, RowsTyped, OpType, Nonterminal

LEMMA IntentIsQuiet ==
  ASSUME TypeInv, NEW o \in OpIds, op' = [op EXCEPT ![o].intent = TRUE], UNCHANGED capsule
  PROVE  Quiet
  BY DEF Quiet, TypeInv, RowsTyped, OpType

LEMMA QuietKeeps == OwnershipInv /\ Quiet => OneOwner' /\ OwnershipIsMutual'
<1> SUFFICES ASSUME OwnershipInv, Quiet PROVE OneOwner' /\ OwnershipIsMutual'
  OBVIOUS
<1>1. \A c \in Capsules : Owner(c)' = Owner(c)
  BY DEF Quiet, Owner, NonterminalOps, CapsuleOf
<1>2. OneOwner'
  BY <1>1 DEF OwnershipInv, OneOwner
<1>3. \A c \in Capsules : Resting(c)' <=> Resting(c)
  BY DEF Quiet, Resting
<1>4. \A c \in Capsules, o \in OpIds : Owned(op[o].type, c)' <=> Owned(op[o].type, c)
  BY DEF Quiet, Owned
<1>5. \A c \in Capsules : Owner(c) \subseteq OpIds
  BY DEF Owner, NonterminalOps
<1> QED BY <1>1, <1>2, <1>3, <1>4, <1>5 DEF OwnershipInv, OwnershipIsMutual

LEMMA EndsKeeps ==
  ASSUME OwnershipInv, NEW o \in OpIds, EndsOwner(o)
  PROVE  OneOwner' /\ OwnershipIsMutual'
<1>0. PICK c \in Capsules : CapsuleOf(o) = c
  BY DEF OwnershipInv, TypeInv, RowsTyped, AcceptedOnly, EndsOwner, CapsuleOf, Nonterminal
<1>1. PICK status \in Terminal : SetStatus(o, status)
  BY DEF EndsOwner
<1>2. PICK k \in RestingType : capsule' = [capsule EXCEPT ![c] = k]
  BY <1>0 DEF EndsOwner
<1>3. op \in [OpIds -> OpType] /\ capsule \in [Capsules -> CapsuleType]
  BY DEF OwnershipInv, TypeInv, RowsTyped
<1>4. /\ op'[o].status \notin Nonterminal
      /\ \A p \in OpIds : op'[p].type = op[p].type /\ op'[p].capsule = op[p].capsule
      /\ \A p \in OpIds \ {o} : op'[p].status = op[p].status
  BY <1>1, <1>3 DEF SetStatus, OpType, Terminal, Nonterminal
<1>5. o \in Owner(c)
  BY <1>0 DEF EndsOwner, Owner, NonterminalOps
<1>6. Owner(c) = {o}
  BY <1>5 DEF OwnershipInv, OneOwner
<1>7. Owner(c)' = {}
  BY <1>4, <1>6 DEF Owner, NonterminalOps, CapsuleOf
<1>8. \A d \in Capsules \ {c} : Owner(d)' = Owner(d)
  BY <1>0, <1>4 DEF Owner, NonterminalOps, CapsuleOf
<1>9. Resting(c)'
  BY <1>2, <1>3 DEF Resting, RestingType, RestingStatuses
<1>10. \A d \in Capsules \ {c} : capsule'[d] = capsule[d]
  BY <1>2, <1>3
<1>11. OneOwner'
  BY <1>7, <1>8 DEF OwnershipInv, OneOwner
<1>12. ASSUME NEW d \in Capsules \ {c}
       PROVE  /\ \A p \in Owner(d)' : Owned(op[p].type, d)'
              /\ Owner(d)' = {} => Resting(d)'
  <2>1. Owner(d) \subseteq OpIds
    BY DEF Owner, NonterminalOps
  <2>2. Resting(d)' <=> Resting(d)
    BY <1>10 DEF Resting
  <2>3. \A p \in OpIds : Owned(op[p].type, d)' <=> Owned(op[p].type, d)
    BY <1>4, <1>10 DEF Owned
  <2> QED BY <1>8, <2>1, <2>2, <2>3 DEF OwnershipInv, OwnershipIsMutual
<1> QED BY <1>7, <1>9, <1>11, <1>12 DEF OwnershipIsMutual

-----------------------------------------------------------------------------
(* Every step of an executor is one or the other.                            *)
LEMMA CreateSettlesEnds ==
  ASSUME NEW o \in OpIds, op[o].status \in Nonterminal, NEW safe \in BOOLEAN, Settles(o, safe)
  PROVE  EndsOwner(o)
<1> DEFINE k == [status |-> IF safe THEN "creation_failed" ELSE "cleanup_required",
                 archived |-> FALSE,
                 branch |-> IF safe THEN "destroyed" ELSE "cleanup_required"]
<1>1. k \in RestingType
  BY DEF RestingType, RestingStatuses, CapsuleType, CapsuleStatuses, BranchStatuses
<1>2. capsule' = [capsule EXCEPT ![CapsuleOf(o)] = k]
  BY DEF Settles
<1>3. \E status \in Terminal : SetStatus(o, status)
  BY DEF Settles, Terminal
<1> QED BY <1>1, <1>2, <1>3 DEF EndsOwner
LEMMA CreateOwnership ==
  ASSUME OwnershipInv, NEW o \in OpIds, CreateStep(o)
  PROVE  Quiet \/ EndsOwner(o)
<1>1. TypeInv
  BY DEF OwnershipInv
<1>2. CASE UNCHANGED <<op, capsule>>
  BY <1>2, UnchangedIsQuiet
<1>3. CASE CreateClaim(o)
  BY <1>1, <1>3, ClaimIsQuiet DEF CreateClaim
<1>4. CASE CreateCommitIntent(o)
  BY <1>1, <1>4, IntentIsQuiet DEF CreateCommitIntent
<1>5. CASE CreateComplete(o)
  <2>1. [status |-> "active", archived |-> FALSE, branch |-> "offline"] \in RestingType
    BY DEF RestingType, RestingStatuses, CapsuleType, CapsuleStatuses, BranchStatuses
  <2> QED BY <1>5, <2>1 DEF CreateComplete, Fenced, EndsOwner, Nonterminal, Terminal
<1>7. CASE CreateFail(o)
  <2>1. CreateIsSafe(o) \in BOOLEAN
    BY DEF CreateIsSafe, CompensationProven
  <2>2. UNCHANGED <<op, capsule>> \/ (op[o].status \in Nonterminal /\ Settles(o, CreateIsSafe(o)))
    BY <1>7 DEF CreateFail, rowVars
  <2> QED BY <1>2, <2>1, <2>2, CreateSettlesEnds
<1>8. CASE CreateMaterialize(o) \/ CreateReturns(o) \/ CreateRecord(o) \/ CreateThrows(o)
        \/ CreateItemFails(o) \/ CreateAttempt(o)
  BY <1>2, <1>8 DEF CreateMaterialize, CreateReturns, CreateRecord, CreateThrows,
       CreateItemFails, CreateAttempt, rowVars
<1>9. CASE CreateCall(o)
  BY <1>2, <1>9 DEF CreateCall, Submit, rowVars
<1>10. ASSUME NEW i, CreateBegin(o, i) \/ CompensateBegin(o, i) \/ CompensateFile(o, i)
       PROVE  Quiet
  BY <1>10, UnchangedIsQuiet DEF CreateBegin, CompensateBegin, CompensateFile
<1>11. CASE CompensateCall(o) \/ CompensateReturns(o) \/ CompensateFails(o) \/ CompensationEnds(o)
  BY <1>2, <1>11 DEF CompensateCall, CompensateReturns, CompensateFails, CompensationEnds,
       Submit, rowVars
<1> QED BY <1>3, <1>4, <1>5, <1>7, <1>8, <1>9, <1>10, <1>11 DEF CreateStep

LEMMA SnapshotSettlesEnds ==
  ASSUME TypeInv, NEW o \in OpIds, op[o].status \in Nonterminal, NEW safe \in BOOLEAN,
         SnapshotSettles(o, safe), safe => Proven(o), Owned(op[o].type, CapsuleOf(o)),
         op[o].type = "snapshot_create"
  PROVE  EndsOwner(o)
<1> DEFINE k == capsule[CapsuleOf(o)]
           put == IF safe THEN [k EXCEPT !.branch = "offline"]
                  ELSE [k EXCEPT
                          !.status = IF k.status = "destroyed" THEN "destroyed" ELSE "cleanup_required",
                          !.branch = IF k.branch = "snapshotting" THEN "cleanup_required" ELSE k.branch]
<1>1. k \in CapsuleType /\ k.status = "active" /\ k.branch = "snapshotting"
  BY DEF Owned, Archivals, TypeInv, RowsTyped, AcceptedOnly, CapsuleOf, Nonterminal
<1>2. put \in RestingType
  BY <1>1 DEF RestingType, RestingStatuses, CapsuleType, CapsuleStatuses, BranchStatuses
<1>3. capsule' = [capsule EXCEPT ![CapsuleOf(o)] = put]
  BY DEF SnapshotSettles
<1>4. \E status \in Terminal : SetStatus(o, status)
  BY DEF SnapshotSettles, Terminal
<1> QED BY <1>2, <1>3, <1>4 DEF EndsOwner

LEMMA OwnerIsOwned ==
  ASSUME OwnershipInv, NEW o \in OpIds, op[o].status \in Nonterminal
  PROVE  Owned(op[o].type, CapsuleOf(o)) /\ CapsuleOf(o) \in Capsules
  BY DEF OwnershipInv, OwnershipIsMutual, Owner, NonterminalOps, TypeInv, AcceptedOnly, CapsuleOf,
         Nonterminal

LEMMA SnapshotOwnership ==
  ASSUME OwnershipInv, NEW o \in OpIds, SnapshotStep(o)
  PROVE  Quiet \/ EndsOwner(o)
<1>1. TypeInv
  BY DEF OwnershipInv
<1>2. CASE UNCHANGED <<op, capsule>>
  BY <1>2, UnchangedIsQuiet
<1>3. CASE SnapshotClaim(o)
  BY <1>1, <1>3, ClaimIsQuiet DEF SnapshotClaim
<1>4. ASSUME NEW v \in Versioned, SnapshotBegin(o, v) PROVE Quiet
  BY <1>1, <1>4, IntentIsQuiet DEF SnapshotBegin
<1>5. CASE SnapshotCommit(o)
  <2> DEFINE k == capsule[CapsuleOf(o)]
  <2>0. k \in CapsuleType /\ k.status = "active"
    BY <1>1, <1>5 DEF SnapshotCommit, Running, Proven, Snapshotting, TypeInv, RowsTyped,
         AcceptedOnly, CapsuleOf
  <2>1. [k EXCEPT !.branch = "offline"] \in RestingType
    BY <2>0 DEF RestingType, RestingStatuses, CapsuleType, BranchStatuses
  <2>2. capsule' = [capsule EXCEPT ![CapsuleOf(o)] = [capsule[CapsuleOf(o)] EXCEPT !.branch = "offline"]]
    BY <1>5 DEF SnapshotCommit
  <2> QED BY <1>5, <2>1, <2>2 DEF SnapshotCommit, Running, EndsOwner, Nonterminal, Terminal
<1>6. CASE SnapshotFail(o)
  <2>1. SnapshotIsSafe(o) \in BOOLEAN /\ (SnapshotIsSafe(o) => Proven(o))
    BY DEF SnapshotIsSafe, Pristine, Undone
  <2>2. UNCHANGED <<op, capsule>>
          \/ (op[o].status \in Nonterminal /\ SnapshotSettles(o, SnapshotIsSafe(o)))
    BY <1>6 DEF SnapshotFail, rowVars
  <2>3. op[o].type = "snapshot_create"
    BY <1>6 DEF SnapshotFail, At
  <2> QED BY <1>1, <1>2, <2>1, <2>2, <2>3, OwnerIsOwned, SnapshotSettlesEnds
<1>7. CASE SnapshotThrows(o) \/ SnapshotRevokes(o) \/ SnapshotVerifies(o) \/ SnapshotReturns(o)
        \/ SnapshotFinalizes(o) \/ UndoBegins(o) \/ SnapshotRechecks(o) \/ UndoEnds(o)
  BY <1>2, <1>7 DEF SnapshotThrows, SnapshotRevokes, SnapshotVerifies, SnapshotReturns,
       SnapshotFinalizes, UndoBegins, SnapshotRechecks, UndoEnds, rowVars
<1>8. CASE SnapshotCall(o) \/ UndoCall(o)
  BY <1>2, <1>8 DEF SnapshotCall, UndoCall, Submit, rowVars
<1>9. CASE SnapshotCallFails(o) \/ SnapshotRecord(o) \/ UndoReturns(o) \/ UndoFails(o)
  BY <1>2, <1>9 DEF SnapshotCallFails, SnapshotRecord, UndoReturns, UndoFails
<1>10. ASSUME NEW i, UndoPasses(o, i) \/ UndoBegin(o, i) PROVE Quiet
  BY <1>10, UnchangedIsQuiet DEF UndoPasses, UndoBegin, rowVars
<1> QED BY <1>3, <1>4, <1>5, <1>6, <1>7, <1>8, <1>9, <1>10 DEF SnapshotStep

LEMMA ArchivalSettlesEnds ==
  ASSUME TypeInv, NEW o \in OpIds, op[o].status \in Nonterminal, ArchivalSettles(o),
         Owned(op[o].type, CapsuleOf(o)), op[o].type \in Archivals
  PROVE  EndsOwner(o)
<1> DEFINE k == capsule[CapsuleOf(o)]
           settled == CASE ProviderFree(o) -> "active" [] k.status = "destroyed" -> k.status
                        [] OTHER -> "cleanup_required"
<1>1. k \in CapsuleType /\ k.branch = "offline"
  BY DEF Owned, Archivals, TypeInv, RowsTyped, AcceptedOnly, CapsuleOf, Nonterminal
<1>2. settled \in RestingStatuses
  BY DEF RestingStatuses
<1>3. settled \in CapsuleStatuses
  BY <1>2 DEF RestingStatuses, CapsuleStatuses
<1>4. [k EXCEPT !.status = settled] \in RestingType
  <2> HIDE DEF settled
  <2> QED BY <1>1, <1>2, <1>3 DEF RestingType, CapsuleType, BranchStatuses
<1>5. capsule' = [capsule EXCEPT ![CapsuleOf(o)] = [k EXCEPT !.status = settled]]
  BY DEF ArchivalSettles
<1>6. \E status \in Terminal : SetStatus(o, status)
  BY DEF ArchivalSettles, Terminal
<1> QED BY <1>4, <1>5, <1>6 DEF EndsOwner

LEMMA ArchivalOwnership ==
  ASSUME OwnershipInv, NEW o \in OpIds, ArchivalStep(o)
  PROVE  Quiet \/ EndsOwner(o)
<1>1. TypeInv
  BY DEF OwnershipInv
<1>2. CASE ArchivalThrows(o)
  BY <1>2, UnchangedIsQuiet DEF ArchivalThrows, rowVars
<1>3. CASE ArchivalClaim(o)
  BY <1>1, <1>3, ClaimIsQuiet DEF ArchivalClaim
<1>4. CASE ArchivalComplete(o)
  <2> DEFINE k == [capsule[CapsuleOf(o)] EXCEPT !.status = "active",
                                                 !.archived = op[o].type = "archive"]
  <2>0. capsule[CapsuleOf(o)] \in CapsuleType /\ capsule[CapsuleOf(o)].branch = "offline"
    BY <1>1, <1>4 DEF ArchivalComplete, ProviderFree, TypeInv, RowsTyped, AcceptedOnly, CapsuleOf
  <2>1. k \in RestingType
    BY <2>0 DEF RestingType, RestingStatuses, CapsuleType, CapsuleStatuses, BranchStatuses
  <2>2. capsule' = [capsule EXCEPT ![CapsuleOf(o)] = k]
    BY <1>4 DEF ArchivalComplete
  <2> QED BY <1>4, <2>1, <2>2 DEF ArchivalComplete, EndsOwner, Nonterminal, Terminal
<1>5. CASE ArchivalFail(o)
  <2>1. UNCHANGED <<op, capsule>> \/ (op[o].status \in Nonterminal /\ ArchivalSettles(o))
    BY <1>5 DEF ArchivalFail, rowVars
  <2>2. op[o].type \in Archivals
    BY <1>5 DEF ArchivalFail, Archiving
  <2> QED BY <1>1, <2>1, <2>2, UnchangedIsQuiet, OwnerIsOwned, ArchivalSettlesEnds
<1> QED BY <1>2, <1>3, <1>4, <1>5 DEF ArchivalStep

LEMMA DestroySettlesEnds ==
  ASSUME TypeInv, NEW o \in OpIds, op[o].status \in Nonterminal, DestroySettles(o)
  PROVE  EndsOwner(o)
<1> DEFINE k == capsule[CapsuleOf(o)]
           put == IF Restores(o) THEN [k EXCEPT !.status = "active", !.branch = "offline"]
                  ELSE [k EXCEPT !.status = CleanedUp(k.status), !.branch = CleanedUp(k.branch)]
<1>1. k \in CapsuleType
  BY DEF TypeInv, RowsTyped, AcceptedOnly, CapsuleOf, Nonterminal
<1>2. CleanedUp(k.status) \in {"destroyed", "cleanup_required"}
      /\ CleanedUp(k.branch) \in {"destroyed", "cleanup_required"}
  BY DEF CleanedUp
<1>3. put \in RestingType
  BY <1>1, <1>2 DEF RestingType, RestingStatuses, CapsuleType, CapsuleStatuses, BranchStatuses
<1>4. capsule' = [capsule EXCEPT ![CapsuleOf(o)] = put]
  BY DEF DestroySettles
<1>5. \E status \in Terminal : SetStatus(o, status)
  BY DEF DestroySettles, Terminal
<1> QED BY <1>3, <1>4, <1>5 DEF EndsOwner

LEMMA DestroyOwnership ==
  ASSUME OwnershipInv, NEW o \in OpIds, DestroyStep(o)
  PROVE  Quiet \/ EndsOwner(o)
<1>1. TypeInv
  BY DEF OwnershipInv
<1>2. CASE UNCHANGED <<op, capsule>>
  BY <1>2, UnchangedIsQuiet
<1>3. CASE DestroyClaim(o)
  BY <1>1, <1>3, ClaimIsQuiet DEF DestroyClaim
<1>4. CASE DestroyFence(o)
  BY <1>1, <1>4, IntentIsQuiet DEF DestroyFence
<1>5. CASE DestroyComplete(o)
  <2> DEFINE k == [capsule[CapsuleOf(o)] EXCEPT !.status = "destroyed", !.branch = "destroyed"]
  <2>1. CapsuleOf(o) \in Capsules
    BY <1>1, <1>5 DEF DestroyComplete, Destroying, TypeInv, AcceptedOnly, CapsuleOf
  <2>2. k \in RestingType
    BY <1>1, <2>1 DEF TypeInv, RowsTyped, RestingType, RestingStatuses, CapsuleType,
         CapsuleStatuses, BranchStatuses
  <2>3. capsule' = [capsule EXCEPT ![CapsuleOf(o)] = k]
    BY <1>5 DEF DestroyComplete
  <2> QED BY <1>5, <2>2, <2>3 DEF DestroyComplete, Destroying, EndsOwner, Nonterminal, Terminal
<1>6. CASE DestroyFail(o)
  <2>1. UNCHANGED <<op, capsule>> \/ (op[o].status \in Nonterminal /\ DestroySettles(o))
    BY <1>6 DEF DestroyFail, rowVars
  <2> QED BY <1>1, <1>2, <2>1, DestroySettlesEnds
<1>7. CASE DestroyThrows(o) \/ DestroyPlan(o) \/ DestroyRetire(o) \/ DestroyRevokes(o)
        \/ DestroyIntent(o) \/ DestroyDeleted(o) \/ DestroySettle(o)
  BY <1>2, <1>7 DEF DestroyThrows, DestroyPlan, DestroyRetire, DestroyRevokes, DestroyIntent,
       DestroyDeleted, DestroySettle, rowVars
<1>8. CASE DestroyStop(o) \/ DestroyDrop(o)
  BY <1>2, <1>8 DEF DestroyStop, DestroyDrop, Submit, rowVars
<1>9. ASSUME NEW i, DestroyFindsAbsent(o, i) \/ DestroyFindsPresent(o, i) \/ DestroyCannotRead(o, i)
      PROVE  Quiet
  BY <1>9, UnchangedIsQuiet DEF DestroyFindsAbsent, DestroyFindsPresent, DestroyCannotRead, rowVars
<1> QED BY <1>3, <1>4, <1>5, <1>6, <1>7, <1>8, <1>9 DEF DestroyStep

LEMMA AbandonedOwnership ==
  ASSUME OwnershipInv, NEW o \in OpIds, ClassifyAbandoned(o)
  PROVE  EndsOwner(o)
<1>1. TypeInv
  BY DEF OwnershipInv
<1>2. CASE AbandonedCreate(o)
  <2>1. AbandonedIsSafe(o) \in BOOLEAN
    BY DEF AbandonedIsSafe, Consistent
  <2> QED BY <1>2, <2>1, CreateSettlesEnds DEF AbandonedCreate, Listed
<1>3. CASE AbandonedSnapshot(o)
  <2>1. Pristine(o) \in BOOLEAN /\ (Pristine(o) => Proven(o))
    BY DEF Pristine
  <2>2. op[o].status \in Nonterminal /\ op[o].type = "snapshot_create"
    BY <1>3 DEF AbandonedSnapshot, Listed
  <2> QED BY <1>1, <1>3, <2>1, <2>2, OwnerIsOwned, SnapshotSettlesEnds DEF AbandonedSnapshot
<1>4. CASE AbandonedArchival(o)
  <2>1. op[o].status \in Nonterminal /\ op[o].type \in Archivals
    BY <1>4 DEF AbandonedArchival, Listed
  <2> QED BY <1>1, <1>4, <2>1, OwnerIsOwned, ArchivalSettlesEnds DEF AbandonedArchival
<1>5. CASE AbandonedDestroy(o)
  BY <1>1, <1>5, DestroySettlesEnds DEF AbandonedDestroy, Listed
<1> QED BY <1>2, <1>3, <1>4, <1>5 DEF ClassifyAbandoned

-----------------------------------------------------------------------------
LEMMA CapsuleIsItsFields ==
  \A k \in CapsuleType :
    k = [status |-> k.status, archived |-> k.archived, branch |-> k.branch]
  BY DEF CapsuleType

(* Acceptance takes a capsule at rest that nobody owns.                       *)
LEMMA AcceptOwnership ==
  ASSUME OwnershipInv, NEW o \in OpIds, NEW c \in Capsules, Accept(o, c)
  PROVE  OneOwner' /\ OwnershipIsMutual'
<1>1. PICK type \in Types, force \in BOOLEAN, k \in CapsuleType :
        /\ Insert(o, type, c, force)
        /\ capsule' = [capsule EXCEPT ![c] = k]
        /\ type = "create" =>
             k = [status |-> "provisioning", archived |-> FALSE, branch |-> "provisioning"]
        /\ type = "snapshot_create" =>
             k = [status |-> "active", archived |-> FALSE, branch |-> "snapshotting"]
        /\ type \in Archivals =>
             k = [status |-> Fence(type), archived |-> type = "unarchive", branch |-> "offline"]
        /\ type = "destroy" => k.status = "destroying" /\ k.branch \in {"destroying", "destroyed"}
  <2>0. capsule[c] \in CapsuleType
    BY DEF OwnershipInv, TypeInv, RowsTyped
  <2>1. CASE AcceptCreate(o, c)
    BY <2>1 DEF AcceptCreate, Types, Archivals, CapsuleType, CapsuleStatuses, BranchStatuses
  <2>2. CASE AcceptSnapshot(o, c)
    <3>0. capsule[c] = [status |-> "active", archived |-> FALSE, branch |-> "offline"]
      BY <2>2 DEF AcceptSnapshot
    <3> DEFINE k == [capsule[c] EXCEPT !.branch = "snapshotting"]
    <3>1. k \in CapsuleType
      BY <2>0 DEF CapsuleType, BranchStatuses
    <3>2. k.status = "active" /\ k.archived = FALSE /\ k.branch = "snapshotting"
      BY <2>0, <3>0 DEF CapsuleType
    <3>3. k = [status |-> "active", archived |-> FALSE, branch |-> "snapshotting"]
      <4> HIDE DEF k
      <4> QED BY <3>1, <3>2, CapsuleIsItsFields
    <3>4. capsule' = [capsule EXCEPT ![c] = k] /\ Insert(o, "snapshot_create", c, FALSE)
      BY <2>2 DEF AcceptSnapshot
    <3> HIDE DEF k
    <3> QED BY <3>1, <3>3, <3>4 DEF Types, Archivals
  <2>3. ASSUME NEW t \in Archivals, AcceptArchival(o, c, t)
        PROVE  /\ Insert(o, t, c, FALSE) /\ t \in Types /\ t # "create" /\ t # "snapshot_create"
               /\ t # "destroy"
               /\ [capsule[c] EXCEPT !.status = Fence(t)] \in CapsuleType
               /\ capsule' = [capsule EXCEPT ![c] = [capsule[c] EXCEPT !.status = Fence(t)]]
               /\ [capsule[c] EXCEPT !.status = Fence(t)]
                    = [status |-> Fence(t), archived |-> t = "unarchive", branch |-> "offline"]
    <3>1. Fence(t) \in CapsuleStatuses
      BY DEF Fence, CapsuleStatuses
    <3>2. [capsule[c] EXCEPT !.status = Fence(t)] \in CapsuleType
      BY <2>0, <3>1 DEF CapsuleType
    <3>3. [capsule[c] EXCEPT !.status = Fence(t)]
            = [status |-> Fence(t), archived |-> t = "unarchive", branch |-> "offline"]
      BY <2>3 DEF AcceptArchival
    <3> QED BY <2>3, <3>2, <3>3 DEF AcceptArchival, Archivals, Types
  <2>4. ASSUME NEW f \in BOOLEAN, AcceptDestroy(o, c, f)
        PROVE  \E k \in CapsuleType : /\ Insert(o, "destroy", c, f)
                                      /\ capsule' = [capsule EXCEPT ![c] = k]
                                      /\ k.status = "destroying"
                                      /\ k.branch \in {"destroying", "destroyed"}
    <3> DEFINE k == [capsule[c] EXCEPT !.status = "destroying",
             !.branch = IF capsule[c].branch = "destroyed" THEN "destroyed" ELSE "destroying"]
    <3>1. k \in CapsuleType /\ k.status = "destroying" /\ k.branch \in {"destroying", "destroyed"}
      BY <2>0 DEF CapsuleType, CapsuleStatuses, BranchStatuses
    <3>2. capsule' = [capsule EXCEPT ![c] = k] /\ Insert(o, "destroy", c, f)
      BY <2>4 DEF AcceptDestroy
    <3> QED BY <3>1, <3>2
  <2>5. CASE \E t \in Archivals : AcceptArchival(o, c, t)
    BY <2>3, <2>5
  <2>6. CASE \E f \in BOOLEAN : AcceptDestroy(o, c, f)
    BY <2>4, <2>6 DEF Types, Archivals
  <2> QED BY <2>1, <2>2, <2>5, <2>6 DEF Accept
<1>2. op \in [OpIds -> OpType] /\ capsule \in [Capsules -> CapsuleType]
  BY DEF OwnershipInv, TypeInv, RowsTyped
<1>3. Owner(c) = {} /\ op[o].status = "absent"
  BY <1>1 DEF Insert, Unowned
<1>4. /\ op'[o].status = "accepted" /\ op'[o].capsule = c /\ op'[o].type = type
      /\ \A p \in OpIds \ {o} : op'[p] = op[p]
  BY <1>1, <1>2 DEF Insert
<1>5. Owner(c)' = {o} /\ \A d \in Capsules \ {c} : Owner(d)' = Owner(d)
  BY <1>3, <1>4 DEF Owner, NonterminalOps, CapsuleOf, Nonterminal
<1>6. capsule'[c] = k /\ \A d \in Capsules \ {c} : capsule'[d] = capsule[d]
  BY <1>1, <1>2
<1>7. Owned(op[o].type, c)'
  <2>1. op'[o].type = type /\ capsule'[c] = k
    BY <1>4, <1>6
  <2>2. type \in {"create", "snapshot_create", "archive", "unarchive", "destroy"}
    BY DEF Types
  <2> QED BY <1>1, <2>1, <2>2 DEF Owned, Archivals
<1>8. ASSUME NEW d \in Capsules \ {c}
      PROVE  /\ \A p \in Owner(d)' : Owned(op[p].type, d)'
             /\ Owner(d)' = {} => Resting(d)'
  <2>1. Owner(d) \subseteq OpIds \ {o}
    BY <1>3 DEF Owner, NonterminalOps, Nonterminal
  <2>2. Resting(d)' <=> Resting(d)
    BY <1>6 DEF Resting
  <2>3. \A p \in OpIds \ {o} : Owned(op[p].type, d)' <=> Owned(op[p].type, d)
    BY <1>4, <1>6 DEF Owned
  <2> QED BY <1>5, <2>1, <2>2, <2>3 DEF OwnershipInv, OwnershipIsMutual
<1>9. OneOwner'
  BY <1>5 DEF OwnershipInv, OneOwner
<1> QED BY <1>5, <1>7, <1>8, <1>9 DEF OwnershipIsMutual

(* A branch starts and stops only in a capsule at rest, and leaves it so.    *)
LEMMA BranchOwnership ==
  ASSUME OwnershipInv, NEW c \in Capsules, BranchStarts(c) \/ BranchStops(c)
  PROVE  OneOwner' /\ OwnershipIsMutual'
<1>1. PICK b \in {"online", "offline"} : capsule' = [capsule EXCEPT ![c].branch = b]
  BY DEF BranchStarts, BranchStops
<1>2. Owner(c) = {} /\ capsule[c].status = "active" /\ UNCHANGED op
  BY DEF BranchStarts, BranchStops, Unattended
<1>3. capsule \in [Capsules -> CapsuleType]
  BY DEF OwnershipInv, TypeInv, RowsTyped
<1>4. /\ capsule'[c].status = "active" /\ capsule'[c].branch = b
      /\ \A d \in Capsules \ {c} : capsule'[d] = capsule[d]
  BY <1>1, <1>2, <1>3 DEF CapsuleType
<1>5. \A d \in Capsules : Owner(d)' = Owner(d)
  BY <1>2 DEF Owner, NonterminalOps, CapsuleOf
<1>6. OneOwner'
  BY <1>5 DEF OwnershipInv, OneOwner
<1>7. Resting(c)'
  BY <1>4 DEF Resting
<1>8. ASSUME NEW d \in Capsules \ {c}
      PROVE  /\ \A p \in Owner(d)' : Owned(op[p].type, d)'
             /\ Owner(d)' = {} => Resting(d)'
  <2>1. Resting(d)' <=> Resting(d)
    BY <1>4 DEF Resting
  <2>2. \A p \in Owner(d) : Owned(op[p].type, d)' <=> Owned(op[p].type, d)
    BY <1>2, <1>4 DEF Owned
  <2> QED BY <1>5, <2>1, <2>2 DEF OwnershipInv, OwnershipIsMutual
<1> QED BY <1>2, <1>5, <1>6, <1>7, <1>8 DEF OwnershipIsMutual

LEMMA NextOwnership == OwnershipInv /\ [Next]_vars => OwnershipInv'
<1> SUFFICES ASSUME OwnershipInv, [Next]_vars PROVE OwnershipInv'
  OBVIOUS
<1>1. TypeInv'
  BY NextTyped DEF OwnershipInv
<1>2. OneOwner' /\ OwnershipIsMutual'
  <2>1. ASSUME NEW o \in OpIds, NEW c \in Capsules, Accept(o, c)
        PROVE  OneOwner' /\ OwnershipIsMutual'
    BY <2>1, AcceptOwnership
  <2>2. ASSUME NEW o \in OpIds, Execute(o) \/ ClassifyAbandoned(o)
        PROVE  OneOwner' /\ OwnershipIsMutual'
    <3>1. Quiet \/ EndsOwner(o)
      BY <2>2, CreateOwnership, SnapshotOwnership, ArchivalOwnership, DestroyOwnership,
         AbandonedOwnership DEF Execute
    <3> QED BY <3>1, QuietKeeps, EndsKeeps
  <2>3. ASSUME NEW c \in Capsules, BranchStarts(c) \/ BranchStops(c)
        PROVE  OneOwner' /\ OwnershipIsMutual'
    BY <2>3, BranchOwnership
  <2>4. CASE UNCHANGED <<op, capsule>>
    BY <2>4, UnchangedIsQuiet, QuietKeeps
  <2>5. Provider => UNCHANGED <<op, capsule>>
    BY DEF Provider, Land, Refuse, rowVars
  <2>6. \A c \in Capsules : RuntimeDrifts(c) => UNCHANGED <<op, capsule>>
    BY DEF RuntimeDrifts, rowVars
  <2>7. Crash \/ Boot \/ Serve => UNCHANGED <<op, capsule>>
    BY DEF Crash, Boot, Serve, rowVars
  <2>8. UNCHANGED vars => UNCHANGED <<op, capsule>>
    BY DEF vars, rowVars
  <2> QED BY <2>1, <2>2, <2>3, <2>4, <2>5, <2>6, <2>7, <2>8 DEF Next
<1> QED BY <1>1, <1>2 DEF OwnershipInv

LEMMA InitOwnership == Init => OwnershipInv
<1> SUFFICES ASSUME Init PROVE OwnershipInv
  OBVIOUS
<1>1. \A c \in Capsules : Owner(c) = {}
  BY DEF Init, Owner, NonterminalOps, NoOp, Nonterminal
<1>2. \A c \in Capsules : Resting(c)
  BY DEF Init, NoCapsule, Resting
<1> QED BY <1>1, <1>2, InitTypeInv DEF OwnershipInv, OneOwner, OwnershipIsMutual

LEMMA OwnershipInvariant == Spec => []OwnershipInv
  BY InitOwnership, NextOwnership, PTL DEF Spec

(* The status of a capsule always says which operation owns it, and a capsule *)
(* no operation owns is at rest: no acceptance, failure, crash or late call   *)
(* leaves a fence that no unfinished operation will lift.                     *)
THEOREM CapsuleOwnershipIsMutual == Spec => []OwnershipIsMutual
<1>1. OwnershipInv => OwnershipIsMutual
  BY DEF OwnershipInv
<1> QED BY <1>1, OwnershipInvariant, PTL

(* A capsule has at most one unfinished operation.                           *)
THEOREM CapsuleHasOneOwner == Spec => []OneOwner
<1>1. OwnershipInv => OneOwner
  BY DEF OwnershipInv
<1> QED BY <1>1, OwnershipInvariant, PTL

(***************************************************************************)
(* The ledger.                                                              *)
(***************************************************************************)
(* The moves a row makes, as its executor and startup make them.             *)
SameMarks ==
  history'.touched = history.touched /\ history'.witnessed = history.witnessed
Seen(o) == o \in history.touched => o \in history.witnessed
Armed(o) == op[o].status = "running" /\ op[o].intent

Stays == UNCHANGED op /\ SameMarks
Claims(o) == ClaimRow(o) /\ SameMarks
Intends(o) ==
  op[o].status = "running" /\ op' = [op EXCEPT ![o].intent = TRUE] /\ SameMarks
Touches(o) ==
  /\ Armed(o) /\ UNCHANGED op
  /\ history'.touched = history.touched \cup {o}
  /\ history'.witnessed = history.witnessed
Witnesses(o) ==
  /\ op[o].status = "running" /\ UNCHANGED op
  /\ history'.touched = history.touched
  /\ history'.witnessed = history.witnessed \cup (history.touched \cap {o})
Ends(o) ==
  /\ SameMarks
  /\ \/ op[o].status = "running" /\ SetStatus(o, "completed")
     \/ op[o].status \in Nonterminal /\ Seen(o) /\ SetStatus(o, "failed")
     \/ op[o].status \in Nonterminal /\ SetStatus(o, "cleanup_required")
LedgerMove(o) ==
  Stays \/ Claims(o) \/ Intends(o) \/ Touches(o) \/ Witnesses(o) \/ Ends(o)

-----------------------------------------------------------------------------
(* The moves are the ledger's.                                              *)
(* A move that sets the status of one row, or none, keeps every entry.       *)
LEMMA StatusMoves ==
  ASSUME TypeInv, NEW o \in OpIds, op[o].status # "absent",
         NEW status \in Nonterminal \cup Terminal, SetStatus(o, status)
  PROVE  /\ [p \in OpIds |-> op'[p].status] = [[p \in OpIds |-> op[p].status] EXCEPT ![o] = status]
         /\ [p \in OpIds |-> IF op'[p].status = "absent" THEN None
                             ELSE [key |-> p, capsule |-> op'[p].capsule]]
              = [p \in OpIds |-> IF op[p].status = "absent" THEN None
                                 ELSE [key |-> p, capsule |-> op[p].capsule]]
         /\ {p \in OpIds : op'[p].intent} = {p \in OpIds : op[p].intent}
<1>1. op \in [OpIds -> OpType] /\ status # "absent"
  BY DEF TypeInv, RowsTyped, Nonterminal, Terminal
<1>2. /\ op'[o].status = status /\ op'[o].capsule = op[o].capsule /\ op'[o].intent = op[o].intent
      /\ \A p \in OpIds \ {o} : op'[p] = op[p]
  BY <1>1 DEF SetStatus, OpType
<1> QED BY <1>1, <1>2

LEMMA IntentMoves ==
  ASSUME TypeInv, NEW o \in OpIds, op[o].status # "absent",
         op' = [op EXCEPT ![o].intent = TRUE]
  PROVE  /\ [p \in OpIds |-> op'[p].status] = [p \in OpIds |-> op[p].status]
         /\ [p \in OpIds |-> IF op'[p].status = "absent" THEN None
                             ELSE [key |-> p, capsule |-> op'[p].capsule]]
              = [p \in OpIds |-> IF op[p].status = "absent" THEN None
                                 ELSE [key |-> p, capsule |-> op[p].capsule]]
         /\ {p \in OpIds : op'[p].intent} = {p \in OpIds : op[p].intent} \cup {o}
<1>1. op \in [OpIds -> OpType]
  BY DEF TypeInv, RowsTyped
<1>2. /\ op'[o].status = op[o].status /\ op'[o].capsule = op[o].capsule /\ op'[o].intent
      /\ \A p \in OpIds \ {o} : op'[p] = op[p]
  BY <1>1 DEF OpType
<1> QED BY <1>1, <1>2

LEMMA MoveRefines ==
  ASSUME TypeInv, NEW o \in OpIds, LedgerMove(o)
  PROVE  [Ledger!Next]_(Ledger!vars)
<1>1. CASE Stays
  BY <1>1 DEF Stays, SameMarks, Ledger!vars
<1>2. CASE Claims(o)
  <2>1. SetStatus(o, "running") /\ op[o].status = "accepted"
    BY <1>2 DEF Claims, ClaimRow, SetStatus
  <2>2. Ledger!Claim(o)
    BY <1>2, <2>1, StatusMoves DEF Claims, SameMarks, Ledger!Claim, Nonterminal
  <2> QED BY <2>2 DEF Ledger!Next
<1>3. CASE Intends(o)
  <2>1. CASE op[o].intent
    BY <1>3, <2>1, IntentMoves DEF Intends, SameMarks, Ledger!vars
  <2>2. CASE ~op[o].intent
    <3>1. Ledger!RecordIntent(o)
      BY <1>3, <2>2, IntentMoves DEF Intends, SameMarks, Ledger!RecordIntent
    <3> QED BY <3>1 DEF Ledger!Next
  <2> QED BY <2>1, <2>2
<1>4. CASE Touches(o)
  <2>1. Ledger!Touch(o)
    BY <1>4 DEF Touches, Armed, Ledger!Touch
  <2> QED BY <2>1 DEF Ledger!Next
<1>5. CASE Witnesses(o)
  <2>1. CASE o \in history.touched
    <3>1. Ledger!Witness(o)
      BY <1>5, <2>1 DEF Witnesses, Ledger!Witness
    <3> QED BY <3>1 DEF Ledger!Next
  <2>2. CASE o \notin history.touched
    BY <1>5, <2>2 DEF Witnesses, Ledger!vars
  <2> QED BY <2>1, <2>2
<1>6. CASE Ends(o)
  <2>1. CASE op[o].status = "running" /\ SetStatus(o, "completed")
    <3>1. Ledger!Complete(o)
      BY <1>6, <2>1, StatusMoves DEF Ends, SameMarks, Ledger!Complete, Terminal
    <3> QED BY <3>1 DEF Ledger!Next
  <2>2. CASE op[o].status \in Nonterminal /\ Seen(o) /\ SetStatus(o, "failed")
    <3>1. Ledger!FailSafely(o)
      BY <1>6, <2>2, StatusMoves DEF Ends, SameMarks, Seen, Ledger!FailSafely, Terminal,
           Nonterminal, Ledger!Nonterminal
    <3> QED BY <3>1 DEF Ledger!Next
  <2>3. CASE op[o].status \in Nonterminal /\ SetStatus(o, "cleanup_required")
    <3>1. Ledger!RequireCleanup(o)
      BY <1>6, <2>3, StatusMoves DEF Ends, SameMarks, Ledger!RequireCleanup, Terminal,
           Nonterminal, Ledger!Nonterminal
    <3> QED BY <3>1 DEF Ledger!Next
  <2> QED BY <1>6, <2>1, <2>2, <2>3 DEF Ends
<1> QED BY <1>1, <1>2, <1>3, <1>4, <1>5, <1>6 DEF LedgerMove

LEMMA AcceptRefines ==
  ASSUME TypeInv, NEW o \in OpIds, NEW c \in Capsules, NEW type \in Types,
         NEW force \in BOOLEAN, Insert(o, type, c, force), ~op[o].intent
  PROVE  Ledger!Next
<1> DEFINE e == [key |-> o, capsule |-> c]
<1>1. op \in [OpIds -> OpType] /\ history \in HistoryType
  BY DEF TypeInv, RowsTyped
<1>2. /\ op'[o].status = "accepted" /\ op'[o].capsule = c /\ op'[o].intent = FALSE
      /\ \A p \in OpIds \ {o} : op'[p] = op[p]
  BY <1>1 DEF Insert
<1>3. op[o].status = "absent"
  BY DEF Insert
<1>4. Ledger!Owner(e.capsule) = {}
  BY DEF Insert, Unowned, Owner, NonterminalOps, CapsuleOf, Ledger!Owner, Nonterminal,
         Ledger!Nonterminal
<1>5. \A p \in OpIds : Ledger!Accepted(p) =>
        (IF op[p].status = "absent" THEN None ELSE [key |-> p,
             capsule |-> op[p].capsule]).key # e.key
  BY <1>3 DEF Ledger!Accepted
<1>6. [p \in OpIds |-> op'[p].status] = [[p \in OpIds |-> op[p].status] EXCEPT ![o] = "accepted"]
  BY <1>1, <1>2
<1>7. [p \in OpIds |-> IF op'[p].status = "absent" THEN None
                       ELSE [key |-> p, capsule |-> op'[p].capsule]]
        = [[p \in OpIds |-> IF op[p].status = "absent" THEN None
                            ELSE [key |-> p, capsule |-> op[p].capsule]] EXCEPT ![o] = e]
  BY <1>1, <1>2
<1>8. {p \in OpIds : op'[p].intent} = {p \in OpIds : op[p].intent}
  BY <1>1, <1>2
<1>9. history'.touched = history.touched /\ history'.witnessed = history.witnessed
  BY <1>1 DEF Insert, HistoryType
<1>10. e \in Ledger!Entries
  BY DEF Ledger!Entries
<1>11. Ledger!Accept(o, e)
  BY <1>3, <1>4, <1>5, <1>6, <1>7, <1>8, <1>9 DEF Ledger!Accept
<1> QED BY <1>10, <1>11 DEF Ledger!Next

-----------------------------------------------------------------------------
(* Where an executor is, its row agrees: every step from which the provider  *)
(* is called belongs to a running row with its intent committed.             *)
CallSteps ==
  {"call", "await", "record", "delete", "await_stop", "await_delete", "next", "after"}
ArmedSteps(type) ==
  CASE type = "create" -> CallSteps \cup {"begin", "compensate"}
    [] type = "destroy" -> CallSteps \cup {"intent"}
    [] OTHER -> CallSteps

RowControl(o) ==
  /\ op[o].status = "absent" => ~op[o].intent
  /\ o \in history.touched => op[o].intent
Agrees(r, e, seen) ==
  /\ e.step \in ArmedSteps(r.type) => r.status = "running" /\ r.intent
  /\ e.step = "compensate" => r.status = "running"
  /\ r.type = "create" /\ e.step \in {"claim", "materialize", "intent"} => "intent" \notin e.flags
  /\ r.type = "create" /\ e.step = "complete" => "attempted" \in e.flags
  /\ "compensated" \in e.flags =>
       /\ e.step \in {"recheck", "classify"}
       /\ (r.type = "create" => "stuck" \notin e.flags) => seen
Control(o) == RowControl(o) /\ Agrees(op[o], exec[o], Seen(o))

OnlyServingExecutes ==
  worker.phase # "serving" => \A o \in OpIds : exec[o].step = "none"
LedgerInv == TypeInv /\ OnlyServingExecutes /\ \A o \in OpIds : Control(o)

(* A move leaves the other rows alone, and its own row in order.             *)
LEMMA MoveKeeps ==
  ASSUME LedgerInv, NEW o \in OpIds, op[o].status # "absent", LedgerMove(o)
  PROVE  /\ op'[o].type = op[o].type /\ RowControl(o)'
         /\ \A p \in OpIds \ {o} :
              /\ op'[p] = op[p]
              /\ p \in history'.touched <=> p \in history.touched
              /\ p \in history'.witnessed <=> p \in history.witnessed
<1>1. op \in [OpIds -> OpType] /\ RowControl(o)
  BY DEF LedgerInv, TypeInv, RowsTyped, Control
<1>2. CASE Stays
  BY <1>1, <1>2 DEF Stays, SameMarks, RowControl
<1>3. CASE Claims(o)
  BY <1>1, <1>3 DEF Claims, ClaimRow, SameMarks, RowControl, OpType
<1>4. CASE Intends(o)
  BY <1>1, <1>4 DEF Intends, SameMarks, RowControl, OpType
<1>5. CASE Touches(o)
  BY <1>1, <1>5 DEF Touches, Armed, RowControl
<1>6. CASE Witnesses(o)
  BY <1>1, <1>6 DEF Witnesses, RowControl
<1>7. CASE Ends(o)
  BY <1>1, <1>7 DEF Ends, SetStatus, SameMarks, RowControl, OpType
<1> QED BY <1>2, <1>3, <1>4, <1>5, <1>6, <1>7 DEF LedgerMove

(* What an executor's step establishes.                                      *)
Advances(o) ==
  /\ LedgerMove(o) /\ UNCHANGED worker
  /\ Becomes(o, exec'[o])
  /\ Agrees(op'[o], exec'[o], Seen(o)')

LEMMA AdvanceKeeps ==
  ASSUME LedgerInv, NEW o \in OpIds, exec[o].step # "none", Advances(o)
  PROVE  OnlyServingExecutes' /\ \A p \in OpIds : Control(p)'
<1>1. op[o].status # "absent"
  BY Executes DEF LedgerInv
<1>3. \A p \in OpIds \ {o} : exec'[p] = exec[p]
  BY DEF Advances, Becomes, LedgerInv, TypeInv, ProcessTyped
<1>4. OnlyServingExecutes'
  BY DEF Advances, LedgerInv, OnlyServingExecutes
<1>5. Control(o)'
  BY <1>1, MoveKeeps DEF Advances, Control
<1>6. ASSUME NEW p \in OpIds \ {o} PROVE Control(p)'
  BY <1>1, <1>3, MoveKeeps DEF Advances, LedgerInv, Control, RowControl, Seen
<1> QED BY <1>4, <1>5, <1>6

(* The steps that move nothing but the executor, and what they must respect. *)
LEMMA StayAdvances ==
  ASSUME LedgerInv, NEW o \in OpIds, NEW e, Becomes(o, e), UNCHANGED op, SameMarks,
         UNCHANGED worker, Agrees(op[o], e, Seen(o))
  PROVE  Advances(o)
<1>1. exec'[o] = e
  BY DEF Becomes, LedgerInv, TypeInv, ProcessTyped
<1>2. (Seen(o)' <=> Seen(o)) /\ Seen(o) \in BOOLEAN /\ Seen(o)' \in BOOLEAN
  BY DEF Seen, SameMarks
<1> QED BY <1>1, <1>2 DEF Advances, LedgerMove, Stays, Agrees

(* The same when the step claims its row or commits its intent.              *)
LEMMA RowAdvances ==
  ASSUME LedgerInv, NEW o \in OpIds, NEW e, Becomes(o, e), UNCHANGED worker,
         Claims(o) \/ Intends(o),
         NEW r, r = op'[o], Agrees(r, e, Seen(o))
  PROVE  Advances(o)
<1>1. exec'[o] = e
  BY DEF Becomes, LedgerInv, TypeInv, ProcessTyped
<1>2. SameMarks
  BY DEF Claims, Intends
<1>3. (Seen(o)' <=> Seen(o)) /\ Seen(o) \in BOOLEAN /\ Seen(o)' \in BOOLEAN
  BY <1>2 DEF Seen, SameMarks
<1> QED BY <1>1, <1>3 DEF Advances, LedgerMove, Agrees

LEMMA EndAdvances ==
  ASSUME LedgerInv, NEW o \in OpIds, NEW e, Becomes(o, e), UNCHANGED worker, Ends(o),
         e.step \in {"none", "classify", "undo", "recheck"}, "compensated" \notin e.flags
  PROVE  Advances(o)
<1>1. exec'[o] = e
  BY DEF Becomes, LedgerInv, TypeInv, ProcessTyped
<1>2. e.step \notin ArmedSteps(op'[o].type)
  BY DEF ArmedSteps, CallSteps
<1> QED BY <1>1, <1>2 DEF Advances, LedgerMove, Agrees

(* What an executor at a step knows.                                        *)
LEMMA AtStep ==
  ASSUME LedgerInv, NEW o \in OpIds, exec[o].step # "none"
  PROVE  /\ exec[o] \in ExecType /\ op[o] \in OpType /\ op[o].status # "absent"
         /\ Agrees(op[o], exec[o], Seen(o)) /\ RowControl(o)
  BY Executes DEF LedgerInv, Control

LEMMA FailAdvances ==
  ASSUME LedgerInv, NEW o \in OpIds, Becomes(o, Idle), UNCHANGED worker,
         (UNCHANGED op /\ SameMarks) \/ Ends(o)
  PROVE  Advances(o)
<1>1. Agrees(op[o], Idle, Seen(o))
  BY DEF Agrees, Idle, ArmedSteps, CallSteps
<1>2. CASE UNCHANGED op /\ SameMarks
  BY <1>1, <1>2, StayAdvances
<1>3. CASE Ends(o)
  BY <1>3, EndAdvances DEF Idle
<1> QED BY <1>2, <1>3

-----------------------------------------------------------------------------
(* Archive and unarchive never reach the provider.                           *)
LEMMA ArchivalEnds ==
  ASSUME LedgerInv, NEW o \in OpIds, op[o].status \in Nonterminal, ArchivalSettles(o)
  PROVE  Ends(o)
<1>1. ProviderFree(o) => Seen(o)
  BY DEF ProviderFree, Seen, LedgerInv, Control, RowControl
<1> QED BY <1>1 DEF ArchivalSettles, Ends, SameMarks

LEMMA ArchivalAdvances ==
  ASSUME LedgerInv, NEW o \in OpIds, ArchivalStep(o)
  PROVE  exec[o].step # "none" /\ Advances(o)
<1>1. exec[o].step # "none" /\ op[o].type \in Archivals
  BY DEF ArchivalStep, ArchivalThrows, ArchivalClaim, ArchivalComplete, ArchivalFail, Archiving
<1>2. /\ exec[o] \in ExecType /\ op[o] \in OpType /\ op[o].status # "absent"
      /\ Agrees(op[o], exec[o], Seen(o)) /\ RowControl(o)
  BY <1>1, AtStep
<1>3. op[o].type # "create" /\ ArmedSteps(op[o].type) = CallSteps
  BY <1>1 DEF Archivals, ArmedSteps
<1>4. CASE ArchivalThrows(o)
  <2>1. Agrees(op[o], ArchivalCaught(exec[o]), Seen(o))
    BY <1>2, <1>3, <1>4 DEF ArchivalThrows, Agrees, ArchivalCaught, ExecType, CallSteps
  <2> QED BY <1>1, <1>4, <2>1, StayAdvances DEF ArchivalThrows, rowVars, SameMarks
<1>5. CASE ArchivalClaim(o)
  <2>1. PICK e : Becomes(o, e) /\ e.step \in {"complete", "classify"} /\ e.flags = exec[o].flags
    BY <1>2, <1>5 DEF ArchivalClaim, ArchivalAcks, ArchivalCaught, ExecType
  <2>2. op'[o].type = op[o].type /\ Claims(o)
    BY <1>5 DEF ArchivalClaim, ClaimRow, Claims, SameMarks, LedgerInv, TypeInv, RowsTyped, OpType
  <2>3. Agrees(op'[o], e, Seen(o))
    BY <1>2, <1>3, <1>5, <2>1, <2>2 DEF ArchivalClaim, Archiving, Agrees, CallSteps
  <2> QED BY <1>1, <1>5, <2>1, <2>2, <2>3, RowAdvances DEF ArchivalClaim
<1>6. CASE ArchivalComplete(o)
  <2>1. PICK e : Becomes(o, e) /\ e.step \in {"none", "classify"} /\ e.flags \subseteq exec[o].flags
    BY <1>2, <1>6 DEF ArchivalComplete, ArchivalAcks, ArchivalCaught, ExecType, Idle
  <2>2. "compensated" \notin exec[o].flags
    BY <1>2, <1>6 DEF ArchivalComplete, Archiving, Agrees
  <2>3. Ends(o)
    BY <1>6 DEF ArchivalComplete, Ends, SameMarks
  <2> QED BY <1>1, <1>6, <2>1, <2>2, <2>3, EndAdvances DEF ArchivalComplete
<1>7. CASE ArchivalFail(o)
  BY <1>1, <1>7, ArchivalEnds, FailAdvances DEF ArchivalFail, rowVars, SameMarks
<1> QED BY <1>1, <1>4, <1>5, <1>6, <1>7 DEF ArchivalStep

-----------------------------------------------------------------------------
(* Destroy.  Only an operation without provider intent restores its capsule. *)
LEMMA DestroyEnds ==
  ASSUME LedgerInv, NEW o \in OpIds, op[o].status \in Nonterminal, DestroySettles(o)
  PROVE  Ends(o)
<1>1. Restores(o) => Seen(o)
  BY DEF Restores, Seen, LedgerInv, Control, RowControl
<1> QED BY <1>1 DEF DestroySettles, Ends, SameMarks

LEMMA DestroyEnders ==
  ASSUME NEW e \in ExecType
  PROVE  /\ DestroyCaught(e).step = "classify" /\ DestroyCaught(e).flags = e.flags
         /\ Idle.step = "none" /\ Idle.flags = {}
  BY DEF DestroyCaught, ExecType, Idle

LEMMA DestroyAdvances ==
  ASSUME LedgerInv, NEW o \in OpIds, DestroyStep(o)
  PROVE  exec[o].step # "none" /\ Advances(o)
<1>0. exec \in [OpIds -> ExecType]
  BY DEF LedgerInv, TypeInv, ProcessTyped
<1>1. exec[o].step # "none" /\ op[o].type = "destroy"
  BY DEF DestroyStep, DestroyThrows, DestroyClaim, DestroyPlan, DestroyRetire, DestroyRevokes,
         DestroyFence, DestroyFindsAbsent, DestroyFindsPresent, DestroyCannotRead, DestroyIntent,
         DestroyStop, DestroyDrop, DestroyDeleted, DestroySettle, DestroyComplete, DestroyFail, At
<1>2. /\ exec[o] \in ExecType /\ op[o] \in OpType /\ op[o].status # "absent"
      /\ Agrees(op[o], exec[o], Seen(o)) /\ RowControl(o)
  BY <1>1, AtStep
<1>3. op[o].type # "create" /\ ArmedSteps(op[o].type) = CallSteps \cup {"intent"}
  BY <1>1 DEF ArmedSteps
(* Until it classifies, a step moves on among the armed ones, or throws.     *)
<1>4. ASSUME Becomes(o, exec'[o]), UNCHANGED op, SameMarks, UNCHANGED worker,
             exec'[o].flags = exec[o].flags, exec[o].step \notin {"recheck", "classify"},
             \/ exec'[o].step \in {"classify", "plan", "retire", "revoke", "fence"}
             \/ exec[o].step \in ArmedSteps(op[o].type) /\ exec'[o].step # "compensate"
      PROVE  Advances(o)
  <2>1. Agrees(op[o], exec'[o], Seen(o))
    BY <1>2, <1>3, <1>4 DEF Agrees, CallSteps
  <2> QED BY <1>4, <2>1, StayAdvances
<1>5. CASE DestroyThrows(o)
  <2>1. Becomes(o, exec'[o]) /\ exec'[o].step = "classify" /\ exec'[o].flags = exec[o].flags
    BY <1>0, <1>2, <1>5 DEF DestroyThrows, DestroyCaught, ExecType, Becomes
  <2> QED BY <1>4, <1>5, <2>1 DEF DestroyThrows, rowVars, SameMarks
<1>6. CASE DestroyClaim(o)
  <2>1. Becomes(o, exec'[o]) /\ exec'[o].step \in {"plan", "classify"}
        /\ exec'[o].flags = exec[o].flags
    BY <1>0, <1>2, <1>6 DEF DestroyClaim, DestroyAcks, DestroyCaught, ExecType, Becomes
  <2>2. op'[o].type = op[o].type /\ Claims(o)
    BY <1>6 DEF DestroyClaim, ClaimRow, Claims, SameMarks, LedgerInv, TypeInv, RowsTyped, OpType
  <2>3. Agrees(op'[o], exec'[o], Seen(o))
    BY <1>2, <1>3, <1>6, <2>1, <2>2 DEF DestroyClaim, At, Agrees, CallSteps
  <2> QED BY <1>1, <1>6, <2>1, <2>2, <2>3, RowAdvances DEF DestroyClaim
<1>7. CASE DestroyPlan(o)
  <2>1. Becomes(o, exec'[o]) /\ exec'[o].flags = exec[o].flags
        /\ exec'[o].step \in {"retire", "classify"}
    BY <1>0, <1>2, <1>7, DestroyEnders DEF DestroyPlan, Goto, DestroyAcks, ExecType, Becomes
  <2> QED BY <1>3, <1>4, <1>7, <2>1 DEF DestroyPlan, At, rowVars, SameMarks, CallSteps
<1>8. CASE DestroyRetire(o)
  <2>1. Becomes(o, exec'[o]) /\ exec'[o].flags = exec[o].flags
        /\ exec'[o].step \in {"revoke", "classify"}
    BY <1>0, <1>2, <1>8, DestroyEnders DEF DestroyRetire, Goto, DestroyAcks, ExecType, Becomes
  <2> QED BY <1>3, <1>4, <1>8, <2>1 DEF DestroyRetire, At, rowVars, SameMarks, CallSteps
<1>9. CASE DestroyRevokes(o)
  <2>1. Becomes(o, exec'[o]) /\ exec'[o].flags = exec[o].flags
        /\ exec'[o].step \in {"fence"}
    BY <1>0, <1>2, <1>9, DestroyEnders DEF DestroyRevokes, Goto, DestroyAcks, ExecType, Becomes
  <2> QED BY <1>3, <1>4, <1>9, <2>1 DEF DestroyRevokes, At, rowVars, SameMarks, CallSteps
<1>10. CASE DestroyFence(o)
  <2>1. Becomes(o, exec'[o]) /\ exec'[o].step \in {"next", "classify"}
        /\ exec'[o].flags = exec[o].flags
    BY <1>0, <1>2, <1>10 DEF DestroyFence, DestroyAcks, DestroyCaught, ExecType, Becomes
  <2>2. op'[o].type = op[o].type /\ op'[o].status = "running" /\ op'[o].intent /\ Intends(o)
    BY <1>2, <1>10 DEF DestroyFence, Destroying, Intends, SameMarks, LedgerInv, TypeInv, RowsTyped,
         OpType
  <2>3. Agrees(op'[o], exec'[o], Seen(o))
    BY <1>2, <1>3, <1>10, <2>1, <2>2 DEF DestroyFence, At, Agrees
  <2> QED BY <1>1, <1>10, <2>1, <2>2, <2>3, RowAdvances DEF DestroyFence
<1>11. ASSUME NEW i, \/ DestroyFindsAbsent(o, i) \/ DestroyFindsPresent(o, i)
                    \/ DestroyCannotRead(o, i)
      PROVE  Advances(o)
  <2>1. Becomes(o, exec'[o]) /\ exec'[o].flags = exec[o].flags
        /\ exec'[o].step \in {exec[o].step, "intent", "classify"}
    BY <1>0, <1>2, <1>11 DEF DestroyFindsAbsent, DestroyFindsPresent, DestroyCannotRead,
         DestroyAcks,
         DestroyCaught, ExecType, Becomes
  <2>2. exec[o].step \in {"next", "after"} /\ UNCHANGED op /\ SameMarks /\ UNCHANGED worker
    BY <1>11 DEF DestroyFindsAbsent, DestroyFindsPresent, DestroyCannotRead, At, rowVars, SameMarks
  <2> QED BY <1>3, <1>4, <2>1, <2>2 DEF CallSteps
<1>12. CASE DestroyIntent(o)
  <2>1. Becomes(o, exec'[o]) /\ exec'[o].flags = exec[o].flags
        /\ exec'[o].step \in {"delete", "classify"}
    BY <1>0, <1>2, <1>12, DestroyEnders DEF DestroyIntent, Goto, DestroyAcks, ExecType, Becomes
  <2> QED BY <1>3, <1>4, <1>12, <2>1 DEF DestroyIntent, At, rowVars, SameMarks, CallSteps
<1>13. CASE DestroyDeleted(o)
  <2>1. Becomes(o, exec'[o]) /\ exec'[o].flags = exec[o].flags
        /\ exec'[o].step \in {"after"}
    BY <1>0, <1>2, <1>13, DestroyEnders DEF DestroyDeleted, Goto, DestroyAcks, ExecType, Becomes
  <2> QED BY <1>3, <1>4, <1>13, <2>1 DEF DestroyDeleted, At, rowVars, SameMarks, CallSteps
<1>14. CASE DestroySettle(o)
  <2>1. Becomes(o, exec'[o]) /\ exec'[o].flags = exec[o].flags
        /\ exec'[o].step \in {"next", "classify"}
    <3>1. \/ Becomes(o, DestroyCaught(exec[o]))
          \/ Becomes(o, [exec[o] EXCEPT !.step = "next", !.item = NoItem])
      BY <1>14 DEF DestroySettle, DestroyAcks
    <3>2. CASE Becomes(o, DestroyCaught(exec[o]))
      BY <1>0, <1>2, <3>2, DestroyEnders DEF Becomes
    <3>3. CASE Becomes(o, [exec[o] EXCEPT !.step = "next", !.item = NoItem])
      BY <1>0, <1>2, <3>3 DEF Becomes, ExecType
    <3> QED BY <3>1, <3>2, <3>3
  <2> QED BY <1>3, <1>4, <1>14, <2>1 DEF DestroySettle, At, rowVars, SameMarks, CallSteps
<1>15. CASE DestroyStop(o)
  <2>1. Becomes(o, exec'[o]) /\ exec'[o].flags = exec[o].flags
        /\ exec'[o].step \in {"await_stop"}
    BY <1>0, <1>2, <1>15, DestroyEnders DEF DestroyStop, Goto, DestroyAcks, ExecType, Becomes
  <2>2. exec[o].step \in {"delete"}
    BY <1>15 DEF DestroyStop, At
  <2>3. Armed(o) /\ "compensated" \notin exec[o].flags
    BY <1>2, <1>3, <2>2 DEF Agrees, CallSteps, Armed
  <2>4. UNCHANGED op /\ UNCHANGED worker /\ Touches(o)
    BY <1>15, <2>3 DEF DestroyStop, Submit, rowVars, Touches, LedgerInv, TypeInv, HistoryType
  <2>5. Agrees(op'[o], exec'[o], Seen(o)')
    BY <1>3, <2>1, <2>3, <2>4 DEF Agrees, Armed
  <2> QED BY <1>1, <2>1, <2>4, <2>5 DEF Advances, LedgerMove
<1>16. CASE DestroyDrop(o)
  <2>1. Becomes(o, exec'[o]) /\ exec'[o].flags = exec[o].flags
        /\ exec'[o].step \in {"await_delete"}
    BY <1>0, <1>2, <1>16, DestroyEnders DEF DestroyDrop, Goto, DestroyAcks, ExecType, Becomes
  <2>2. exec[o].step \in {"delete", "await_stop"}
    BY <1>16 DEF DestroyDrop, At
  <2>3. Armed(o) /\ "compensated" \notin exec[o].flags
    BY <1>2, <1>3, <2>2 DEF Agrees, CallSteps, Armed
  <2>4. UNCHANGED op /\ UNCHANGED worker /\ Touches(o)
    BY <1>16, <2>3 DEF DestroyDrop, Submit, rowVars, Touches, LedgerInv, TypeInv, HistoryType
  <2>5. Agrees(op'[o], exec'[o], Seen(o)')
    BY <1>3, <2>1, <2>3, <2>4 DEF Agrees, Armed
  <2> QED BY <1>1, <2>1, <2>4, <2>5 DEF Advances, LedgerMove
<1>17. CASE DestroyComplete(o)
  <2>1. Becomes(o, exec'[o]) /\ exec'[o].step \in {"none", "classify"}
        /\ exec'[o].flags \subseteq exec[o].flags
    BY <1>0, <1>2, <1>17, DestroyEnders DEF DestroyComplete, DestroyAcks, Becomes
  <2>2. "compensated" \notin exec[o].flags
    BY <1>2, <1>17 DEF DestroyComplete, At, Agrees
  <2>3. Ends(o)
    BY <1>17 DEF DestroyComplete, Destroying, Ends, SameMarks
  <2> QED BY <1>1, <1>17, <2>1, <2>2, <2>3, EndAdvances DEF DestroyComplete
<1>18. CASE DestroyFail(o)
  BY <1>1, <1>18, DestroyEnds, FailAdvances DEF DestroyFail, rowVars, SameMarks
<1> QED BY <1>1, <1>5, <1>6, <1>7, <1>8, <1>9, <1>10, <1>11, <1>12, <1>13, <1>14,
            <1>15, <1>16, <1>17, <1>18 DEF DestroyStep

-----------------------------------------------------------------------------
(* Snapshot.  A set reported as undone was deleted object by object.         *)
LEMMA SnapshotEnds ==
  ASSUME LedgerInv, NEW o \in OpIds, op[o].status \in Nonterminal, NEW safe \in BOOLEAN,
         SnapshotSettles(o, safe), safe => Seen(o)
  PROVE  Ends(o)
  BY DEF SnapshotSettles, Ends, SameMarks

LEMMA SnapshotEnders ==
  ASSUME NEW e \in ExecType
  PROVE  /\ SnapshotCaught(e).step \in {"none", "undo", "classify"}
         /\ SnapshotCaught(e).flags \subseteq e.flags
         /\ Idle.step = "none" /\ Idle.flags = {}
  BY DEF SnapshotCaught, ExecType, Idle

LEMMA BlindEnders ==
  ASSUME NEW e \in ExecType
  PROVE  /\ SnapshotCaught([e EXCEPT !.flags = @ \ {"offline"}]).step
              \in {"none", "undo", "classify"}
         /\ SnapshotCaught([e EXCEPT !.flags = @ \ {"offline"}]).flags \subseteq e.flags
<1>1. PICK f \in ExecType : f = [e EXCEPT !.flags = e.flags \ {"offline"}]
  BY DEF ExecType
<1>2. f.flags \subseteq e.flags
  BY <1>1 DEF ExecType
<1>3. SnapshotCaught(f).step \in {"none", "undo", "classify"}
      /\ SnapshotCaught(f).flags \subseteq f.flags
  BY SnapshotEnders
<1> QED BY <1>1, <1>2, <1>3

LEMMA SeenEnders ==
  ASSUME NEW e \in ExecType
  PROVE  /\ SnapshotCaught([e EXCEPT !.flags = @ \cup {"offline"}]).step
              \in {"none", "undo", "classify"}
         /\ SnapshotCaught([e EXCEPT !.flags = @ \cup {"offline"}]).flags
              \subseteq e.flags \cup {"offline"}
<1>1. PICK f \in ExecType : f = [e EXCEPT !.flags = e.flags \cup {"offline"}]
  BY DEF ExecType, Flags
<1>2. f.flags \subseteq e.flags \cup {"offline"}
  BY <1>1 DEF ExecType
<1>3. SnapshotCaught(f).step \in {"none", "undo", "classify"}
      /\ SnapshotCaught(f).flags \subseteq f.flags
  BY SnapshotEnders
<1> QED BY <1>1, <1>2, <1>3

LEMMA SnapshotAdvances ==
  ASSUME LedgerInv, NEW o \in OpIds, SnapshotStep(o)
  PROVE  exec[o].step # "none" /\ Advances(o)
<1>0. exec \in [OpIds -> ExecType]
  BY DEF LedgerInv, TypeInv, ProcessTyped
<1>1. exec[o].step # "none" /\ op[o].type = "snapshot_create"
  BY DEF SnapshotStep, SnapshotThrows, SnapshotClaim, SnapshotRevokes, SnapshotVerifies,
         SnapshotBegin, SnapshotCall, SnapshotReturns, SnapshotCallFails, SnapshotRecord,
         SnapshotFinalizes, SnapshotCommit, UndoBegins, UndoPasses, UndoBegin, UndoCall,
         UndoReturns, UndoFails, UndoEnds, SnapshotRechecks, SnapshotFail, At
<1>2. /\ exec[o] \in ExecType /\ op[o] \in OpType /\ op[o].status # "absent"
      /\ Agrees(op[o], exec[o], Seen(o)) /\ RowControl(o)
  BY <1>1, AtStep
<1>3. op[o].type # "create" /\ ArmedSteps(op[o].type) = CallSteps
  BY <1>1 DEF ArmedSteps
<1>4. exec[o].step \notin {"recheck", "classify"} => "compensated" \notin exec[o].flags
  BY <1>2 DEF Agrees
(* Until it classifies, a step stays where its row lets it be.               *)
<1>5. ASSUME Becomes(o, exec'[o]), UNCHANGED op, SameMarks, UNCHANGED worker,
             "compensated" \notin exec'[o].flags,
             exec'[o].step \in CallSteps => Armed(o),
             exec'[o].step = "compensate" => op[o].status = "running"
      PROVE  Advances(o)
  <2>1. Agrees(op[o], exec'[o], Seen(o))
    BY <1>3, <1>5 DEF Agrees, Armed
  <2> QED BY <1>1, <1>5, <2>1, StayAdvances
<1>6. CASE SnapshotThrows(o)
  <2>1. Becomes(o, exec'[o]) /\ "compensated" \notin exec'[o].flags
        /\ exec'[o].step \in {"none", "undo", "classify"}
    BY <1>0, <1>2, <1>4, <1>6, SnapshotEnders DEF SnapshotThrows, At, Becomes, ExecType
  <2>2. UNCHANGED op /\ SameMarks /\ UNCHANGED worker
    BY <1>6 DEF SnapshotThrows, rowVars, SameMarks
  <2> QED BY <1>1, <1>5, <2>1, <2>2 DEF CallSteps
<1>7. CASE SnapshotClaim(o)
  <2>1. Becomes(o, exec'[o]) /\ "compensated" \notin exec'[o].flags
        /\ exec'[o].step \in {"revoke", "none", "undo", "classify"}
    <3>1. CASE Becomes(o, [exec[o] EXCEPT !.step = "revoke", !.flags = @ \cup {"claimed"}])
      BY <1>0, <1>2, <1>4, <1>7, <3>1 DEF SnapshotClaim, At, Becomes, ExecType
    <3>2. CASE Becomes(o, SnapshotCaught(exec[o]))
      BY <1>0, <1>2, <1>4, <1>7, SnapshotEnders, <3>2 DEF SnapshotClaim, At, Becomes
    <3> QED BY <1>7, <3>1, <3>2 DEF SnapshotClaim, SnapshotAcks
  <2>2. op'[o].type = op[o].type /\ Claims(o)
    BY <1>7 DEF SnapshotClaim, ClaimRow, Claims, SameMarks, LedgerInv, TypeInv, RowsTyped, OpType
  <2>3. Agrees(op'[o], exec'[o], Seen(o))
    BY <1>3, <2>1, <2>2 DEF Agrees, CallSteps
  <2> QED BY <1>1, <1>7, <2>1, <2>2, <2>3, RowAdvances DEF SnapshotClaim
<1>8. CASE SnapshotRevokes(o)
  <2>1. Becomes(o, exec'[o]) /\ "compensated" \notin exec'[o].flags
        /\ exec'[o].step \in {"verify"}
    BY <1>0, <1>2, <1>4, <1>8, SnapshotEnders DEF SnapshotRevokes, At, Becomes, ExecType
  <2>2. UNCHANGED op /\ SameMarks /\ UNCHANGED worker
    BY <1>8 DEF SnapshotRevokes, rowVars, SameMarks
  <2> QED BY <1>1, <1>5, <2>1, <2>2 DEF CallSteps
<1>9. CASE SnapshotVerifies(o)
  <2>1. Becomes(o, exec'[o]) /\ "compensated" \notin exec'[o].flags
        /\ exec'[o].step \in {"begin", "none", "undo", "classify"}
    <3>1. CASE Becomes(o, [exec[o] EXCEPT !.step = "begin",
                             !.flags = @ \cup {"offline", "started"}])
      BY <1>0, <1>2, <1>4, <1>9, <3>1 DEF SnapshotVerifies, At, Becomes, ExecType
    <3>2. CASE Becomes(o, SnapshotCaught(exec[o]))
      BY <1>0, <1>2, <1>4, <1>9, SnapshotEnders, <3>2 DEF SnapshotVerifies, At, Becomes
    <3>3. CASE Becomes(o, SnapshotCaught([exec[o] EXCEPT !.flags = @ \cup {"offline"}]))
      BY <1>0, <1>2, <1>4, <1>9, SeenEnders, <3>3 DEF SnapshotVerifies, At, Becomes
    <3> QED BY <1>9, <3>1, <3>2, <3>3 DEF SnapshotVerifies
  <2>2. UNCHANGED op /\ SameMarks /\ UNCHANGED worker
    BY <1>9 DEF SnapshotVerifies, rowVars, SameMarks
  <2> QED BY <1>1, <1>5, <2>1, <2>2 DEF CallSteps
<1>10. ASSUME NEW v \in Versioned, SnapshotBegin(o, v) PROVE Advances(o)
  <2>1. Becomes(o, exec'[o]) /\ "compensated" \notin exec'[o].flags
        /\ exec'[o].step \in {"call", "none", "undo", "classify"}
    <3>1. CASE Becomes(o, [exec[o] EXCEPT !.step = "call", !.item = Snapshot(v, o)])
      BY <1>0, <1>2, <1>4, <1>10, <3>1 DEF SnapshotBegin, At, Becomes, ExecType
    <3>2. CASE Becomes(o, SnapshotCaught(exec[o]))
      BY <1>0, <1>2, <1>4, <1>10, SnapshotEnders, <3>2 DEF SnapshotBegin, At, Becomes
    <3> QED BY <1>10, <3>1, <3>2 DEF SnapshotBegin, SnapshotAcks
  <2>2. op'[o].type = op[o].type /\ op'[o].status = "running" /\ op'[o].intent /\ Intends(o)
    BY <1>2, <1>10 DEF SnapshotBegin, Running, Intends, SameMarks, LedgerInv, TypeInv, RowsTyped,
         OpType
  <2>3. Agrees(op'[o], exec'[o], Seen(o))
    BY <1>3, <2>1, <2>2 DEF Agrees
  <2> QED BY <1>1, <1>10, <2>1, <2>2, <2>3, RowAdvances DEF SnapshotBegin
<1>11. CASE SnapshotCall(o)
  <2>1. Becomes(o, exec'[o]) /\ exec'[o].flags = exec[o].flags /\ exec'[o].step = "await"
    BY <1>0, <1>2, <1>11 DEF SnapshotCall, Goto, Becomes, ExecType
  <2>2. Armed(o) /\ "compensated" \notin exec[o].flags
    BY <1>2, <1>3, <1>11 DEF SnapshotCall, At, Agrees, CallSteps, Armed
  <2>3. UNCHANGED op /\ UNCHANGED worker /\ Touches(o)
    BY <1>11, <2>2 DEF SnapshotCall, Submit, rowVars, Touches, LedgerInv, TypeInv, HistoryType
  <2>4. Agrees(op'[o], exec'[o], Seen(o)')
    BY <1>3, <2>1, <2>2, <2>3 DEF Agrees, Armed
  <2> QED BY <1>1, <2>1, <2>3, <2>4 DEF Advances, LedgerMove
<1>12. CASE SnapshotReturns(o)
  <2>1. Becomes(o, exec'[o]) /\ "compensated" \notin exec'[o].flags
        /\ exec'[o].step \in {"record"}
    BY <1>0, <1>2, <1>4, <1>12, SnapshotEnders DEF SnapshotReturns, At, Becomes, ExecType
  <2>2. UNCHANGED op /\ SameMarks /\ UNCHANGED worker
    BY <1>12 DEF SnapshotReturns, rowVars, SameMarks
  <2>3. Armed(o)
    BY <1>2, <1>3, <1>12 DEF SnapshotReturns, At, Agrees, CallSteps, Armed
  <2> QED BY <1>1, <1>5, <2>1, <2>2, <2>3 DEF Armed
<1>13. CASE SnapshotCallFails(o)
  <2>1. Becomes(o, exec'[o]) /\ "compensated" \notin exec'[o].flags
        /\ exec'[o].step \in {"none", "undo", "classify"}
    BY <1>0, <1>2, <1>4, <1>13, SnapshotEnders DEF SnapshotCallFails, At, Becomes, ExecType
  <2>2. UNCHANGED op /\ SameMarks /\ UNCHANGED worker
    BY <1>13 DEF SnapshotCallFails, rowVars, SameMarks
  <2> QED BY <1>1, <1>5, <2>1, <2>2 DEF CallSteps
<1>14. CASE SnapshotRecord(o)
  <2>1. Becomes(o, exec'[o]) /\ "compensated" \notin exec'[o].flags
        /\ exec'[o].step \in {"begin", "none", "undo", "classify"}
    <3>1. CASE Becomes(o, [exec[o] EXCEPT !.step = "begin", !.item = NoItem])
      BY <1>0, <1>2, <1>4, <1>14, <3>1 DEF SnapshotRecord, At, Becomes, ExecType
    <3>2. CASE Becomes(o, SnapshotCaught(exec[o]))
      BY <1>0, <1>2, <1>4, <1>14, SnapshotEnders, <3>2 DEF SnapshotRecord, At, Becomes
    <3> QED BY <1>14, <3>1, <3>2 DEF SnapshotRecord, SnapshotAcks
  <2>2. UNCHANGED op /\ SameMarks /\ UNCHANGED worker
    BY <1>14 DEF SnapshotRecord, rowVars, SameMarks
  <2> QED BY <1>1, <1>5, <2>1, <2>2 DEF CallSteps
<1>15. CASE SnapshotFinalizes(o)
  <2>1. Becomes(o, exec'[o]) /\ "compensated" \notin exec'[o].flags
        /\ exec'[o].step \in {"commit", "none", "undo", "classify"}
    <3>1. CASE Becomes(o, [exec[o] EXCEPT !.step = "commit", !.flags = @ \cup {"final"}])
      BY <1>0, <1>2, <1>4, <1>15, <3>1 DEF SnapshotFinalizes, At, Becomes, ExecType
    <3>2. CASE Becomes(o, SnapshotCaught([exec[o] EXCEPT !.flags = @ \ {"offline"}]))
      <4>1. /\ SnapshotCaught([exec[o] EXCEPT !.flags = @ \ {"offline"}]).step
                 \in {"none", "undo", "classify"}
            /\ SnapshotCaught([exec[o] EXCEPT !.flags = @ \ {"offline"}]).flags
                 \subseteq exec[o].flags
        BY <1>2, BlindEnders
      <4> QED BY <1>0, <1>4, <1>15, <3>2, <4>1 DEF SnapshotFinalizes, At, Becomes
    <3> QED BY <1>15, <3>1, <3>2 DEF SnapshotFinalizes
  <2> QED BY <1>1, <1>5, <1>15, <2>1 DEF SnapshotFinalizes, rowVars, SameMarks, CallSteps
<1>16. CASE SnapshotCommit(o)
  <2>1. Becomes(o, exec'[o]) /\ "compensated" \notin exec'[o].flags
        /\ exec'[o].step \in {"none", "classify", "undo", "recheck"}
    BY <1>0, <1>2, <1>4, <1>16, SnapshotEnders DEF SnapshotCommit, SnapshotAcks, At, Becomes
  <2>2. Ends(o)
    BY <1>16 DEF SnapshotCommit, Running, Ends, SameMarks
  <2> QED BY <1>1, <1>16, <2>1, <2>2, EndAdvances DEF SnapshotCommit
<1>17. CASE UndoBegins(o)
  <2>1. Becomes(o, exec'[o]) /\ "compensated" \notin exec'[o].flags
        /\ exec'[o].step \in {"compensate", "recheck"}
    <3>1. CASE Becomes(o, [exec[o] EXCEPT !.step = "compensate", !.scope = Captured(o)])
      BY <1>0, <1>2, <1>4, <1>17, <3>1 DEF UndoBegins, At, Becomes, ExecType
    <3>2. CASE Becomes(o, [exec[o] EXCEPT !.step = "recheck"])
      BY <1>0, <1>2, <1>4, <1>17, <3>2 DEF UndoBegins, At, Becomes, ExecType
    <3> QED BY <1>17, <3>1, <3>2 DEF UndoBegins, Goto
  <2>2. UNCHANGED op /\ SameMarks /\ UNCHANGED worker
    BY <1>17 DEF UndoBegins, rowVars, SameMarks
  <2>3. exec'[o].step = "compensate" => op[o].status = "running"
    <3>1. CASE Running(o)
      BY <3>1 DEF Running
    <3>2. CASE Goto(o, "recheck")
      BY <1>0, <1>2, <3>2 DEF Goto, Becomes, ExecType
    <3> QED BY <1>17, <3>1, <3>2 DEF UndoBegins
  <2> QED BY <1>1, <1>5, <2>1, <2>2, <2>3 DEF CallSteps
<1>18. ASSUME NEW i, UndoPasses(o, i) PROVE Advances(o)
  <2>1. Becomes(o, exec'[o]) /\ "compensated" \notin exec'[o].flags
        /\ exec'[o].step \in {"compensate"}
    BY <1>0, <1>2, <1>4, <1>18, SnapshotEnders DEF UndoPasses, Covered, Missed, At, Becomes,
         ExecType
  <2>2. UNCHANGED op /\ SameMarks /\ UNCHANGED worker
    BY <1>18 DEF UndoPasses, rowVars, SameMarks
  <2>3. op[o].status = "running"
    BY <1>2, <1>18 DEF UndoPasses, At, Agrees
  <2> QED BY <1>1, <1>5, <2>1, <2>2, <2>3 DEF CallSteps
<1>19. ASSUME NEW i, UndoBegin(o, i) PROVE Advances(o)
  <2>1. Becomes(o, exec'[o]) /\ "compensated" \notin exec'[o].flags
        /\ exec'[o].step \in {"compensate", "delete"}
    <3>1. CASE Becomes(o, [exec[o] EXCEPT !.step = "delete", !.item = i])
      BY <1>0, <1>2, <1>4, <1>19, <3>1 DEF UndoBegin, At, Becomes, ExecType
    <3>2. CASE Becomes(o, Missed(exec[o], i))
      BY <1>0, <1>2, <1>4, <1>19, <3>2 DEF UndoBegin, Covered, Missed, At, Becomes, ExecType
    <3> QED BY <1>19, <3>1, <3>2 DEF UndoBegin
  <2>2. UNCHANGED op /\ SameMarks /\ UNCHANGED worker
    BY <1>19 DEF UndoBegin, rowVars, SameMarks
  <2>3. op[o].status = "running"
    BY <1>2, <1>19 DEF UndoBegin, At, Agrees
  <2>4. exec'[o].step = "delete" => op[o].intent
    <3>1. CASE op[o].intent
      BY <3>1
    <3>2. CASE Becomes(o, Missed(exec[o], i))
      BY <1>0, <1>2, <3>2 DEF Missed, Covered, Becomes, ExecType
    <3> QED BY <1>19, <3>1, <3>2 DEF UndoBegin
  <2> QED BY <1>1, <1>5, <2>1, <2>2, <2>3, <2>4 DEF CallSteps, Armed
<1>20. CASE UndoCall(o)
  <2>1. Becomes(o, exec'[o]) /\ exec'[o].flags = exec[o].flags /\ exec'[o].step = "await_delete"
    BY <1>0, <1>2, <1>20 DEF UndoCall, Goto, Becomes, ExecType
  <2>2. Armed(o) /\ "compensated" \notin exec[o].flags
    BY <1>2, <1>3, <1>20 DEF UndoCall, At, Agrees, CallSteps, Armed
  <2>3. UNCHANGED op /\ UNCHANGED worker /\ Touches(o)
    BY <1>20, <2>2 DEF UndoCall, Submit, rowVars, Touches, LedgerInv, TypeInv, HistoryType
  <2>4. Agrees(op'[o], exec'[o], Seen(o)')
    BY <1>3, <2>1, <2>2, <2>3 DEF Agrees, Armed
  <2> QED BY <1>1, <2>1, <2>3, <2>4 DEF Advances, LedgerMove
<1>21. CASE UndoReturns(o)
  <2>1. Becomes(o, exec'[o]) /\ "compensated" \notin exec'[o].flags
        /\ exec'[o].step \in {"compensate"}
    <3>1. CASE Becomes(o, Covered(exec[o], exec[o].item))
      BY <1>0, <1>2, <1>4, <1>21, <3>1 DEF UndoReturns, Covered, Missed, At, Becomes, ExecType
    <3>2. CASE Becomes(o, Missed(exec[o], exec[o].item))
      BY <1>0, <1>2, <1>4, <1>21, <3>2 DEF UndoReturns, Covered, Missed, At, Becomes, ExecType
    <3> QED BY <1>21, <3>1, <3>2 DEF UndoReturns
  <2>2. UNCHANGED op /\ SameMarks /\ UNCHANGED worker
    BY <1>21 DEF UndoReturns, rowVars, SameMarks
  <2>3. Armed(o)
    BY <1>2, <1>3, <1>21 DEF UndoReturns, At, Agrees, CallSteps, Armed
  <2> QED BY <1>1, <1>5, <2>1, <2>2, <2>3 DEF Armed
<1>22. CASE UndoFails(o)
  <2>1. Becomes(o, exec'[o]) /\ "compensated" \notin exec'[o].flags
        /\ exec'[o].step \in {"compensate"}
    BY <1>0, <1>2, <1>4, <1>22, SnapshotEnders DEF UndoFails, Covered, Missed, At, Becomes, ExecType
  <2>2. UNCHANGED op /\ SameMarks /\ UNCHANGED worker
    BY <1>22 DEF UndoFails, rowVars, SameMarks
  <2>3. Armed(o)
    BY <1>2, <1>3, <1>22 DEF UndoFails, At, Agrees, CallSteps, Armed
  <2> QED BY <1>1, <1>5, <2>1, <2>2, <2>3 DEF Armed
<1>23. CASE UndoEnds(o)
  <2>1. /\ exec[o].step = "compensate" /\ op[o].status = "running"
        /\ "compensated" \notin exec[o].flags
    BY <1>2, <1>23 DEF UndoEnds, At, Agrees
  <2>2. Becomes(o, exec'[o]) /\ exec'[o].step = "recheck"
    BY <1>0, <1>2, <1>23 DEF UndoEnds, Becomes, ExecType
  <2>3. UNCHANGED op /\ UNCHANGED worker
    BY <1>23 DEF UndoEnds, rowVars
  <2>4. CASE "stuck" \in exec[o].flags
    <3>1. exec'[o].flags = exec[o].flags /\ SameMarks
      BY <1>0, <1>2, <1>23, <2>4 DEF UndoEnds, Becomes, ExecType, Flagged, SameMarks
    <3> QED BY <1>1, <1>5, <2>1, <2>2, <2>3, <3>1 DEF CallSteps
  <2>5. CASE "stuck" \notin exec[o].flags
    <3>1. Witnesses(o)
      BY <1>23, <2>1, <2>3, <2>5 DEF UndoEnds, Flagged, Witnesses, LedgerInv, TypeInv, HistoryType
    <3>2. Seen(o)'
      BY <3>1 DEF Witnesses, Seen
    <3>3. Agrees(op'[o], exec'[o], Seen(o)')
      BY <1>3, <2>2, <2>3, <3>2 DEF Agrees, CallSteps
    <3> QED BY <1>1, <2>2, <2>3, <3>1, <3>3 DEF Advances, LedgerMove
  <2> QED BY <1>1, <2>4, <2>5
<1>24. CASE SnapshotRechecks(o)
  <2>1. Becomes(o, exec'[o]) /\ exec'[o].step = "classify" /\ exec'[o].flags \subseteq exec[o].flags
    <3>1. CASE Becomes(o, [exec[o] EXCEPT !.step = "classify"])
      BY <1>0, <1>2, <1>24, <3>1 DEF SnapshotRechecks, At, Becomes, ExecType
    <3>2. CASE Becomes(o, [exec[o] EXCEPT !.step = "classify", !.flags = @ \ {"offline"}])
      BY <1>0, <1>2, <1>24, <3>2 DEF SnapshotRechecks, At, Becomes, ExecType
    <3> QED BY <1>24, <3>1, <3>2 DEF SnapshotRechecks, Goto
  <2>2. Agrees(op[o], exec'[o], Seen(o))
    BY <1>2, <1>3, <2>1 DEF Agrees, CallSteps
  <2> QED BY <1>1, <1>24, <2>1, <2>2, StayAdvances DEF SnapshotRechecks, rowVars, SameMarks
<1>25. CASE SnapshotFail(o)
  <2>1. SnapshotIsSafe(o) => Seen(o)
    BY <1>2, <1>3 DEF SnapshotIsSafe, Pristine, Flagged, Agrees, RowControl, Seen
  <2>2. SnapshotIsSafe(o) \in BOOLEAN
    BY DEF SnapshotIsSafe
  <2> QED BY <1>1, <1>25, <2>1, <2>2, SnapshotEnds, FailAdvances DEF SnapshotFail, rowVars,
       SameMarks
<1> QED BY <1>1, <1>6, <1>7, <1>8, <1>9, <1>10, <1>11, <1>12, <1>13, <1>14, <1>15, <1>16, <1>17,
           <1>18, <1>19, <1>20, <1>21, <1>22, <1>23, <1>24, <1>25 DEF SnapshotStep

-----------------------------------------------------------------------------
(* Create.  A compensation is believed when it met no failure, and then it    *)
(* has seen each of its effects undone.                                      *)
LEMMA CreateEnds ==
  ASSUME LedgerInv, NEW o \in OpIds, op[o].status \in Nonterminal, NEW safe \in BOOLEAN,
         Settles(o, safe), safe => Seen(o)
  PROVE  Ends(o)
  BY DEF Settles, Ends, SameMarks

LEMMA CreateEnders ==
  ASSUME NEW e \in ExecType
  PROVE  /\ CreateCaught(e).step \in {"compensate", "classify"} /\ CreateCaught(e).flags = e.flags
         /\ CreateCaught(e).step = "compensate" => MayCompensate(e)
         /\ Idle.step = "none" /\ Idle.flags = {}
  BY DEF CreateCaught, ExecType, Idle

LEMMA UncertainEnders ==
  ASSUME NEW e \in ExecType
  PROVE  /\ CreateCaught(Uncertain(e)).step \in {"compensate", "classify"}
         /\ CreateCaught(Uncertain(e)).flags \subseteq e.flags \cup {"uncertain"}
<1>1. Uncertain(e) \in ExecType /\ Uncertain(e).flags \subseteq e.flags \cup {"uncertain"}
  BY DEF Uncertain, ExecType, Flags
<1> QED BY <1>1, CreateEnders

LEMMA StuckEnders ==
  ASSUME NEW e \in ExecType, NEW i
  PROVE  /\ Drops(e, i).step = "compensate" /\ Drops(e, i).flags = e.flags
         /\ Stuck(Drops(e, i)).step = "compensate"
         /\ Stuck(Drops(e, i)).flags \subseteq e.flags \cup {"stuck"}
         /\ [Drops(e, i) EXCEPT !.gone = @ \cup {i}].step = "compensate"
         /\ [Drops(e, i) EXCEPT !.gone = @ \cup {i}].flags = e.flags
<1>1. Drops(e, i).step = "compensate" /\ Drops(e, i).flags = e.flags
  BY DEF Drops, ExecType
<1>2. Drops(e, i) \in [step : Steps, item : {NoItem}, reply : {"none"}, scope : SUBSET Items,
                       gone : SUBSET Items, flags : SUBSET Flags]
  BY DEF Drops, ExecType, Steps
<1> QED BY <1>1, <1>2 DEF Stuck

LEMMA CreateAdvances ==
  ASSUME LedgerInv, NEW o \in OpIds, CreateStep(o)
  PROVE  exec[o].step # "none" /\ Advances(o)
<1>0. exec \in [OpIds -> ExecType]
  BY DEF LedgerInv, TypeInv, ProcessTyped
<1>1. exec[o].step # "none" /\ op[o].type = "create"
  BY DEF CreateStep, CreateThrows, CreateClaim, CreateMaterialize, CreateCommitIntent,
         CreateBegin, CreateCall, CreateReturns, CreateRecord, CreateItemFails, CreateAttempt,
         CreateComplete, CompensateBegin, CompensateCall, CompensateReturns, CompensateFails,
         CompensateFile, CompensationEnds, CreateFail, At
<1>2. /\ exec[o] \in ExecType /\ op[o] \in OpType /\ op[o].status # "absent"
      /\ Agrees(op[o], exec[o], Seen(o)) /\ RowControl(o)
  BY <1>1, AtStep
<1>3. ArmedSteps(op[o].type) = CallSteps \cup {"begin", "compensate"}
  BY <1>1 DEF ArmedSteps
<1>4. exec[o].step \notin {"recheck", "classify"} => "compensated" \notin exec[o].flags
  BY <1>2 DEF Agrees
<1>5. exec[o].step \in ArmedSteps(op[o].type) => Armed(o)
  BY <1>2 DEF Agrees, Armed
(* Where a throw leads before the intent, between the two, and at the end.   *)
<1>6. exec[o].step \in {"claim", "materialize", "intent", "complete"} => ~MayCompensate(exec[o])
  BY <1>1, <1>2 DEF Agrees, MayCompensate
(* The steps that move nothing but the executor or one row of the inventory. *)
<1>7. ASSUME Becomes(o, exec'[o]), UNCHANGED op, SameMarks, UNCHANGED worker,
             "compensated" \notin exec'[o].flags,
             \/ exec'[o].step = "classify"
             \/ exec'[o].step = "intent" /\ "intent" \notin exec'[o].flags
             \/ exec'[o].step = "complete" /\ "attempted" \in exec'[o].flags
             \/ /\ Armed(o)
                /\ exec'[o].step \in {"begin", "call", "await", "record", "compensate", "delete"}
      PROVE  Advances(o)
  <2>1. Agrees(op[o], exec'[o], Seen(o))
    BY <1>1, <1>3, <1>7 DEF Agrees, Armed, CallSteps
  <2> QED BY <1>1, <1>7, <2>1, StayAdvances
<1>8. CASE CreateThrows(o)
  <2>1. UNCHANGED op /\ SameMarks /\ UNCHANGED worker
    BY <1>8 DEF CreateThrows, rowVars, SameMarks
  <2>2. Becomes(o, exec'[o]) /\ "compensated" \notin exec'[o].flags
        /\ exec'[o].step \in {"compensate", "classify"}
        /\ (exec'[o].step = "compensate" => MayCompensate(exec[o]))
    BY <1>0, <1>2, <1>4, <1>8, CreateEnders DEF CreateThrows, Becomes
  <2>3. MayCompensate(exec[o]) => Armed(o)
    BY <1>3, <1>5, <1>6, <1>8 DEF CreateThrows
  <2> QED BY <1>1, <1>7, <2>1, <2>2, <2>3
<1>9. CASE CreateClaim(o)
  <2>1. ~MayCompensate(exec[o]) /\ "compensated" \notin exec[o].flags
    BY <1>4, <1>6, <1>9 DEF CreateClaim, At
  <2>2. Becomes(o, exec'[o])
        /\ exec'[o].step \in {"materialize", "classify"} /\ "compensated" \notin exec'[o].flags
        /\ (exec'[o].step = "materialize" => exec'[o].flags = exec[o].flags)
    <3>1. CASE Becomes(o, [exec[o] EXCEPT !.step = "materialize"])
      BY <1>0, <1>2, <2>1, <3>1 DEF Becomes, ExecType
    <3>2. CASE Becomes(o, CreateCaught(exec[o]))
      BY <1>0, <1>2, <2>1, <3>2, CreateEnders DEF Becomes
    <3> QED BY <1>9, <3>1, <3>2 DEF CreateClaim, Acknowledged
  <2>3. op'[o].type = op[o].type /\ Claims(o)
    BY <1>9 DEF CreateClaim, ClaimRow, Claims, SameMarks, LedgerInv, TypeInv, RowsTyped, OpType
  <2>4. "intent" \notin exec[o].flags
    BY <1>1, <1>2, <1>9 DEF CreateClaim, At, Agrees
  <2>5. Agrees(op'[o], exec'[o], Seen(o))
    BY <1>1, <1>3, <2>2, <2>3, <2>4 DEF Agrees, CallSteps
  <2> QED BY <1>1, <1>9, <2>2, <2>3, <2>5, RowAdvances DEF CreateClaim
<1>10. CASE CreateMaterialize(o)
  <2>1. ~MayCompensate(exec[o]) /\ "compensated" \notin exec[o].flags
    BY <1>4, <1>6, <1>10 DEF CreateMaterialize, At
  <2>2. Becomes(o, exec'[o])
        /\ exec'[o].step \in {"intent", "classify"} /\ "compensated" \notin exec'[o].flags
        /\ (exec'[o].step = "intent" => exec'[o].flags = exec[o].flags)
    <3>1. CASE Becomes(o, [exec[o] EXCEPT !.step = "intent"])
      BY <1>0, <1>2, <2>1, <3>1 DEF Becomes, ExecType
    <3>2. CASE Becomes(o, CreateCaught(exec[o]))
      BY <1>0, <1>2, <2>1, <3>2, CreateEnders DEF Becomes
    <3> QED BY <1>10, <3>1, <3>2 DEF CreateMaterialize, Acknowledged
  <2>3. "intent" \notin exec[o].flags
    BY <1>1, <1>2, <1>10 DEF CreateMaterialize, At, Agrees
  <2>4. UNCHANGED op /\ SameMarks /\ UNCHANGED worker
    BY <1>10 DEF CreateMaterialize, SameMarks
  <2> QED BY <1>1, <1>7, <2>2, <2>3, <2>4
<1>11. CASE CreateCommitIntent(o)
  <2>1. ~MayCompensate(exec[o]) /\ "compensated" \notin exec[o].flags
    BY <1>4, <1>6, <1>11 DEF CreateCommitIntent, At
  <2>2. Becomes(o, exec'[o])
        /\ exec'[o].step \in {"begin", "classify"} /\ "compensated" \notin exec'[o].flags
        /\ (exec'[o].step = "begin" => exec'[o].flags = exec[o].flags \cup {"intent"})
    <3>1. CASE Becomes(o, [exec[o] EXCEPT !.step = "begin", !.flags = @ \cup {"intent"}])
      BY <1>0, <1>2, <2>1, <3>1 DEF Becomes, ExecType
    <3>2. CASE Becomes(o, CreateCaught(exec[o]))
      BY <1>0, <1>2, <2>1, <3>2, CreateEnders DEF Becomes
    <3> QED BY <1>11, <3>1, <3>2 DEF CreateCommitIntent, Acknowledged
  <2>3. op'[o].type = op[o].type /\ op'[o].status = "running" /\ op'[o].intent /\ Intends(o)
    BY <1>2, <1>11 DEF CreateCommitIntent, PreProvider, Intends, SameMarks, LedgerInv, TypeInv,
         RowsTyped, OpType
  <2>4. Agrees(op'[o], exec'[o], Seen(o))
    BY <1>1, <2>2, <2>3 DEF Agrees
  <2> QED BY <1>1, <1>11, <2>2, <2>3, <2>4, RowAdvances DEF CreateCommitIntent
<1>12. ASSUME NEW i, CreateBegin(o, i) PROVE Advances(o)
  <2>1. UNCHANGED op /\ SameMarks /\ UNCHANGED worker
    BY <1>12 DEF CreateBegin, SameMarks
  <2>2. Armed(o) /\ "compensated" \notin exec[o].flags /\ exec[o].step = "begin"
    BY <1>3, <1>4, <1>5, <1>12 DEF CreateBegin, At, CallSteps
  <2>3. Becomes(o, exec'[o]) /\ "compensated" \notin exec'[o].flags
        /\ exec'[o].step \in {"begin", "call", "compensate", "classify"}
    <3>1. CASE Becomes(o, exec[o])
      BY <1>0, <2>2, <3>1 DEF Becomes
    <3>2. CASE Becomes(o, [exec[o] EXCEPT !.step = "call", !.item = i,
                             !.scope = IF i.kind = "file" THEN @ \cup {i} ELSE @])
      BY <1>0, <1>2, <2>2, <3>2 DEF Becomes, ExecType
    <3>3. CASE Becomes(o, CreateCaught(exec[o]))
      BY <1>0, <1>2, <2>2, <3>3, CreateEnders DEF Becomes
    <3> QED BY <1>12, <3>1, <3>2, <3>3 DEF CreateBegin, Acknowledged
  <2> QED BY <1>1, <1>7, <2>1, <2>2, <2>3
<1>13. CASE CreateCall(o)
  <2>1. Becomes(o, exec'[o]) /\ exec'[o].flags = exec[o].flags
        /\ exec'[o].step \in {"await", "record"}
    BY <1>0, <1>2, <1>13 DEF CreateCall, Goto, Becomes, ExecType
  <2>2. Armed(o) /\ "compensated" \notin exec[o].flags
    BY <1>3, <1>4, <1>5, <1>13 DEF CreateCall, At, CallSteps
  <2>3. UNCHANGED op /\ UNCHANGED worker /\ Touches(o)
    BY <1>13, <2>2 DEF CreateCall, Submit, rowVars, Touches, LedgerInv, TypeInv, HistoryType
  <2>4. Agrees(op'[o], exec'[o], Seen(o)')
    BY <1>1, <2>1, <2>2, <2>3 DEF Agrees, Armed
  <2> QED BY <1>1, <2>1, <2>3, <2>4 DEF Advances, LedgerMove
<1>14. CASE CreateReturns(o)
  <2>1. UNCHANGED op /\ SameMarks /\ UNCHANGED worker
    BY <1>14 DEF CreateReturns, rowVars, SameMarks
  <2>2. Armed(o) /\ "compensated" \notin exec[o].flags
    BY <1>1, <1>3, <1>4, <1>5, <1>14 DEF CreateReturns, At, CallSteps
  <2>3. Becomes(o, exec'[o]) /\ "compensated" \notin exec'[o].flags
        /\ exec'[o].step \in {"record"}
    <3>1. CASE Becomes(o, [exec[o] EXCEPT !.step = "record", !.reply = "none"])
      BY <1>0, <1>2, <2>2, <3>1 DEF Becomes, ExecType
    <3> QED BY <1>14, <3>1 DEF CreateReturns
  <2> QED BY <1>1, <1>7, <2>1, <2>2, <2>3
<1>15. CASE CreateRecord(o)
  <2>1. UNCHANGED op /\ SameMarks /\ UNCHANGED worker
    BY <1>15 DEF CreateRecord, rowVars, SameMarks
  <2>2. Armed(o) /\ "compensated" \notin exec[o].flags
    BY <1>1, <1>3, <1>4, <1>5, <1>15 DEF CreateRecord, At, CallSteps
  <2>3. Becomes(o, exec'[o]) /\ "compensated" \notin exec'[o].flags
        /\ exec'[o].step \in {"begin", "compensate", "classify"}
    <3>1. CASE Becomes(o, [exec[o] EXCEPT !.step = "begin", !.item = NoItem,
                             !.scope = IF exec[o].item \in Managed THEN @ \cup {exec[o].item} ELSE @])
      BY <1>0, <1>2, <2>2, <3>1 DEF Becomes, ExecType
    <3>2. CASE Becomes(o, CreateCaught(Uncertain(exec[o])))
      BY <1>0, <1>2, <2>2, <3>2, UncertainEnders DEF Becomes
    <3> QED BY <1>15, <3>1, <3>2 DEF CreateRecord
  <2> QED BY <1>1, <1>7, <2>1, <2>2, <2>3
<1>16. CASE CreateItemFails(o)
  <2>1. UNCHANGED op /\ SameMarks /\ UNCHANGED worker
    BY <1>16 DEF CreateItemFails, rowVars, SameMarks
  <2>2. Armed(o) /\ "compensated" \notin exec[o].flags
    BY <1>1, <1>3, <1>4, <1>5, <1>16 DEF CreateItemFails, At, CallSteps
  <2>3. Becomes(o, exec'[o]) /\ "compensated" \notin exec'[o].flags
        /\ exec'[o].step \in {"compensate", "classify"}
    <3>1. CASE Becomes(o, CreateCaught(Uncertain(exec[o])))
      BY <1>0, <1>2, <2>2, <3>1, UncertainEnders DEF Becomes
    <3> QED BY <1>16, <3>1 DEF CreateItemFails
  <2> QED BY <1>1, <1>7, <2>1, <2>2, <2>3
<1>17. CASE CreateAttempt(o)
  <2>1. UNCHANGED op /\ SameMarks /\ UNCHANGED worker
    BY <1>17 DEF CreateAttempt, rowVars, SameMarks
  <2>2. Becomes(o, exec'[o]) /\ exec'[o].step = "complete"
        /\ exec'[o].flags = exec[o].flags \cup {"attempted"}
    BY <1>0, <1>2, <1>17 DEF CreateAttempt, Becomes, ExecType
  <2>3. "compensated" \notin exec[o].flags
    BY <1>4, <1>17 DEF CreateAttempt, At
  <2> QED BY <1>1, <1>7, <2>1, <2>2, <2>3
<1>18. CASE CreateComplete(o)
  <2>1. ~MayCompensate(exec[o]) /\ "compensated" \notin exec[o].flags
    BY <1>4, <1>6, <1>18 DEF CreateComplete, At
  <2>2. Becomes(o, exec'[o]) /\ exec'[o].step \in {"none", "classify", "undo", "recheck"}
        /\ "compensated" \notin exec'[o].flags
    BY <1>0, <1>2, <1>18, <2>1, CreateEnders DEF CreateComplete, Acknowledged, Becomes
  <2>3. Ends(o)
    BY <1>18 DEF CreateComplete, Fenced, Ends, SameMarks
  <2> QED BY <1>1, <1>18, <2>2, <2>3, EndAdvances DEF CreateComplete
<1>19. ASSUME NEW i, CompensateBegin(o, i) PROVE Advances(o)
  <2>1. UNCHANGED op /\ SameMarks /\ UNCHANGED worker
    BY <1>19 DEF CompensateBegin, rowVars, SameMarks
  <2>2. Armed(o) /\ "compensated" \notin exec[o].flags
    BY <1>1, <1>3, <1>4, <1>5, <1>19 DEF CompensateBegin, At, CallSteps
  <2>3. Becomes(o, exec'[o]) /\ "compensated" \notin exec'[o].flags
        /\ exec'[o].step \in {"delete", "compensate"}
    <3>1. CASE Becomes(o, [exec[o] EXCEPT !.step = "delete", !.item = i])
      BY <1>0, <1>2, <2>2, <3>1 DEF Becomes, ExecType
    <3>2. CASE Becomes(o, Stuck(Drops(exec[o], i)))
      BY <1>0, <1>2, <2>2, <3>2, StuckEnders DEF Becomes
    <3> QED BY <1>19, <3>1, <3>2 DEF CompensateBegin
  <2> QED BY <1>1, <1>7, <2>1, <2>2, <2>3
<1>20. CASE CompensateCall(o)
  <2>1. Becomes(o, exec'[o]) /\ exec'[o].flags = exec[o].flags /\ exec'[o].step = "await_delete"
    BY <1>0, <1>2, <1>20 DEF CompensateCall, Goto, Becomes, ExecType
  <2>2. Armed(o) /\ "compensated" \notin exec[o].flags
    BY <1>3, <1>4, <1>5, <1>20 DEF CompensateCall, At, CallSteps
  <2>3. UNCHANGED op /\ UNCHANGED worker /\ Touches(o)
    BY <1>20, <2>2 DEF CompensateCall, Submit, rowVars, Touches, LedgerInv, TypeInv, HistoryType
  <2>4. Agrees(op'[o], exec'[o], Seen(o)')
    BY <1>1, <2>1, <2>2, <2>3 DEF Agrees, Armed
  <2> QED BY <1>1, <2>1, <2>3, <2>4 DEF Advances, LedgerMove
<1>21. CASE CompensateReturns(o)
  <2>1. UNCHANGED op /\ SameMarks /\ UNCHANGED worker
    BY <1>21 DEF CompensateReturns, rowVars, SameMarks
  <2>2. Armed(o) /\ "compensated" \notin exec[o].flags
    BY <1>1, <1>3, <1>4, <1>5, <1>21 DEF CompensateReturns, At, CallSteps
  <2>3. Becomes(o, exec'[o]) /\ "compensated" \notin exec'[o].flags
        /\ exec'[o].step \in {"compensate"}
    <3>1. CASE Becomes(o, [Drops(exec[o], exec[o].item) EXCEPT !.gone = @ \cup {exec[o].item}])
      BY <1>0, <1>2, <2>2, <3>1, StuckEnders DEF Becomes
    <3>2. CASE Becomes(o, Stuck(Drops(exec[o], exec[o].item)))
      BY <1>0, <1>2, <2>2, <3>2, StuckEnders DEF Becomes
    <3> QED BY <1>21, <3>1, <3>2 DEF CompensateReturns
  <2> QED BY <1>1, <1>7, <2>1, <2>2, <2>3
<1>22. CASE CompensateFails(o)
  <2>1. UNCHANGED op /\ SameMarks /\ UNCHANGED worker
    BY <1>22 DEF CompensateFails, rowVars, SameMarks
  <2>2. Armed(o) /\ "compensated" \notin exec[o].flags
    BY <1>1, <1>3, <1>4, <1>5, <1>22 DEF CompensateFails, At, CallSteps
  <2>3. Becomes(o, exec'[o]) /\ "compensated" \notin exec'[o].flags
        /\ exec'[o].step \in {"compensate"}
    <3>1. CASE Becomes(o, Stuck(Drops(exec[o], exec[o].item)))
      BY <1>0, <1>2, <2>2, <3>1, StuckEnders DEF Becomes
    <3> QED BY <1>22, <3>1 DEF CompensateFails
  <2> QED BY <1>1, <1>7, <2>1, <2>2, <2>3
<1>23. ASSUME NEW i, CompensateFile(o, i) PROVE Advances(o)
  <2>1. UNCHANGED op /\ SameMarks /\ UNCHANGED worker
    BY <1>23 DEF CompensateFile, rowVars, SameMarks
  <2>2. Armed(o) /\ "compensated" \notin exec[o].flags
    BY <1>1, <1>3, <1>4, <1>5, <1>23 DEF CompensateFile, At, CallSteps
  <2>3. Becomes(o, exec'[o]) /\ "compensated" \notin exec'[o].flags
        /\ exec'[o].step \in {"compensate"}
    <3>1. CASE Becomes(o, Drops(exec[o], i))
      BY <1>0, <1>2, <2>2, <3>1, StuckEnders DEF Becomes
    <3>2. CASE Becomes(o, Stuck(Drops(exec[o], i)))
      BY <1>0, <1>2, <2>2, <3>2, StuckEnders DEF Becomes
    <3> QED BY <1>23, <3>1, <3>2 DEF CompensateFile
  <2> QED BY <1>1, <1>7, <2>1, <2>2, <2>3
<1>24. CASE CompensationEnds(o)
  <2>1. Armed(o) /\ "compensated" \notin exec[o].flags
    BY <1>3, <1>4, <1>5, <1>24 DEF CompensationEnds, At
  <2>2. Becomes(o, exec'[o]) /\ exec'[o].step = "classify"
        /\ exec'[o].flags = exec[o].flags \cup {"compensated"}
    BY <1>0, <1>2, <1>24 DEF CompensationEnds, Becomes, ExecType
  <2>3. UNCHANGED op /\ UNCHANGED worker
    BY <1>24 DEF CompensationEnds, rowVars
  <2>4. CASE "stuck" \in exec[o].flags
    <3>1. SameMarks
      BY <1>24, <2>4 DEF CompensationEnds, Flagged, SameMarks
    <3>2. Agrees(op[o], exec'[o], Seen(o))
      BY <1>1, <1>3, <2>2, <2>4 DEF Agrees, CallSteps
    <3> QED BY <1>1, <2>2, <2>3, <3>1, <3>2, StayAdvances
  <2>5. CASE "stuck" \notin exec[o].flags
    <3>1. Witnesses(o)
      BY <1>24, <2>1, <2>3, <2>5 DEF CompensationEnds, Flagged, Armed, Witnesses, LedgerInv,
           TypeInv, HistoryType
    <3>2. Seen(o)'
      BY <3>1 DEF Witnesses, Seen
    <3>3. Agrees(op'[o], exec'[o], Seen(o)')
      BY <1>1, <1>3, <2>2, <2>3, <3>2 DEF Agrees, CallSteps
    <3> QED BY <1>1, <2>2, <2>3, <3>1, <3>3 DEF Advances, LedgerMove
  <2> QED BY <1>1, <2>4, <2>5
<1>25. CASE CreateFail(o)
  <2>1. CreateIsSafe(o) => Seen(o)
    <3>1. CASE op[o].intent
      BY <1>1, <1>2, <3>1 DEF CreateIsSafe, CompensationProven, Flagged, Agrees
    <3>2. CASE ~op[o].intent
      BY <1>2, <3>2 DEF RowControl, Seen
    <3> QED BY <3>1, <3>2
  <2>2. CreateIsSafe(o) \in BOOLEAN
    BY DEF CreateIsSafe, CompensationProven
  <2> QED BY <1>1, <1>25, <2>1, <2>2, CreateEnds, FailAdvances DEF CreateFail, rowVars, SameMarks
<1> QED BY <1>1, <1>8, <1>9, <1>10, <1>11, <1>12, <1>13, <1>14, <1>15, <1>16, <1>17, <1>18, <1>19,
           <1>20, <1>21, <1>22, <1>23, <1>24, <1>25 DEF CreateStep

-----------------------------------------------------------------------------
(* What no executor does: acceptance, startup, the provider, the branch's own *)
(* operations and the process.                                              *)
LEMMA NoExecutorAgrees ==
  ASSUME NEW r, NEW e, NEW seen, e.step = "none", "compensated" \notin e.flags
  PROVE  Agrees(r, e, seen)
  BY DEF Agrees, ArmedSteps, CallSteps

LEMMA AcceptKeeps ==
  ASSUME LedgerInv, NEW o \in OpIds, NEW c \in Capsules, Accept(o, c)
  PROVE  Ledger!Next /\ OnlyServingExecutes' /\ \A p \in OpIds : Control(p)'
<1>1. PICK type \in Types, force \in BOOLEAN : Insert(o, type, c, force)
  BY DEF Accept, AcceptCreate, AcceptSnapshot, AcceptArchival, AcceptDestroy, Types, Archivals
<1>2. /\ op \in [OpIds -> OpType] /\ exec \in [OpIds -> ExecType] /\ history \in HistoryType
      /\ AcceptedOnly
  BY DEF LedgerInv, TypeInv, RowsTyped, ProcessTyped
<1>3. /\ op[o].status = "absent" /\ ~op[o].intent /\ o \notin history.touched
      /\ exec[o].step = "none" /\ "compensated" \notin exec[o].flags
  BY <1>1, <1>2 DEF Insert, AcceptedOnly, LedgerInv, Control, RowControl, Agrees
<1>4. Ledger!Next
  BY <1>1, <1>3, AcceptRefines DEF LedgerInv
<1>5. SameMarks
  BY <1>1, <1>2 DEF Insert, HistoryType, SameMarks
<1>6. /\ \A p \in OpIds \ {o} : op'[p] = op[p] /\ exec'[p] = exec[p]
      /\ op'[o].status = "accepted"
      /\ exec'[o] = exec[o] \/ exec'[o] = Started
  BY <1>1, <1>2 DEF Insert, Becomes
<1>7. \A p \in OpIds \ {o} : Control(p)'
  BY <1>5, <1>6 DEF LedgerInv, Control, RowControl, Seen, SameMarks
<1>8. Control(o)'
  <2>1. RowControl(o)'
    BY <1>3, <1>5, <1>6 DEF RowControl, SameMarks
  <2>2. CASE exec'[o] = exec[o]
    BY <1>3, <2>1, <2>2, NoExecutorAgrees DEF Control
  <2>3. CASE exec'[o] = Started
    <3>1. exec'[o].step = "claim" /\ exec'[o].flags = {}
      BY <2>3 DEF Started, Idle
    <3>2. Agrees(op'[o], exec'[o], Seen(o)')
      BY <3>1 DEF Agrees, ArmedSteps, CallSteps
    <3> QED BY <2>1, <3>2 DEF Control
  <2> QED BY <1>6, <2>2, <2>3
<1>9. OnlyServingExecutes'
  BY <1>1 DEF Insert, OnlyServingExecutes
<1> QED BY <1>4, <1>7, <1>8, <1>9

(* Startup settles what no executor runs any more.                           *)
LEMMA AbandonedEnds ==
  ASSUME LedgerInv, NEW o \in OpIds, ClassifyAbandoned(o)
  PROVE  /\ Ends(o) /\ op[o].status # "absent" /\ UNCHANGED exec
         /\ worker.phase = "classifying"
<1>1. RowControl(o)
  BY DEF LedgerInv, Control
<1>2. CASE AbandonedCreate(o)
  <2>1. AbandonedIsSafe(o) \in BOOLEAN /\ (AbandonedIsSafe(o) => Seen(o))
    BY <1>1 DEF AbandonedIsSafe, Consistent, RowControl, Seen
  <2> QED BY <1>2, <2>1, CreateEnds DEF AbandonedCreate, Listed, Nonterminal
<1>3. CASE AbandonedSnapshot(o)
  <2>1. Pristine(o) \in BOOLEAN /\ (Pristine(o) => Seen(o))
    BY <1>1 DEF Pristine, RowControl, Seen
  <2> QED BY <1>3, <2>1, SnapshotEnds DEF AbandonedSnapshot, Listed, Nonterminal
<1>4. CASE AbandonedArchival(o)
  BY <1>4, ArchivalEnds DEF AbandonedArchival, Listed, Nonterminal
<1>5. CASE AbandonedDestroy(o)
  BY <1>5, DestroyEnds DEF AbandonedDestroy, Listed, Nonterminal
<1> QED BY <1>2, <1>3, <1>4, <1>5 DEF ClassifyAbandoned

LEMMA AbandonedKeeps ==
  ASSUME LedgerInv, NEW o \in OpIds, ClassifyAbandoned(o)
  PROVE  LedgerMove(o) /\ OnlyServingExecutes' /\ \A p \in OpIds : Control(p)'
<1>1. /\ Ends(o) /\ op[o].status # "absent" /\ UNCHANGED exec
      /\ worker.phase = "classifying"
  BY AbandonedEnds
<1>2. LedgerMove(o)
  BY <1>1 DEF LedgerMove
<1>3. \A p \in OpIds : exec[p].step = "none" /\ "compensated" \notin exec[p].flags
  BY <1>1 DEF LedgerInv, OnlyServingExecutes, Control, Agrees
<1>4. \A p \in OpIds : RowControl(p)'
  BY <1>1, <1>2, MoveKeeps DEF LedgerInv, Control, RowControl
<1> QED BY <1>1, <1>2, <1>3, <1>4, NoExecutorAgrees DEF OnlyServingExecutes, Control

(* The rest leaves the rows and the marks alone: the executors move no step,  *)
(* or all end with the process.                                             *)
LEMMA RestKeeps ==
  ASSUME LedgerInv, UNCHANGED op, SameMarks, OnlyServingExecutes',
         \A p \in OpIds : \/ exec'[p].step = exec[p].step /\ exec'[p].flags = exec[p].flags
                          \/ exec'[p] = Idle
  PROVE  \A p \in OpIds : Control(p)'
<1> SUFFICES ASSUME NEW p \in OpIds PROVE Control(p)'
  OBVIOUS
<1>1. Control(p)
  BY DEF LedgerInv
<1>2. RowControl(p)'
  BY <1>1 DEF Control, RowControl, SameMarks
<1>3. (Seen(p)' <=> Seen(p)) /\ Seen(p) \in BOOLEAN /\ Seen(p)' \in BOOLEAN
  BY DEF Seen, SameMarks
<1>4. CASE exec'[p].step = exec[p].step /\ exec'[p].flags = exec[p].flags
  BY <1>1, <1>2, <1>3, <1>4 DEF Control, Agrees
<1>5. CASE exec'[p] = Idle
  <2>1. exec'[p].step = "none" /\ "compensated" \notin exec'[p].flags
    BY <1>5 DEF Idle
  <2> QED BY <1>2, <2>1, NoExecutorAgrees DEF Control
<1> QED BY <1>4, <1>5

LEMMA ProviderRests ==
  ASSUME LedgerInv, Provider
  PROVE  /\ UNCHANGED <<op, worker>> /\ SameMarks
         /\ \A p \in OpIds : exec'[p].step = exec[p].step /\ exec'[p].flags = exec[p].flags
<1>0. exec \in [OpIds -> ExecType] /\ history \in HistoryType
  BY DEF LedgerInv, TypeInv, ProcessTyped
<1>1. ASSUME NEW call, NEW reply, Answer(call, reply)
      PROVE  \A p \in OpIds : exec'[p].step = exec[p].step /\ exec'[p].flags = exec[p].flags
  BY <1>0, <1>1 DEF Answer, ExecType
<1>2. ASSUME NEW call \in pending, Land(call)
      PROVE  /\ UNCHANGED <<op, worker>> /\ SameMarks
             /\ \E reply : Answer(call, reply)
  <2>1. SameMarks
    BY <1>0, <1>2 DEF Land, SameMarks, HistoryType
  <2> QED BY <1>2, <2>1 DEF Land, rowVars
<1>3. ASSUME NEW call \in pending, Refuse(call)
      PROVE  /\ UNCHANGED <<op, worker>> /\ SameMarks
             /\ \E reply : Answer(call, reply)
  BY <1>3 DEF Refuse, rowVars, SameMarks
<1> QED BY <1>1, <1>2, <1>3 DEF Provider

LEMMA OthersKeep ==
  ASSUME LedgerInv,
         \/ Provider
         \/ \E c \in Capsules : BranchStarts(c) \/ BranchStops(c) \/ RuntimeDrifts(c)
         \/ Crash \/ Boot \/ Serve
         \/ UNCHANGED vars
  PROVE  Stays /\ OnlyServingExecutes' /\ \A p \in OpIds : Control(p)'
<1>0. exec \in [OpIds -> ExecType] /\ history \in HistoryType
  BY DEF LedgerInv, TypeInv, ProcessTyped
<1>1. CASE Provider
  <2>1. OnlyServingExecutes'
    BY <1>1, ProviderRests DEF LedgerInv, OnlyServingExecutes
  <2> QED BY <1>1, <2>1, ProviderRests, RestKeeps DEF Stays
<1>2. CASE Crash
  <2>1. UNCHANGED op /\ SameMarks /\ \A p \in OpIds : exec'[p] = Idle
    BY <1>2 DEF Crash, rowVars, SameMarks
  <2>2. OnlyServingExecutes'
    BY <2>1 DEF OnlyServingExecutes, Idle
  <2> QED BY <2>1, <2>2, RestKeeps DEF Stays
<1>3. CASE Boot \/ Serve
  <2>1. UNCHANGED <<op, exec>> /\ SameMarks /\ worker.phase # "serving"
    BY <1>3 DEF Boot, Serve, rowVars, SameMarks
  <2>2. OnlyServingExecutes'
    BY <2>1 DEF LedgerInv, OnlyServingExecutes
  <2> QED BY <2>1, <2>2, RestKeeps DEF Stays
<1>4. CASE \E c \in Capsules : BranchStarts(c) \/ BranchStops(c) \/ RuntimeDrifts(c)
  <2>1. UNCHANGED <<op, exec, worker>> /\ SameMarks
    BY <1>0, <1>4 DEF BranchStarts, BranchStops, RuntimeDrifts, rowVars, SameMarks, HistoryType
  <2>2. OnlyServingExecutes'
    BY <2>1 DEF LedgerInv, OnlyServingExecutes
  <2> QED BY <2>1, <2>2, RestKeeps DEF Stays
<1>5. CASE UNCHANGED vars
  <2>1. UNCHANGED <<op, exec, worker>> /\ SameMarks
    BY <1>5 DEF vars, rowVars, SameMarks
  <2>2. OnlyServingExecutes'
    BY <2>1 DEF LedgerInv, OnlyServingExecutes
  <2> QED BY <2>1, <2>2, RestKeeps DEF Stays
<1> QED BY <1>1, <1>2, <1>3, <1>4, <1>5

-----------------------------------------------------------------------------
LEMMA ExecuteKeeps ==
  ASSUME LedgerInv, NEW o \in OpIds, Execute(o)
  PROVE  LedgerMove(o) /\ OnlyServingExecutes' /\ \A p \in OpIds : Control(p)'
<1>1. exec[o].step # "none" /\ Advances(o)
  BY CreateAdvances, SnapshotAdvances, ArchivalAdvances, DestroyAdvances DEF Execute
<1> QED BY <1>1, AdvanceKeeps DEF Advances

LEMMA NextLedger ==
  LedgerInv /\ [Next]_vars => LedgerInv' /\ [Ledger!Next]_(Ledger!vars)
<1> SUFFICES ASSUME LedgerInv, [Next]_vars PROVE LedgerInv' /\ [Ledger!Next]_(Ledger!vars)
  OBVIOUS
<1>1. TypeInv /\ TypeInv'
  BY NextTyped DEF LedgerInv
<1>2. ASSUME NEW o \in OpIds, NEW c \in Capsules, Accept(o, c)
      PROVE  Ledger!Next /\ OnlyServingExecutes' /\ \A p \in OpIds : Control(p)'
  BY <1>2, AcceptKeeps
<1>3. ASSUME NEW o \in OpIds, Execute(o) \/ ClassifyAbandoned(o)
      PROVE  [Ledger!Next]_(Ledger!vars) /\ OnlyServingExecutes' /\ \A p \in OpIds : Control(p)'
  BY <1>1, <1>3, ExecuteKeeps, AbandonedKeeps, MoveRefines
<1>4. CASE \/ Provider
           \/ \E c \in Capsules : BranchStarts(c) \/ BranchStops(c) \/ RuntimeDrifts(c)
           \/ Crash \/ Boot \/ Serve
           \/ UNCHANGED vars
  <2>1. Stays /\ OnlyServingExecutes' /\ \A p \in OpIds : Control(p)'
    BY <1>4, OthersKeep
  <2>2. [Ledger!Next]_(Ledger!vars)
    BY <2>1 DEF Stays, SameMarks, Ledger!vars
  <2> QED BY <1>1, <2>1, <2>2 DEF LedgerInv
<1> QED BY <1>1, <1>2, <1>3, <1>4 DEF Next, LedgerInv

LEMMA InitLedger == Init => LedgerInv /\ Ledger!Init
<1> SUFFICES ASSUME Init PROVE LedgerInv /\ Ledger!Init
  OBVIOUS
<1>1. TypeInv /\ OnlyServingExecutes
  BY InitTypeInv DEF Init, OnlyServingExecutes
<1>2. history.touched = {} /\ history.witnessed = {}
  BY DEF Init, InitialHistory
<1>3. \A o \in OpIds : op[o].status = "absent" /\ op[o].intent = FALSE
  BY DEF Init, NoOp
<1>4. \A o \in OpIds : exec[o].step = "none" /\ "compensated" \notin exec[o].flags
  BY DEF Init, Idle
<1>5. \A o \in OpIds : Control(o)
  BY <1>2, <1>3, <1>4, NoExecutorAgrees DEF Control, RowControl
<1>6. Ledger!Init
  BY <1>2, <1>3 DEF Ledger!Init
<1> QED BY <1>1, <1>5, <1>6 DEF LedgerInv

(* The inductive invariant: where every executor is, its row agrees.         *)
THEOREM CapsuleLedgerInvariant == Spec => []LedgerInv
  BY InitLedger, NextLedger, PTL DEF Spec

(* Every operation on a capsule goes through its row as OperationLedger says: *)
(* accepted only while nobody owns the capsule, its intent committed before   *)
(* any provider call is made, and never "failed" once it has touched the      *)
(* provider unless it saw its own effects undone - with lost acknowledgements, *)
(* crashes, restarts and calls that land late, for any number of operations. *)
THEOREM CapsuleImplementsLedger == Spec => LedgerSpec
<1>1. Spec => []LedgerInv
  BY CapsuleLedgerInvariant
<1>2. Init => Ledger!Init
  BY InitLedger
<1>3. LedgerInv /\ [Next]_vars => [Ledger!Next]_(Ledger!vars)
  BY NextLedger
<1> QED BY <1>1, <1>2, <1>3, PTL DEF Spec, LedgerSpec, Ledger!Spec

-----------------------------------------------------------------------------
(* What the rows of a capsule say of its objects: nothing is left of a        *)
(* capsule that is gone, an active one is whole, a usable snapshot is backed   *)
(* and was quiet, and "failed" puts the capsule back as it was accepted.      *)
(*                                                                           *)
(* None of these is inductive: each holds because of what the rows, the calls *)
(* still on their way and the executors know of one another.  WholeInv says  *)
(* what, on top of the types, the ledger and the ownership of a capsule.     *)

(* What the provider may hold, and what may still be on its way.             *)
MakePending(c, i) == \E call \in pending : call.verb = "make" /\ Object(call) = <<c, i>>
DropPending(c, i) == \E call \in pending : call.verb = "drop" /\ Object(call) = <<c, i>>

(* A destroy that has recorded its intent has taken the capsule over.        *)
Demolished(c) ==
  \E d \in OpIds : op[d].type = "destroy" /\ CapsuleOf(d) = c /\ op[d].intent
Doomed == {"destroying", "destroyed", "cleanup_required"}

CallFits(call) ==
  LET o == call.op IN
  /\ call.capsule = CapsuleOf(o) /\ op[o].intent
  /\ \/ op[o].type = "create" /\ call.verb # "stop" /\ call.item \in Managed
     \/ op[o].type = "snapshot_create" /\ call.verb # "stop" /\ call.item \in Captured(o)
     \/ op[o].type = "destroy" /\ call.verb # "make"
CallsInv == \A call \in pending : CallFits(call)

ThingFits(c, i) ==
  \/ i = Route \/ i \in Managed
  \/ \E p \in OpIds : op[p].type = "snapshot_create" /\ CapsuleOf(p) = c /\ i \in Captured(p)
ThingsInv == \A x \in exists : ThingFits(x[1], x[2])

(* What the row of an object says about it.                                 *)
ObjectFits(m, c, i) ==
  /\ m \in {"none", "planned", "deleted", "missing"} => <<c, i>> \notin exists
  /\ MakePending(c, i) => m \in {"creating", "error"}
  /\ ~Demolished(c) =>
       /\ m = "created" => <<c, i>> \in exists
       /\ DropPending(c, i) => m \in {"deleting", "deleted", "missing", "error"}
ObjectsInv ==
  /\ \A c \in Capsules, i \in Managed : ObjectFits(rows[c][i], c, i)
  /\ \A p \in OpIds, v \in Versioned :
       op[p].type = "snapshot_create" => ObjectFits(capture[p][v], CapsuleOf(p), Snapshot(v, p))

(* What a capsule's status says about its operations.                        *)
YoungInv ==
  \A c \in Capsules :
    /\ capsule[c].status = "absent" => \A p \in OpIds : CapsuleOf(p) # c
    /\ capsule[c].status = "provisioning" =>
         \A p \in OpIds : CapsuleOf(p) = c => op[p].type = "create"
    /\ capsule[c].status \in {"absent", "provisioning"} => <<c, Route>> \notin exists
    /\ \A p, q \in OpIds : op[p].type = "create" /\ op[q].type = "create" /\ CapsuleOf(p) = c /\ CapsuleOf(q) = c => p = q
DemolishedInv ==
  \A c \in Capsules : Demolished(c) =>
    /\ capsule[c].status \in Doomed
    /\ \A d \in Owner(c) : op[d].force \/ op[d].intent
    /\ Usable(c) = {}

(* A capsule that is whole, or can be given back whole.                      *)
Sound(c) ==
  \/ capsule[c].status \in {"active", "archiving", "unarchiving"}
  \/ \E d \in Owner(c) : op[d].type = "destroy" /\ ~op[d].force
Made(c) == \A i \in Managed : rows[c][i] = "created"
Settled(c) ==
  \A p \in OpIds, v \in Versioned :
    op[p].type = "snapshot_create" /\ CapsuleOf(p) = c /\ op[p].status \in Terminal =>
      capture[p][v] \in {"planned", "created", "deleted", "missing"}
SoundInv == \A c \in Capsules : Sound(c) => Made(c) /\ Settled(c)

CommittedInv ==
  \A o \in OpIds : snapshot[o] # "none" =>
    /\ op[o].type = "snapshot_create" /\ op[o].status = "completed"
    /\ AllCaptures(o, {"created"})
    /\ o \in history.dirty => history.drifts >= 2

TargetsInv ==
  \A d \in OpIds : op[d].type = "destroy" =>
    /\ HasPlan(d) /\ op[d].status \in Nonterminal => Targets(CapsuleOf(d)) \subseteq DOMAIN target[d]
    /\ \A i \in DOMAIN target[d] : target[d][i] \in {"absent", "deleted"} =>
         /\ op[d].intent
         /\ <<CapsuleOf(d), i>> \notin exists
         /\ ~MakePending(CapsuleOf(d), i)

(* The picture taken at the acceptance still holds, but for what the         *)
(* operation itself has made.                                               *)
Prior(o) ==
  [status |-> "active", archived |-> op[o].type \in {"unarchive", "destroy"}, branch |-> "offline"]
BeforeInv ==
  \A c \in Capsules : \A o \in Owner(c) :
    op[o].type # "create" /\ ~(op[o].type = "destroy" /\ op[o].force) =>
      /\ history.before[c].capsule = Prior(o)
      /\ ~(op[o].type = "destroy" /\ op[o].intent) =>
           history.before[c].objects = {x \in exists : x[1] = c /\ x[2] # Route /\ x[2] \notin Captured(o)}
      /\ ~(op[o].type = "destroy" /\ HasPlan(o)) => history.before[c].usable = Usable(c)

(* What a step of an executor knows of the object in hand.                   *)
Working(c, i, e, m) ==
  /\ e.step \in {"call", "await", "record"} => m = "creating"
  /\ e.step = "record" \/ (e.step = "await" /\ e.reply = "ok") =>
       <<c, i>> \in exists /\ ~MakePending(c, i)
  /\ e.step \in {"delete", "await_delete"} => m = "deleting"
  /\ e.step = "await_delete" /\ e.reply \in {"ok", "missing"} => <<c, i>> \notin exists
Waits(e) == e.reply # "none" => e.step \in {"await", "await_stop", "await_delete"}
CreateFits(o, e) ==
  /\ Waits(e)
  /\ e.step \in {"await", "delete", "await_delete"} => e.item \in Managed
  /\ e.item \in Managed => Working(CapsuleOf(o), e.item, e, rows[CapsuleOf(o)][e.item])

CaptureSteps == {"begin", "call", "await", "record"}
DirtyFits(o, e) ==
  LET c == CapsuleOf(o) IN
  /\ e.step \in CaptureSteps =>
       /\ c \in running => history.drifts >= 1
       /\ o \in history.dirty => history.drifts >= 2 \/ (history.drifts >= 1 /\ c \in running)
  /\ e.step = "commit" /\ AllCaptures(o, {"created"}) /\ o \in history.dirty => history.drifts >= 2
SnapshotFits(o, e) ==
  /\ Waits(e)
  /\ e.step \in {"revoke", "verify", "begin", "commit"} => op[o].status = "running"
  /\ e.step \in {"revoke", "verify"} => ~op[o].intent
  /\ e.step \in {"call", "await", "record", "delete", "await_delete"} =>
       /\ e.item \in Captured(o)
       /\ Working(CapsuleOf(o), e.item, e, capture[o][e.item.name])
  /\ e.step \in {"compensate", "delete", "await_delete"} => e.scope \subseteq Captured(o)
  /\ DirtyFits(o, e)

DestroyFits(o, e) ==
  /\ e.step \in {"plan", "retire", "revoke", "fence"} => op[o].status = "running"
  /\ e.step \in {"revoke", "fence"} => Usable(CapsuleOf(o)) = {}

ExecFits(o, e) ==
  /\ op[o].type = "create" => CreateFits(o, e)
  /\ op[o].type = "snapshot_create" => SnapshotFits(o, e)
  /\ op[o].type = "destroy" => DestroyFits(o, e)
ExecsInv == \A o \in OpIds : ExecFits(o, exec[o])
DirtyInv == \A o \in history.dirty : op[o].intent


(* What an operation nobody accepted has.                                   *)
FreshInv ==
  \A o \in OpIds : op[o].status = "absent" =>
    op[o] = NoOp /\ target[o] = NoTargets /\ exec[o] = Idle

StaticInv ==
  /\ FreshInv /\ CallsInv /\ ThingsInv /\ ObjectsInv /\ YoungInv /\ DemolishedInv
  /\ SoundInv /\ CommittedInv /\ TargetsInv /\ BeforeInv /\ DirtyInv /\ GoneLeavesNothing
WholeInv == LedgerInv /\ OwnershipInv /\ StaticInv /\ ExecsInv

-----------------------------------------------------------------------------
(* Items.                                                                   *)
LEMMA ItemsDiffer ==
  /\ Route \notin Managed /\ NoItem \notin Managed /\ BindMount \notin Managed /\ Project \notin Managed
  /\ \A o \in OpIds : Route \notin Captured(o) /\ NoItem \notin Captured(o)
  /\ \A o \in OpIds : \A i \in Captured(o) :
       /\ i \notin Managed
       /\ i.name \in Versioned /\ i = Snapshot(i.name, o) /\ i.op = o /\ i.kind = "snapshot"
  /\ \A i \in Managed : i.kind # "snapshot" /\ i.kind # "file"
  /\ \A o \in OpIds, v \in Versioned : Snapshot(v, o) \in Captured(o) /\ Snapshot(v, o).name = v
<1>1. /\ \A i \in Managed : i.kind \in {"volume", "instance"}
      /\ Route.kind = "route" /\ NoItem.kind = "none" /\ BindMount.kind = "bind"
      /\ Project.kind = "project"
  BY DEF Route, Managed, NoItem, BindMount, Project, Item, Instance, Volume
<1>2. \A o \in OpIds, v \in Versioned :
        /\ Snapshot(v, o).kind = "snapshot" /\ Snapshot(v, o).name = v /\ Snapshot(v, o).op = o
        /\ Snapshot(v, o) \in Captured(o)
  BY DEF Captured, Item, Snapshot
<1>3. \A o \in OpIds : \A i \in Captured(o) : \E v \in Versioned : i = Snapshot(v, o)
  BY DEF Captured
<1> QED BY <1>1, <1>2, <1>3

LEMMA CapturedApart ==
  ASSUME NEW o \in OpIds, NEW p \in OpIds, NEW i \in Captured(o), i \in Captured(p)
  PROVE  o = p
  BY ItemsDiffer

LEMMA InitWhole == Init => WholeInv
<1> SUFFICES ASSUME Init PROVE WholeInv
  OBVIOUS
<1>1. LedgerInv /\ OwnershipInv
  BY InitLedger, InitOwnership
<1>2. \A o \in OpIds : op[o] = NoOp /\ exec[o] = Idle /\ target[o] = NoTargets /\ snapshot[o] = "none"
  BY DEF Init
<1>3. \A c \in Capsules : capsule[c].status = "absent" /\ \A i \in Inventory : rows[c][i] = "none"
  BY DEF Init, NoCapsule, Unmade
<1>4. exists = {} /\ pending = {} /\ history.dirty = {}
  BY DEF Init, InitialHistory
<1>5. \A o \in OpIds : op[o].type = "none" /\ op[o].status = "absent" /\ ~op[o].intent
                       /\ CapsuleOf(o) = None
  BY <1>2 DEF NoOp, CapsuleOf
<1>6. \A c \in Capsules : Owner(c) = {}
  BY <1>5 DEF Owner, NonterminalOps, Nonterminal
<1>7. FreshInv /\ CallsInv /\ ThingsInv /\ DirtyInv /\ CommittedInv /\ TargetsInv /\ ExecsInv
  BY <1>2, <1>4, <1>5 DEF FreshInv, CallsInv, ThingsInv, DirtyInv, CommittedInv, TargetsInv,
       ExecsInv, ExecFits
<1>8. ObjectsInv
  BY <1>3, <1>4, <1>5, ItemsContain DEF ObjectsInv, ObjectFits, MakePending, DropPending
<1>9. YoungInv /\ DemolishedInv /\ BeforeInv
  BY <1>3, <1>4, <1>5, <1>6, NullAssumption DEF YoungInv, DemolishedInv, Demolished, BeforeInv
<1>10. SoundInv /\ GoneLeavesNothing
  BY <1>3, <1>6 DEF SoundInv, Sound, GoneLeavesNothing
<1> QED BY <1>1, <1>7, <1>8, <1>9, <1>10 DEF WholeInv, StaticInv

-----------------------------------------------------------------------------
(* What the invariant says at a capsule.                                    *)

(* The operations whose row says something are not the fresh ones.           *)
LEMMA FreshSaysNothing ==
  ASSUME WholeInv, NEW o \in OpIds, op[o].status = "absent"
  PROVE  /\ op[o].type = "none" /\ ~op[o].intent /\ CapsuleOf(o) = None /\ snapshot[o] = "none"
         /\ target[o] = NoTargets /\ exec[o] = Idle /\ o \notin history.dirty
<1>1. op[o] = NoOp /\ target[o] = NoTargets /\ exec[o] = Idle
  BY DEF WholeInv, StaticInv, FreshInv
<1>2. op[o].type = "none" /\ ~op[o].intent /\ CapsuleOf(o) = None
  BY <1>1 DEF NoOp, CapsuleOf
<1>3. snapshot[o] = "none"
  BY <1>2 DEF WholeInv, StaticInv, CommittedInv
<1>4. o \notin history.dirty
  BY <1>2 DEF WholeInv, StaticInv, DirtyInv
<1> QED BY <1>1, <1>2, <1>3, <1>4

LEMMA Typed ==
  ASSUME WholeInv
  PROVE  /\ TypeInv /\ RowsTyped /\ ProcessTyped /\ ProviderTyped /\ AcceptedOnly
         /\ history \in HistoryType
  BY DEF WholeInv, LedgerInv, TypeInv

(* The unfinished operation of a capsule is its owner, and the only one.      *)
LEMMA OwnerKnows ==
  ASSUME WholeInv, NEW o \in OpIds, op[o].status \in Nonterminal
  PROVE  /\ CapsuleOf(o) \in Capsules /\ o \in Owner(CapsuleOf(o)) /\ Owner(CapsuleOf(o)) = {o}
         /\ Owned(op[o].type, CapsuleOf(o))
         /\ op[o].type \in Types
<1>1. CapsuleOf(o) \in Capsules /\ Owned(op[o].type, CapsuleOf(o))
  BY OwnerIsOwned DEF WholeInv
<1>2. o \in Owner(CapsuleOf(o))
  BY DEF Owner, NonterminalOps
<1>3. Owner(CapsuleOf(o)) = {o}
  BY <1>1, <1>2 DEF WholeInv, OwnershipInv, OneOwner
<1>4. op[o].type \in Types
  BY <1>1 DEF Owned, Types, Archivals
<1> QED BY <1>1, <1>2, <1>3, <1>4

LEMMA OwnedStatus ==
  ASSUME WholeInv, NEW o \in OpIds, op[o].status \in Nonterminal, NEW c, CapsuleOf(o) = c
  PROVE  /\ op[o].type = "create" => capsule[c].status = "provisioning"
         /\ op[o].type = "snapshot_create" => capsule[c].status = "active"
         /\ op[o].type \in Archivals => capsule[c].status \in {"archiving", "unarchiving"}
         /\ op[o].type = "destroy" => capsule[c].status = "destroying"
<1>1. Owned(op[o].type, c)
  BY OwnerKnows
<1> QED BY <1>1 DEF Owned, Archivals, Fence

(* Only a destroy owns a capsule that a destroy has begun to demolish.        *)
LEMMA DemolishedOwner ==
  ASSUME WholeInv, NEW o \in OpIds, op[o].status \in Nonterminal, Demolished(CapsuleOf(o))
  PROVE  op[o].type = "destroy" /\ (op[o].force \/ op[o].intent)
<1>1. /\ CapsuleOf(o) \in Capsules /\ o \in Owner(CapsuleOf(o)) /\ Owned(op[o].type, CapsuleOf(o))
      /\ op[o].type \in Types
  BY OwnerKnows
<1>2. capsule[CapsuleOf(o)].status \in Doomed /\ (op[o].force \/ op[o].intent)
  BY <1>1 DEF WholeInv, StaticInv, DemolishedInv
<1>3. op[o].type = "destroy"
  BY <1>1, <1>2 DEF Owned, Doomed, Archivals, Types, Fence
<1> QED BY <1>2, <1>3

(* A call on its way is its operation's.                                     *)
LEMMA PendingKnows ==
  ASSUME WholeInv, NEW call \in pending
  PROVE  /\ call.op \in OpIds /\ call.capsule \in Capsules /\ call.item \in Items
         /\ call.verb \in {"make", "drop", "stop"}
         /\ CallFits(call) /\ op[call.op].status # "absent" /\ call.capsule = CapsuleOf(call.op)
<1>1. call \in CallType
  BY Typed DEF ProviderTyped
<1>2. CallFits(call)
  BY DEF WholeInv, StaticInv, CallsInv
<1>3. call.op \in OpIds
  BY <1>1 DEF CallType
<1>4. op[call.op].status # "absent"
  BY <1>2, <1>3, FreshSaysNothing DEF CallFits
<1> QED BY <1>1, <1>2, <1>3, <1>4 DEF CallType, CallFits

LEMMA PendingMakes ==
  ASSUME WholeInv, NEW c, NEW i
  PROVE  /\ MakePending(c, i) <=>
              \E call \in pending : call.verb = "make" /\ call.capsule = c /\ call.item = i
         /\ DropPending(c, i) <=>
              \E call \in pending : call.verb = "drop" /\ call.capsule = c /\ call.item = i
  BY DEF MakePending, DropPending, Object

(* What is being made is a managed object or a capture of a known operation,  *)
(* and its row says so.                                                     *)
LEMMA MakingKnows ==
  ASSUME WholeInv, NEW call \in pending, call.verb = "make"
  PROVE  \/ /\ op[call.op].type = "create" /\ call.item \in Managed
            /\ rows[call.capsule][call.item] \in {"creating", "error"}
         \/ /\ op[call.op].type = "snapshot_create" /\ call.item \in Captured(call.op)
            /\ capture[call.op][call.item.name] \in {"creating", "error"}
<1>1. /\ call.op \in OpIds /\ call.capsule \in Capsules /\ CallFits(call)
      /\ call.capsule = CapsuleOf(call.op)
  BY PendingKnows
<1>2. MakePending(call.capsule, call.item)
  BY DEF MakePending, Object
<1>3. CASE op[call.op].type = "create" /\ call.item \in Managed
  BY <1>1, <1>2, <1>3 DEF WholeInv, StaticInv, ObjectsInv, ObjectFits
<1>4. CASE op[call.op].type = "snapshot_create" /\ call.item \in Captured(call.op)
  <2>1. call.item.name \in Versioned /\ call.item = Snapshot(call.item.name, call.op)
    BY <1>1, <1>4, ItemsDiffer
  <2>2. ObjectFits(capture[call.op][call.item.name], CapsuleOf(call.op), Snapshot(call.item.name, call.op))
    BY <1>1, <1>4, <2>1 DEF WholeInv, StaticInv, ObjectsInv
  <2> QED BY <1>1, <1>2, <1>4, <2>1, <2>2 DEF ObjectFits
<1> QED BY <1>1, <1>3, <1>4 DEF CallFits

-----------------------------------------------------------------------------
(* What a step leaves alone.                                                *)

Grows ==
  \A p \in OpIds : op[p].status # "absent" =>
    /\ op'[p].status # "absent"
    /\ op'[p].type = op[p].type /\ op'[p].capsule = op[p].capsule /\ op'[p].force = op[p].force
    /\ op[p].intent => op'[p].intent
SameTimes ==
  /\ history'.before = history.before /\ history'.dirty = history.dirty
  /\ history'.drifts = history.drifts
Holds(c, i) ==
  /\ <<c, i>> \in exists' <=> <<c, i>> \in exists
  /\ MakePending(c, i)' => MakePending(c, i)
Rests(c, i) ==
  /\ Holds(c, i)
  /\ DropPending(c, i)' => DropPending(c, i)

LEMMA MoveGrows ==
  ASSUME LedgerInv, NEW o \in OpIds, op[o].status # "absent", LedgerMove(o)
  PROVE  /\ Grows /\ \A p \in OpIds \ {o} : op'[p] = op[p]
         /\ op[o].status \in Terminal => op'[o] = op[o]
<1>0. op \in [OpIds -> OpType] /\ op[o] \in OpType
  BY DEF LedgerInv, TypeInv, RowsTyped
<1>1. CASE UNCHANGED op
  BY <1>1 DEF Grows
<1>2. CASE ClaimRow(o)
  BY <1>0, <1>2 DEF ClaimRow, Grows, OpType, Terminal
<1>3. CASE op[o].status = "running" /\ op' = [op EXCEPT ![o].intent = TRUE]
  BY <1>0, <1>3 DEF Grows, OpType, Terminal
<1>4. ASSUME NEW status \in Terminal, SetStatus(o, status), op[o].status \in Nonterminal
      PROVE  /\ Grows /\ \A p \in OpIds \ {o} : op'[p] = op[p]
             /\ op[o].status \in Terminal => op'[o] = op[o]
  BY <1>0, <1>4 DEF SetStatus, Grows, OpType, Terminal, Nonterminal
<1>5. "completed" \in Terminal /\ "failed" \in Terminal /\ "cleanup_required" \in Terminal
      /\ "running" \in Nonterminal
  BY DEF Terminal, Nonterminal
<1> QED BY <1>1, <1>2, <1>3, <1>4, <1>5
     DEF LedgerMove, Stays, Claims, Intends, Touches, Witnesses, Ends

LEMMA DemolishedStays ==
  ASSUME WholeInv, Grows, NEW c \in Capsules, Demolished(c)
  PROVE  Demolished(c)'
<1>1. PICK d \in OpIds : op[d].type = "destroy" /\ CapsuleOf(d) = c /\ op[d].intent
  BY DEF Demolished
<1>2. op[d].status # "absent"
  BY <1>1, FreshSaysNothing
<1> QED BY <1>1, <1>2 DEF Grows, Demolished, CapsuleOf

LEMMA CallsKeep ==
  ASSUME WholeInv, Grows, \A call \in pending' : call \in pending \/ CallFits(call)'
  PROVE  CallsInv'
<1> SUFFICES ASSUME NEW call \in pending PROVE CallFits(call)'
  BY DEF CallsInv
<1>1. call.op \in OpIds /\ op[call.op].status # "absent" /\ CallFits(call)
  BY PendingKnows
<1> QED BY <1>1 DEF CallFits, Grows, CapsuleOf

LEMMA ThingsKeep ==
  ASSUME WholeInv, Grows, \A x \in exists' : x \in exists \/ ThingFits(x[1], x[2])'
  PROVE  ThingsInv'
<1> SUFFICES ASSUME NEW x \in exists PROVE ThingFits(x[1], x[2])'
  BY DEF ThingsInv
<1>1. ThingFits(x[1], x[2])
  BY DEF WholeInv, StaticInv, ThingsInv
<1>2. CASE x[2] = Route \/ x[2] \in Managed
  BY <1>2 DEF ThingFits
<1>3. ASSUME NEW p \in OpIds, op[p].type = "snapshot_create", CapsuleOf(p) = x[1],
             x[2] \in Captured(p)
      PROVE  ThingFits(x[1], x[2])'
  <2>1. op[p].status # "absent"
    BY <1>3, FreshSaysNothing
  <2>2. op'[p].type = "snapshot_create" /\ op'[p].capsule = x[1]
    BY <1>3, <2>1 DEF Grows, CapsuleOf
  <2> QED BY <1>3, <2>2 DEF ThingFits, CapsuleOf
<1> QED BY <1>1, <1>2, <1>3 DEF ThingFits

LEMMA ObjectsKeep ==
  ASSUME WholeInv, Grows, \A p \in OpIds : op'[p].type = op[p].type /\ op'[p].capsule = op[p].capsule,
         \A c \in Capsules, i \in Managed :
           \/ ObjectFits(rows[c][i], c, i)'
           \/ rows'[c][i] = rows[c][i] /\ Rests(c, i),
         \A p \in OpIds, v \in Versioned : op[p].type = "snapshot_create" =>
           \/ ObjectFits(capture[p][v], CapsuleOf(p), Snapshot(v, p))'
           \/ capture'[p][v] = capture[p][v] /\ Rests(CapsuleOf(p), Snapshot(v, p))
  PROVE  ObjectsInv'
<1>1. ASSUME NEW c \in Capsules, NEW i \in Managed
      PROVE  ObjectFits(rows[c][i], c, i)'
  <2>1. CASE rows'[c][i] = rows[c][i] /\ Rests(c, i)
    <3>1. ObjectFits(rows[c][i], c, i)
      BY DEF WholeInv, StaticInv, ObjectsInv
    <3>2. Demolished(c) => Demolished(c)'
      BY DemolishedStays
    <3> QED BY <2>1, <3>1, <3>2 DEF ObjectFits, Rests, Holds
  <2> QED BY <2>1
<1>2. ASSUME NEW p \in OpIds, NEW v \in Versioned, op[p].type = "snapshot_create"
      PROVE  ObjectFits(capture[p][v], CapsuleOf(p), Snapshot(v, p))'
  <2>1. CASE capture'[p][v] = capture[p][v] /\ Rests(CapsuleOf(p), Snapshot(v, p))
    <3>1. ObjectFits(capture[p][v], CapsuleOf(p), Snapshot(v, p))
      BY <1>2 DEF WholeInv, StaticInv, ObjectsInv
    <3>2. op[p].status # "absent"
      BY <1>2, FreshSaysNothing
    <3>3. PICK c \in Capsules : CapsuleOf(p) = c
      BY <3>2, Typed DEF AcceptedOnly, CapsuleOf
    <3>4. CapsuleOf(p)' = c
      BY <3>3 DEF CapsuleOf
    <3>5. Demolished(c) => Demolished(c)'
      BY DemolishedStays
    <3>6. ObjectFits(capture[p][v], c, Snapshot(v, p)) /\ Rests(c, Snapshot(v, p))
      BY <2>1, <3>1, <3>3
    <3>7. PICK m : m = capture[p][v]
      OBVIOUS
    <3>8. ObjectFits(m, c, Snapshot(v, p))'
      BY <3>5, <3>6, <3>7 DEF ObjectFits, Rests, Holds
    <3> QED BY <2>1, <3>4, <3>7, <3>8 DEF ObjectFits
  <2> QED BY <1>2, <2>1
<1> QED BY <1>1, <1>2 DEF ObjectsInv

-----------------------------------------------------------------------------
(* A step of an executor that leaves its operation open, or was too late for  *)
(* it: the rows of its capsule, its captures, its targets, its calls.         *)
Works(o) ==
  /\ Quiet /\ Grows /\ SameTimes /\ UNCHANGED <<exists, running>>
  /\ \A p \in OpIds \ {o} : /\ op'[p] = op[p] /\ exec'[p] = exec[p]
                            /\ capture'[p] = capture[p] /\ target'[p] = target[p]
  /\ op[o].status # "absent"
  /\ op[o].status \in Terminal => UNCHANGED <<op, capture>>
  /\ \A c \in Capsules : rows'[c] = rows[c] \/ (capsule[c].status = "provisioning" /\ c = CapsuleOf(o))
  /\ HasPlan(o) => HasPlan(o)'
  /\ \A p \in OpIds :
       \/ snapshot'[p] = snapshot[p]
       \/ /\ p \in Usable(CapsuleOf(o)) /\ snapshot'[p] = "retired"
          /\ HasPlan(o) /\ op[o].type = "destroy" /\ op[o].status \in Nonterminal
  /\ \A call \in pending' :
       call \in pending \/ (call.op = o /\ op[o].status \in Nonterminal /\ CallFits(call))

LEMMA StatusesDiffer ==
  /\ Nonterminal \cap Terminal = {} /\ "absent" \notin Nonterminal \cup Terminal
  /\ \A o \in OpIds : op[o] \in OpType =>
       op[o].status = "absent" \/ op[o].status \in Nonterminal \/ op[o].status \in Terminal
  BY DEF Nonterminal, Terminal, OpType

LEMMA WorksCalls ==
  ASSUME WholeInv, NEW o \in OpIds, Works(o)
  PROVE  CallsInv' /\ ThingsInv' /\ FreshInv' /\ DirtyInv'
<1>1. Grows /\ op[o].status # "absent"
  BY DEF Works
<1>2. ASSUME NEW call \in pending' PROVE call \in pending \/ CallFits(call)'
  <2>1. CASE call.op = o /\ CallFits(call)
    BY <1>1, <2>1 DEF CallFits, Grows, CapsuleOf
  <2> QED BY <2>1 DEF Works
<1>3. CallsInv'
  BY <1>1, <1>2, CallsKeep
<1>4. ThingsInv'
  BY <1>1, ThingsKeep DEF Works
<1>5. FreshInv'
  BY <1>1 DEF Works, WholeInv, StaticInv, FreshInv, Grows
<1>6. DirtyInv'
  <2> SUFFICES ASSUME NEW p \in history.dirty PROVE op'[p].intent
    BY DEF Works, SameTimes, DirtyInv
  <2>1. p \in OpIds /\ op[p].intent
    BY Typed DEF HistoryType, WholeInv, StaticInv, DirtyInv
  <2> QED BY <1>1, <2>1, FreshSaysNothing DEF Grows
<1> QED BY <1>3, <1>4, <1>5, <1>6

LEMMA WorksOwners ==
  ASSUME WholeInv, NEW o \in OpIds, Works(o), NEW c \in Capsules
  PROVE  /\ Owner(c)' = Owner(c) /\ Owner(c) \subseteq OpIds
         /\ \A p \in Owner(c) : op'[p].type = op[p].type /\ op'[p].force = op[p].force
         /\ Usable(c)' \subseteq Usable(c)
         /\ capsule'[c] = capsule[c]
<1>1. Owner(c)' = Owner(c) /\ Owner(c) \subseteq OpIds /\ capsule'[c] = capsule[c]
  BY DEF Works, Quiet, Owner, NonterminalOps, CapsuleOf
<1>2. \A p \in Owner(c) : op[p].status # "absent"
  BY StatusesDiffer DEF Owner, NonterminalOps
<1>3. \A p \in Owner(c) : op'[p].type = op[p].type /\ op'[p].force = op[p].force
  BY <1>1, <1>2 DEF Works, Grows
<1>4. Usable(c)' \subseteq Usable(c)
  BY DEF Works, Quiet, Usable, CapsuleOf
<1> QED BY <1>1, <1>3, <1>4

LEMMA WorksYoung ==
  ASSUME WholeInv, NEW o \in OpIds, Works(o)
  PROVE  YoungInv'
  BY DEF Works, Quiet, WholeInv, StaticInv, YoungInv, CapsuleOf

LEMMA WorksDemolished ==
  ASSUME WholeInv, NEW o \in OpIds, Works(o), op[o].type = "destroy" /\ op'[o].intent => op[o].intent
  PROVE  /\ \A c \in Capsules : Demolished(c)' <=> Demolished(c)
         /\ DemolishedInv'
<1>1. \A c \in Capsules : Demolished(c)' <=> Demolished(c)
  <2>1. \A c \in Capsules : Demolished(c) => Demolished(c)'
    BY DemolishedStays DEF Works
  <2>2. \A c \in Capsules : Demolished(c)' => Demolished(c)
    BY DEF Demolished, Works, Quiet, CapsuleOf
  <2> QED BY <2>1, <2>2
<1>2. ASSUME NEW c \in Capsules, Demolished(c)
      PROVE  /\ capsule'[c].status \in Doomed
             /\ \A d \in Owner(c)' : op'[d].force \/ op'[d].intent
             /\ Usable(c)' = {}
  <2>1. /\ capsule[c].status \in Doomed
        /\ \A d \in Owner(c) : op[d].force \/ op[d].intent
        /\ Usable(c) = {}
    BY <1>2 DEF WholeInv, StaticInv, DemolishedInv
  <2>2. \A d \in Owner(c) : op[d].status # "absent"
    BY StatusesDiffer DEF Owner, NonterminalOps
  <2> QED BY <2>1, <2>2, WorksOwners DEF Works, Grows
<1> QED BY <1>1, <1>2 DEF DemolishedInv

LEMMA NobodySoundIsYoung ==
  ASSUME WholeInv, NEW c \in Capsules, capsule[c].status = "provisioning"
  PROVE  ~Sound(c) /\ ~Demolished(c)
<1>1. \A p \in OpIds : CapsuleOf(p) = c => op[p].type = "create"
  BY DEF WholeInv, StaticInv, YoungInv
<1>2. \A p \in Owner(c) : p \in OpIds /\ CapsuleOf(p) = c
  BY DEF Owner, NonterminalOps
<1> QED BY <1>1, <1>2 DEF Sound, Demolished

LEMMA WorksSound ==
  ASSUME WholeInv, NEW o \in OpIds, Works(o)
  PROVE  SoundInv'
<1> SUFFICES ASSUME NEW c \in Capsules, Sound(c)' PROVE Made(c)' /\ Settled(c)'
  BY DEF SoundInv
<1>1. Sound(c)
  BY WorksOwners DEF Sound
<1>2. Made(c) /\ Settled(c)
  BY <1>1 DEF WholeInv, StaticInv, SoundInv
<1>3. rows'[c] = rows[c]
  BY <1>1, NobodySoundIsYoung DEF Works
<1>4. Made(c)'
  BY <1>2, <1>3 DEF Made
<1>5. ASSUME NEW p \in OpIds, NEW v \in Versioned,
             op'[p].type = "snapshot_create", op'[p].capsule = c, op'[p].status \in Terminal
      PROVE  capture'[p][v] \in {"planned", "created", "deleted", "missing"}
  <2>1. op[p].type = "snapshot_create" /\ CapsuleOf(p) = c
    BY <1>5 DEF Works, Quiet, CapsuleOf
  <2>2. op[p].status # "absent"
    BY <2>1, FreshSaysNothing
  <2>3. op[p].status \notin Nonterminal
    BY <1>5, StatusesDiffer DEF Works, Quiet
  <2>4. op[p].status \in Terminal
    BY <2>2, <2>3, Typed, StatusesDiffer DEF RowsTyped
  <2>5. capture'[p] = capture[p]
    BY <2>4 DEF Works
  <2> QED BY <1>2, <2>1, <2>4, <2>5 DEF Settled
<1> QED BY <1>4, <1>5 DEF Settled, CapsuleOf

LEMMA WorksCommitted ==
  ASSUME WholeInv, NEW o \in OpIds, Works(o)
  PROVE  CommittedInv'
<1> SUFFICES ASSUME NEW p \in OpIds, snapshot'[p] # "none"
             PROVE  /\ op'[p].type = "snapshot_create" /\ op'[p].status = "completed"
                    /\ AllCaptures(p, {"created"})'
                    /\ p \in history.dirty => history.drifts >= 2
  BY DEF Works, SameTimes, CommittedInv
<1>1. snapshot[p] # "none"
  BY DEF Works, Usable
<1>2. /\ op[p].type = "snapshot_create" /\ op[p].status = "completed"
      /\ AllCaptures(p, {"created"})
      /\ p \in history.dirty => history.drifts >= 2
  BY <1>1 DEF WholeInv, StaticInv, CommittedInv
<1>3. op'[p] = op[p] /\ capture'[p] = capture[p]
  BY <1>2 DEF Works, Terminal
<1> QED BY <1>2, <1>3 DEF AllCaptures

LEMMA WorksBefore ==
  ASSUME WholeInv, NEW o \in OpIds, Works(o)
  PROVE  BeforeInv'
<1> SUFFICES ASSUME NEW c \in Capsules, NEW p \in Owner(c)',
                    op'[p].type # "create" /\ ~(op'[p].type = "destroy" /\ op'[p].force)
             PROVE  /\ history.before[c].capsule = Prior(p)'
                    /\ ~(op'[p].type = "destroy" /\ op'[p].intent) =>
                         history.before[c].objects
                           = {x \in exists : x[1] = c /\ x[2] # Route /\ x[2] \notin Captured(p)}
                    /\ ~(op'[p].type = "destroy" /\ HasPlan(p)') =>
                         history.before[c].usable = Usable(c)'
  BY DEF Works, SameTimes, BeforeInv
<1>1. /\ p \in Owner(c) /\ p \in OpIds /\ op'[p].type = op[p].type /\ op'[p].force = op[p].force
      /\ op[p].status \in Nonterminal /\ CapsuleOf(p) = c
  BY WorksOwners DEF Owner, NonterminalOps
<1>2. /\ history.before[c].capsule = Prior(p)
      /\ ~(op[p].type = "destroy" /\ op[p].intent) =>
           history.before[c].objects
             = {x \in exists : x[1] = c /\ x[2] # Route /\ x[2] \notin Captured(p)}
      /\ ~(op[p].type = "destroy" /\ HasPlan(p)) => history.before[c].usable = Usable(c)
  BY <1>1 DEF WholeInv, StaticInv, BeforeInv
<1>3. Prior(p)' = Prior(p)
  BY <1>1 DEF Prior
<1>4. op[p].intent => op'[p].intent
  BY <1>1, StatusesDiffer DEF Works, Grows
<1>5. HasPlan(p) => HasPlan(p)'
  BY <1>1 DEF Works, HasPlan
<1>6. ASSUME ~(op[p].type = "destroy" /\ HasPlan(p)) PROVE Usable(c)' = Usable(c)
  <2>1. Owner(c) = {p}
    BY <1>1, OwnerKnows
  <2>2. \A q \in Usable(c) : snapshot'[q] = snapshot[q]
    <3> SUFFICES ASSUME NEW q \in Usable(c), snapshot'[q] # snapshot[q] PROVE FALSE
      OBVIOUS
    <3>1. /\ q \in Usable(CapsuleOf(o)) /\ HasPlan(o) /\ op[o].type = "destroy"
          /\ op[o].status \in Nonterminal
      BY DEF Works, Usable
    <3>2. CapsuleOf(o) = c
      BY <3>1 DEF Usable
    <3>3. o = p
      BY <2>1, <3>1, <3>2, OwnerKnows
    <3> QED BY <1>6, <3>1, <3>3
  <2>3. Usable(c) \subseteq Usable(c)'
    BY <2>2 DEF Usable, Works, Quiet, CapsuleOf
  <2> QED BY <2>3, WorksOwners
<1> QED BY <1>1, <1>2, <1>3, <1>4, <1>5, <1>6

LEMMA WorksGone ==
  ASSUME WholeInv, NEW o \in OpIds, Works(o)
  PROVE  GoneLeavesNothing'
<1> SUFFICES ASSUME NEW c \in Capsules, capsule[c].status \in {"creation_failed", "destroyed"}
             PROVE  Leftovers(c)' = {}
  BY DEF Works, Quiet, GoneLeavesNothing
<1>1. Leftovers(c) = {}
  BY DEF WholeInv, StaticInv, GoneLeavesNothing
<1>2. ASSUME NEW call \in pending', call.verb = "make", call.capsule = c PROVE FALSE
  <2>1. CASE call \in pending
    BY <1>1, <1>2, <2>1 DEF Leftovers
  <2>2. CASE call.op = o /\ op[o].status \in Nonterminal /\ CallFits(call)
    <3>1. CapsuleOf(o) = c /\ op[o].type \in {"create", "snapshot_create"}
      BY <1>2, <2>2 DEF CallFits
    <3> QED BY <2>2, <3>1, OwnedStatus
  <2> QED BY <2>1, <2>2 DEF Works
<1> QED BY <1>1, <1>2 DEF Works, Leftovers

(* What an executor knows stays true while nobody touches what it knows of.   *)
LEMMA ExecRests ==
  ASSUME NEW p \in OpIds, ExecFits(p, exec[p]), NEW c, c = CapsuleOf(p),
         history'.dirty = history.dirty, history'.drifts = history.drifts,
         op'[p] = op[p], exec'[p] = exec[p], capture'[p] = capture[p],
         op[p].type = "create" => rows'[c] = rows[c],
         \A i : (op[p].type = "create" /\ i \in Managed)
                  \/ (op[p].type = "snapshot_create" /\ i \in Captured(p)) => Holds(c, i),
         op[p].type = "snapshot_create" => (c \in running' <=> c \in running),
         op[p].type = "destroy" /\ Usable(c) = {} => Usable(c)' = {}
  PROVE  ExecFits(p, exec[p])'
<1>0. CapsuleOf(p)' = c
  BY DEF CapsuleOf
<1>1. ASSUME op[p].type = "create" PROVE CreateFits(p, exec[p])'
  <2>1. CreateFits(p, exec[p])
    BY <1>1 DEF ExecFits
  <2>2. \A i \in Managed : Holds(c, i)
    BY <1>1
  <2> QED BY <1>0, <1>1, <2>1, <2>2 DEF CreateFits, Waits, Working, Holds
<1>2. ASSUME op[p].type = "snapshot_create" PROVE SnapshotFits(p, exec[p])'
  <2>1. SnapshotFits(p, exec[p])
    BY <1>2 DEF ExecFits
  <2>2. \A i \in Captured(p) : Holds(c, i)
    BY <1>2
  <2>3. DirtyFits(p, exec[p])'
    <3>1. DirtyFits(p, exec[p])
      BY <2>1 DEF SnapshotFits
    <3> QED BY <1>0, <1>2, <3>1 DEF DirtyFits, AllCaptures
  <2>4. exec[p].step \in {"call", "await", "record", "delete", "await_delete"} =>
          /\ exec[p].item \in Captured(p)
          /\ Working(c, exec[p].item, exec[p], capture[p][exec[p].item.name])
    BY <2>1 DEF SnapshotFits
  <2>5. exec[p].step \in {"call", "await", "record", "delete", "await_delete"} =>
          Working(CapsuleOf(p), exec[p].item, exec[p], capture[p][exec[p].item.name])'
    BY <1>0, <2>2, <2>4 DEF Working, Holds
  <2> QED BY <2>1, <2>3, <2>5 DEF SnapshotFits, Waits
<1>3. ASSUME op[p].type = "destroy" PROVE DestroyFits(p, exec[p])'
  BY <1>0, <1>3 DEF ExecFits, DestroyFits
<1> QED BY <1>1, <1>2, <1>3 DEF ExecFits

LEMMA OthersFit ==
  ASSUME WholeInv, NEW o \in OpIds, Works(o), NEW p \in OpIds \ {o}
  PROVE  ExecFits(p, exec[p])'
<1>1. ExecFits(p, exec[p])
  BY DEF WholeInv, ExecsInv
<1>2. CASE op[p].status = "absent"
  BY <1>2, FreshSaysNothing DEF Works, ExecFits
<1>3. CASE op[p].status # "absent"
  <2>1. PICK c \in Capsules : c = CapsuleOf(p)
    BY <1>3, Typed DEF AcceptedOnly, CapsuleOf
  <2>2. op[p].type = "create" => rows'[c] = rows[c]
    <3> SUFFICES ASSUME op[p].type = "create", rows'[c] # rows[c] PROVE FALSE
      OBVIOUS
    <3>1. capsule[c].status = "provisioning" /\ CapsuleOf(o) = c
      BY DEF Works
    <3>2. op[o].type = "create"
      BY <3>1 DEF WholeInv, StaticInv, YoungInv
    <3> QED BY <2>1, <3>1, <3>2 DEF WholeInv, StaticInv, YoungInv
  <2>3. ASSUME NEW i,
               \/ op[p].type = "create" /\ i \in Managed
               \/ op[p].type = "snapshot_create" /\ i \in Captured(p)
        PROVE  \A call \in pending' : call.item = i /\ call.capsule = c => call \in pending \/ call.verb # "make"
    <3> SUFFICES ASSUME NEW call \in pending', call.item = i, call.capsule = c, call.verb = "make",
                        call.op = o, CallFits(call)
                 PROVE  FALSE
      BY DEF Works
    <3>1. CapsuleOf(o) = c
      BY DEF CallFits
    <3>2. CASE op[o].type = "create" /\ i \in Managed
      <4>1. op[p].type = "create"
        BY <2>3, <3>2, ItemsDiffer
      <4>2. YoungInv /\ o # p
        BY DEF WholeInv, StaticInv
      <4> QED BY <2>1, <3>1, <3>2, <4>1, <4>2 DEF YoungInv
    <3>3. CASE op[o].type = "snapshot_create" /\ i \in Captured(o)
      BY <2>3, <3>3, ItemsDiffer, CapturedApart
    <3> QED BY <3>2, <3>3 DEF CallFits
  <2>4. \A i : (op[p].type = "create" /\ i \in Managed)
                 \/ (op[p].type = "snapshot_create" /\ i \in Captured(p)) => Holds(c, i)
    BY <2>3 DEF Holds, Works, MakePending, Object
  <2>5. Usable(c) = {} => Usable(c)' = {}
    BY <2>1, WorksOwners
  <2>6. /\ op'[p] = op[p] /\ exec'[p] = exec[p] /\ capture'[p] = capture[p]
        /\ history'.dirty = history.dirty /\ history'.drifts = history.drifts /\ UNCHANGED running
    BY DEF Works, SameTimes
  <2> QED BY <1>1, <2>1, <2>2, <2>4, <2>5, <2>6, ExecRests
<1> QED BY <1>2, <1>3

(* Nothing is made any more in a capsule that is being demolished.            *)
LEMMA NothingNewIsMade ==
  ASSUME WholeInv, NEW o \in OpIds, Works(o), NEW c \in Capsules, Demolished(c), NEW i,
         MakePending(c, i)'
  PROVE  MakePending(c, i)
<1>1. PICK call \in pending' : call.verb = "make" /\ Object(call) = <<c, i>>
  BY DEF MakePending
<1>2. CASE call \in pending
  BY <1>1, <1>2 DEF MakePending
<1>3. CASE call.op = o /\ op[o].status \in Nonterminal /\ CallFits(call)
  <2>1. CapsuleOf(o) = c /\ op[o].type \in {"create", "snapshot_create"}
    BY <1>1, <1>3 DEF CallFits, Object
  <2> QED BY <1>3, <2>1, DemolishedOwner
<1> QED BY <1>2, <1>3 DEF Works

LEMMA TargetsShrink ==
  ASSUME WholeInv, NEW c \in Capsules,
         \A p \in OpIds : op'[p].capsule = op[p].capsule,
         \A p \in OpIds, v \in Versioned : CapsuleOf(p) = c /\ capture[p][v] = "none" => capture'[p][v] = "none"
  PROVE  Targets(c)' \subseteq Targets(c)
<1>1. \A i \in UNION {Captured(p) : p \in OpIds} : i.op \in OpIds /\ i.name \in Versioned
  BY ItemsDiffer
<1> QED BY <1>1 DEF Targets, CapsuleOf

PlanFits(o) ==
  /\ HasPlan(o)' /\ op[o].status \in Nonterminal => Targets(CapsuleOf(o)) \subseteq DOMAIN target'[o]
  /\ \A i \in DOMAIN target'[o] : target'[o][i] \in {"absent", "deleted"} =>
       op[o].intent /\ <<CapsuleOf(o), i>> \notin exists /\ ~MakePending(CapsuleOf(o), i)

LEMMA SamePlanFits ==
  ASSUME WholeInv, NEW o \in OpIds, op[o].type = "destroy", target'[o] = target[o]
  PROVE  PlanFits(o)
  BY DEF WholeInv, StaticInv, TargetsInv, PlanFits, HasPlan

LEMMA WorksTargets ==
  ASSUME WholeInv, NEW o \in OpIds, Works(o), op[o].type = "destroy" => PlanFits(o),
         \A v \in Versioned : capture[o][v] = "none" => capture'[o][v] = "none"
  PROVE  TargetsInv'
<1> SUFFICES ASSUME NEW d \in OpIds, op'[d].type = "destroy"
             PROVE  /\ HasPlan(d)' /\ op'[d].status \in Nonterminal =>
                         Targets(CapsuleOf(d))' \subseteq DOMAIN target'[d]
                    /\ \A i \in DOMAIN target'[d] : target'[d][i] \in {"absent", "deleted"} =>
                         /\ op'[d].intent
                         /\ <<CapsuleOf(d), i>> \notin exists
                         /\ ~MakePending(CapsuleOf(d), i)'
  BY DEF TargetsInv, Works, Quiet, CapsuleOf
<1>1. op[d].type = "destroy" /\ op'[d].capsule = op[d].capsule
  BY DEF Works, Quiet
<1>2. op[d].status # "absent"
  BY <1>1, FreshSaysNothing
<1>3. PICK c \in Capsules : c = CapsuleOf(d)
  BY <1>2, Typed DEF AcceptedOnly, CapsuleOf
<1>4. CapsuleOf(d)' = c
  BY <1>1, <1>3 DEF CapsuleOf
<1>5. PlanFits(d)
  BY <1>1, SamePlanFits DEF Works
<1>6. Targets(c)' \subseteq Targets(c)
  BY TargetsShrink DEF Works, Quiet
<1>7. op'[d].status \in Nonterminal => op[d].status \in Nonterminal
  BY DEF Works, Quiet
<1>8. HasPlan(d)' /\ op'[d].status \in Nonterminal => Targets(CapsuleOf(d))' \subseteq DOMAIN target'[d]
  <2>1. Targets(CapsuleOf(d))' = Targets(c)'
    BY <1>4 DEF Targets
  <2> QED BY <1>3, <1>5, <1>6, <1>7, <2>1 DEF PlanFits
<1>9. ASSUME NEW i \in DOMAIN target'[d], target'[d][i] \in {"absent", "deleted"}
      PROVE  /\ op'[d].intent
             /\ <<CapsuleOf(d), i>> \notin exists
             /\ ~MakePending(CapsuleOf(d), i)'
  <2>1. op[d].intent /\ <<c, i>> \notin exists /\ ~MakePending(c, i)
    BY <1>3, <1>5, <1>9 DEF PlanFits
  <2>2. Demolished(c)
    BY <1>1, <1>3, <2>1 DEF Demolished
  <2>3. ~MakePending(c, i)'
    BY <2>1, <2>2, NothingNewIsMade
  <2>4. ~MakePending(CapsuleOf(d), i)'
    BY <1>4, <2>3 DEF MakePending
  <2> QED BY <1>2, <1>3, <2>1, <2>4 DEF Works, Grows
<1> QED BY <1>8, <1>9

(* What is left to show of such a step: that the rows of its objects, its plan *)
(* and its executor fit.                                                    *)
LEMMA WorksKeep ==
  ASSUME WholeInv, NEW o \in OpIds, Works(o),
         op[o].type = "destroy" /\ op'[o].intent => op[o].intent,
         op[o].type = "destroy" => PlanFits(o),
         \A v \in Versioned : capture[o][v] = "none" => capture'[o][v] = "none",
         ObjectsInv', ExecFits(o, exec[o])'
  PROVE  StaticInv' /\ ExecsInv'
<1>1. StaticInv'
  BY WorksCalls, WorksYoung, WorksDemolished, WorksSound, WorksCommitted, WorksBefore, WorksGone,
     WorksTargets DEF StaticInv
<1>2. ExecsInv'
  BY OthersFit DEF ExecsInv
<1> QED BY <1>1, <1>2

(* The step of an executor that changes nothing else the invariant reads.     *)
LEMMA MoveWorks ==
  ASSUME WholeInv, NEW o \in OpIds, exec[o].step # "none", NEW e, Becomes(o, e),
         UNCHANGED <<rowVars, providerVars>>, SameTimes, ExecFits(o, e)
  PROVE  StaticInv' /\ ExecsInv'
<1>1. op[o].status # "absent" /\ exec[o] \in ExecType
  BY Executes, Typed
<1>2. exec'[o] = e /\ \A p \in OpIds \ {o} : exec'[p] = exec[p]
  BY Typed DEF Becomes, ProcessTyped
<1>3. Works(o)
  BY <1>1, <1>2 DEF Works, Quiet, Grows, rowVars, providerVars, HasPlan
<1>4. ObjectsInv'
  BY DEF WholeInv, StaticInv, ObjectsInv, ObjectFits, MakePending, DropPending, Object, Demolished,
     CapsuleOf, rowVars, providerVars
<1>5. ExecFits(o, exec[o])'
  BY <1>2 DEF ExecFits, CreateFits, SnapshotFits, DestroyFits, DirtyFits, Working, Waits, CapsuleOf,
     Usable, MakePending, AllCaptures, SameTimes, rowVars, providerVars
<1>6. op[o].type = "destroy" => PlanFits(o)
  BY SamePlanFits DEF rowVars
<1> QED BY <1>3, <1>4, <1>5, <1>6, WorksKeep DEF rowVars


-----------------------------------------------------------------------------
(* The steps that claim a row, or commit an intent that demolishes nothing.   *)
OpMoves(o) ==
  \/ ClaimRow(o)
  \/ op[o].status = "running" /\ op[o].type # "destroy" /\ op' = [op EXCEPT ![o].intent = TRUE]

LEMMA OpMovesGrow ==
  ASSUME WholeInv, NEW o \in OpIds, op[o].status # "absent", OpMoves(o), UNCHANGED <<capsule, history>>
  PROVE  /\ Quiet /\ Grows /\ op[o].status \in Nonterminal
         /\ \A p \in OpIds \ {o} : op'[p] = op[p]
         /\ op[o].type = "destroy" /\ op'[o].intent => op[o].intent
         /\ op'[o].status = "running"
         /\ \A c \in Capsules : Demolished(c)' <=> Demolished(c)
<1>1. TypeInv /\ LedgerInv
  BY Typed DEF WholeInv
<1>2. op \in [OpIds -> OpType] /\ op[o] \in OpType
  BY <1>1 DEF TypeInv, RowsTyped
<1>3. Quiet
  BY <1>1, ClaimIsQuiet, IntentIsQuiet DEF OpMoves
<1>4. op[o].status \in Nonterminal
  BY DEF OpMoves, ClaimRow, Nonterminal
<1>5. LedgerMove(o)
  BY DEF OpMoves, LedgerMove, Claims, Intends, SameMarks
<1>6. Grows /\ \A p \in OpIds \ {o} : op'[p] = op[p]
  BY <1>1, <1>5, MoveGrows
<1>7. op[o].type = "destroy" /\ op'[o].intent => op[o].intent
  BY <1>2 DEF OpMoves, ClaimRow, OpType
<1>8. \A c \in Capsules : Demolished(c)' => Demolished(c)
  BY <1>3, <1>6, <1>7 DEF Demolished, Quiet, CapsuleOf
<1>9. \A c \in Capsules : Demolished(c) => Demolished(c)'
  BY <1>6, DemolishedStays
<1>10. op'[o].status = "running"
  BY <1>2 DEF OpMoves, ClaimRow, OpType
<1> QED BY <1>3, <1>4, <1>6, <1>7, <1>8, <1>9, <1>10

LEMMA OpWorks ==
  ASSUME WholeInv, NEW o \in OpIds, exec[o].step # "none", NEW e, Becomes(o, e), OpMoves(o),
         UNCHANGED <<capsule, rows, capture, snapshot, target, providerVars, history>>, ExecFits(o, e)'
  PROVE  StaticInv' /\ ExecsInv'
<1>1. op[o].status # "absent"
  BY Executes, Typed
<1>2. exec'[o] = e /\ \A p \in OpIds \ {o} : exec'[p] = exec[p]
  BY Typed DEF Becomes, ProcessTyped
<1>3. /\ Quiet /\ Grows /\ op[o].status \in Nonterminal
      /\ \A p \in OpIds \ {o} : op'[p] = op[p]
      /\ op[o].type = "destroy" /\ op'[o].intent => op[o].intent
  BY <1>1, OpMovesGrow
<1>4. Works(o)
  BY <1>1, <1>2, <1>3, StatusesDiffer DEF Works, SameTimes, providerVars, HasPlan
<1>5. \A c, i : Rests(c, i)
  BY DEF Rests, Holds, MakePending, DropPending, Object, providerVars
<1>6. \A p \in OpIds : op'[p].type = op[p].type /\ op'[p].capsule = op[p].capsule
  BY <1>3 DEF Quiet
<1>7. ObjectsInv'
  BY <1>3, <1>5, <1>6, ObjectsKeep
<1>8. ExecFits(o, exec[o])'
  BY <1>2
<1>9. op[o].type = "destroy" => PlanFits(o)
  BY SamePlanFits
<1> QED BY <1>3, <1>4, <1>7, <1>8, <1>9, WorksKeep

-----------------------------------------------------------------------------
(* Create: one row of the capsule it owns.                                   *)
LEMMA RowWorks ==
  ASSUME WholeInv, NEW o \in OpIds, exec[o].step # "none", op[o].type = "create",
         op[o].status \in Nonterminal, NEW c \in Capsules, CapsuleOf(o) = c, NEW e, Becomes(o, e),
         UNCHANGED <<op, capsule, capture, snapshot, target, providerVars>>, SameTimes,
         \A d \in Capsules \ {c} : rows'[d] = rows[d],
         \A i \in Managed : rows'[c][i] = rows[c][i] \/ ObjectFits(rows'[c][i], c, i),
         Waits(e), e.step \in {"await", "delete", "await_delete"} => e.item \in Managed,
         e.item \in Managed => Working(c, e.item, e, rows'[c][e.item])
  PROVE  StaticInv' /\ ExecsInv'
<1>1. op[o].status # "absent"
  BY Executes, Typed
<1>2. exec'[o] = e /\ \A p \in OpIds \ {o} : exec'[p] = exec[p]
  BY Typed DEF Becomes, ProcessTyped
<1>3. capsule[c].status = "provisioning"
  BY OwnedStatus
<1>4. Works(o)
  BY <1>1, <1>2, <1>3, StatusesDiffer DEF Works, Quiet, Grows, providerVars, HasPlan
<1>5. \A d, i : Rests(d, i)
  BY DEF Rests, Holds, MakePending, DropPending, Object, providerVars
<1>6. \A m, d, i : ObjectFits(m, d, i)' <=> ObjectFits(m, d, i)
  BY DEF ObjectFits, MakePending, DropPending, Object, Demolished, CapsuleOf, providerVars
<1>7. ASSUME NEW d \in Capsules, NEW i \in Managed
      PROVE  ObjectFits(rows[d][i], d, i)' \/ (rows'[d][i] = rows[d][i] /\ Rests(d, i))
  <2>1. CASE d # c
    BY <1>5, <2>1
  <2>2. CASE d = c /\ ObjectFits(rows'[c][i], c, i)
    <3>1. PICK m : m = rows'[c][i]
      OBVIOUS
    <3>2. ObjectFits(m, c, i)'
      BY <1>6, <2>2, <3>1
    <3> QED BY <2>2, <3>1, <3>2
  <2> QED BY <1>5, <2>1, <2>2
<1>8. ObjectsInv'
  BY <1>4, <1>5, <1>7, ObjectsKeep DEF Works
<1>9. CreateFits(o, e)'
  BY DEF CreateFits, Working, Waits, MakePending, Object, CapsuleOf, providerVars
<1>10. ExecFits(o, exec[o])'
  BY <1>2, <1>9 DEF ExecFits
<1> QED BY <1>4, <1>8, <1>10, WorksKeep

(* An executor that holds nothing in hand fits.                              *)
FreeSteps == {"none", "claim", "materialize", "intent", "begin", "complete", "compensate", "classify"}
LEMMA FreeFits ==
  ASSUME NEW o \in OpIds, op[o].type = "create", NEW e, e.reply = "none", e.step \in FreeSteps
  PROVE  CreateFits(o, e) /\ ExecFits(o, e) /\ Waits(e)
  BY DEF CreateFits, ExecFits, Waits, Working, FreeSteps

LEMMA CreateCaughtFree ==
  ASSUME NEW e \in ExecType
  PROVE  /\ CreateCaught(e).reply = "none" /\ CreateCaught(e).step \in FreeSteps
         /\ CreateCaught(Uncertain(e)).reply = "none" /\ CreateCaught(Uncertain(e)).step \in FreeSteps
         /\ CreateCaught(e).item = NoItem /\ CreateCaught(Uncertain(e)).item = NoItem
         /\ \A i : Stuck(Drops(e, i)).step = "compensate" /\ Stuck(Drops(e, i)).reply = "none"
         /\ \A i : Drops(e, i).step = "compensate" /\ Drops(e, i).reply = "none"
         /\ \A i : [Drops(e, i) EXCEPT !.gone = @ \cup {i}].step = "compensate"
                   /\ [Drops(e, i) EXCEPT !.gone = @ \cup {i}].reply = "none"
  BY DEF ExecType, CreateCaught, Uncertain, Stuck, Drops, FreeSteps

-----------------------------------------------------------------------------
(* A call is submitted for the object in hand, whose row expects it, or in a  *)
(* capsule that is being demolished.                                        *)
Expects(verb, m) ==
  /\ verb = "make" => m = "creating"
  /\ verb = "drop" => m = "deleting"

LEMMA SubmitWorks ==
  ASSUME WholeInv, NEW o \in OpIds, exec[o].step # "none", op[o].status \in Nonterminal,
         NEW c \in Capsules, CapsuleOf(o) = c, NEW verb, NEW item, Submit(o, verb, item),
         NEW e, Becomes(o, e), CallFits(Call(o, verb, item)),
         \/ op[o].type = "create" /\ Expects(verb, rows[c][item])
         \/ op[o].type = "snapshot_create" /\ Expects(verb, capture[o][item.name])
         \/ op[o].type = "destroy",
         ExecFits(o, e)'
  PROVE  StaticInv' /\ ExecsInv'
<1>1. op[o].status # "absent"
  BY Executes, Typed
<1>2. exec'[o] = e /\ \A p \in OpIds \ {o} : exec'[p] = exec[p]
  BY Typed DEF Becomes, ProcessTyped
<1>3. PICK call : call = Call(o, verb, item)
  OBVIOUS
<1>4. /\ call.verb = verb /\ call.capsule = c /\ call.item = item /\ call.op = o
      /\ CallFits(call) /\ pending' = pending \cup {call}
  BY <1>3 DEF Call, Submit
<1>5. UNCHANGED <<rowVars, exists, running>> /\ SameTimes
  BY Typed DEF Submit, SameTimes, HistoryType
<1>6. Works(o)
  BY <1>1, <1>2, <1>4, <1>5, StatusesDiffer DEF Works, Quiet, Grows, rowVars, HasPlan
<1>7. \A d, i : <<d, i>> # <<c, item>> => Rests(d, i)
  BY <1>4, <1>5 DEF Rests, Holds, MakePending, DropPending, Object
<1>8. ASSUME NEW m, Expects(verb, m), verb # "stop", ObjectFits(m, c, item)
      PROVE  ObjectFits(m, c, item)'
  <2>1. Demolished(c)' <=> Demolished(c)
    BY <1>5 DEF Demolished, CapsuleOf, rowVars
  <2>2. /\ MakePending(c, item)' => MakePending(c, item) \/ verb = "make"
        /\ DropPending(c, item)' => DropPending(c, item) \/ verb = "drop"
    BY <1>4 DEF MakePending, DropPending, Object
  <2>3. <<c, item>> \in exists' <=> <<c, item>> \in exists
    BY <1>5
  <2> QED BY <1>8, <2>1, <2>2, <2>3 DEF ObjectFits, Expects
<1>9. CASE op[o].type = "create"
  <2>0. item \in Managed /\ Expects(verb, rows[c][item]) /\ verb # "stop"
    BY <1>4, <1>9 DEF CallFits
  <2>1. ASSUME NEW d \in Capsules, NEW i \in Managed
        PROVE  ObjectFits(rows[d][i], d, i)' \/ (rows'[d][i] = rows[d][i] /\ Rests(d, i))
    <3>1. CASE <<d, i>> # <<c, item>>
      BY <1>5, <1>7, <3>1 DEF rowVars
    <3>2. CASE <<d, i>> = <<c, item>>
      <4>1. PICK m : m = rows[c][item]
        OBVIOUS
      <4>2. ObjectFits(m, c, item)
        BY <2>0, <4>1 DEF WholeInv, StaticInv, ObjectsInv
      <4>3. ObjectFits(m, c, item)' /\ rows'[c][item] = m
        BY <1>5, <1>8, <2>0, <4>1, <4>2 DEF rowVars
      <4> QED BY <3>2, <4>3
    <3> QED BY <3>1, <3>2
  <2>2. \A p \in OpIds, v \in Versioned :
          capture'[p][v] = capture[p][v] /\ Rests(CapsuleOf(p), Snapshot(v, p))
    BY <1>5, <1>7, <2>0, ItemsDiffer DEF rowVars
  <2>3. ObjectsInv'
    BY <1>6, <2>1, <2>2, ObjectsKeep DEF Works, Quiet
  <2> QED BY <1>2, <1>5, <1>6, <1>9, <2>3, WorksKeep DEF rowVars
<1>10. CASE op[o].type = "snapshot_create"
  <2>0. /\ item \in Captured(o) /\ Expects(verb, capture[o][item.name]) /\ verb # "stop"
        /\ item.name \in Versioned /\ item = Snapshot(item.name, o)
    BY <1>4, <1>10, ItemsDiffer DEF CallFits
  <2>1. \A d \in Capsules, i \in Managed : rows'[d][i] = rows[d][i] /\ Rests(d, i)
    BY <1>5, <1>7, <2>0, ItemsDiffer DEF rowVars
  <2>2. ASSUME NEW p \in OpIds, NEW v \in Versioned, op[p].type = "snapshot_create"
        PROVE  \/ ObjectFits(capture[p][v], CapsuleOf(p), Snapshot(v, p))'
               \/ capture'[p][v] = capture[p][v] /\ Rests(CapsuleOf(p), Snapshot(v, p))
    <3>1. CASE Snapshot(v, p) # item
      BY <1>5, <1>7, <3>1 DEF rowVars
    <3>2. CASE Snapshot(v, p) = item
      <4>1. p = o /\ v = item.name
        BY <2>0, <3>2, ItemsDiffer
      <4>2. PICK m : m = capture[o][v]
        OBVIOUS
      <4>3. ObjectFits(m, c, item)
        BY <1>10, <2>0, <4>1, <4>2 DEF WholeInv, StaticInv, ObjectsInv
      <4>4. ObjectFits(m, c, item)' /\ capture'[o][v] = m
        BY <1>5, <1>8, <2>0, <4>1, <4>2, <4>3 DEF rowVars
      <4>5. CapsuleOf(p)' = c
        BY <1>5, <4>1 DEF CapsuleOf, rowVars
      <4> QED BY <2>0, <3>2, <4>1, <4>4, <4>5
    <3> QED BY <3>1, <3>2
  <2>3. ObjectsInv'
    BY <1>6, <2>1, <2>2, ObjectsKeep DEF Works, Quiet
  <2> QED BY <1>2, <1>5, <1>6, <1>10, <2>3, WorksKeep DEF rowVars
<1>11. CASE op[o].type = "destroy"
  <2>1. verb # "make" /\ op[o].intent
    BY <1>4, <1>11 DEF CallFits
  <2>2. Demolished(c) /\ Demolished(c)'
    BY <1>5, <1>11, <2>1 DEF Demolished, CapsuleOf, rowVars
  <2>3. \A i : Holds(c, i)
    BY <1>4, <1>5, <2>1 DEF Holds, MakePending, Object
  <2>4. \A m, i : ObjectFits(m, c, i) => ObjectFits(m, c, i)'
    BY <2>2, <2>3 DEF ObjectFits, Holds
  <2>5. ASSUME NEW d \in Capsules, NEW i \in Managed
        PROVE  ObjectFits(rows[d][i], d, i)' \/ (rows'[d][i] = rows[d][i] /\ Rests(d, i))
    <3>1. CASE d # c
      BY <1>5, <1>7, <3>1 DEF rowVars
    <3>2. CASE d = c
      <4>1. PICK m : m = rows[c][i]
        OBVIOUS
      <4>2. ObjectFits(m, c, i)
        BY <4>1 DEF WholeInv, StaticInv, ObjectsInv
      <4>3. ObjectFits(m, c, i)' /\ rows'[c][i] = m
        BY <1>5, <2>4, <4>1, <4>2 DEF rowVars
      <4> QED BY <3>2, <4>3
    <3> QED BY <3>1, <3>2
  <2>6. ASSUME NEW p \in OpIds, NEW v \in Versioned, op[p].type = "snapshot_create"
        PROVE  \/ ObjectFits(capture[p][v], CapsuleOf(p), Snapshot(v, p))'
               \/ capture'[p][v] = capture[p][v] /\ Rests(CapsuleOf(p), Snapshot(v, p))
    <3>1. CASE CapsuleOf(p) # c
      BY <1>5, <1>7, <3>1 DEF rowVars
    <3>2. CASE CapsuleOf(p) = c
      <4>1. PICK m : m = capture[p][v]
        OBVIOUS
      <4>2. ObjectFits(m, c, Snapshot(v, p))
        BY <2>6, <3>2, <4>1 DEF WholeInv, StaticInv, ObjectsInv
      <4>3. ObjectFits(m, c, Snapshot(v, p))' /\ capture'[p][v] = m
        BY <1>5, <2>4, <4>1, <4>2 DEF rowVars
      <4>4. CapsuleOf(p)' = c
        BY <1>5, <3>2 DEF CapsuleOf, rowVars
      <4> QED BY <4>3, <4>4
    <3> QED BY <3>1, <3>2
  <2>7. ObjectsInv'
    BY <1>6, <2>5, <2>6, ObjectsKeep DEF Works, Quiet
  <2> QED BY <1>2, <1>5, <1>6, <1>11, <2>7, SamePlanFits, WorksKeep DEF rowVars
<1> QED BY <1>9, <1>10, <1>11

-----------------------------------------------------------------------------
(* Create, until it ends.                                                    *)
LEMMA RowFits ==
  ASSUME WholeInv, NEW c \in Capsules, NEW i \in Managed
  PROVE  /\ ObjectFits(rows[c][i], c, i)
         /\ rows[c][i] \in {"none", "planned"} => ObjectFits("planned", c, i) /\ ObjectFits("creating", c, i)
         /\ rows[c][i] = "creating" => ObjectFits("error", c, i)
         /\ rows[c][i] = "creating" /\ <<c, i>> \in exists /\ ~MakePending(c, i) => ObjectFits("created", c, i)
         /\ rows[c][i] = "created" => ObjectFits("deleting", c, i)
         /\ rows[c][i] = "deleting" => ObjectFits("error", c, i)
         /\ rows[c][i] = "deleting" /\ <<c, i>> \notin exists =>
              ObjectFits("deleted", c, i) /\ ObjectFits("missing", c, i)
  BY DEF WholeInv, StaticInv, ObjectsInv, ObjectFits

LEMMA CreateWorks ==
  ASSUME WholeInv, NEW o \in OpIds, CreateStep(o)
  PROVE  \/ StaticInv' /\ ExecsInv'
         \/ CreateComplete(o)
         \/ op[o].status \in Nonterminal /\ Settles(o, CreateIsSafe(o)) /\ CreateFail(o)
<1>0. LedgerInv /\ TypeInv
  BY Typed DEF WholeInv
<1>1. exec[o].step # "none"
  BY <1>0, CreateAdvances
<1>2. op[o].type = "create"
  BY DEF CreateStep, CreateClaim, CreateMaterialize, CreateCommitIntent, CreateBegin, CreateCall,
     CreateReturns, CreateRecord, CreateThrows, CreateItemFails, CreateAttempt, CreateComplete,
     CompensateBegin, CompensateCall, CompensateReturns, CompensateFails, CompensateFile,
     CompensationEnds, CreateFail, At
<1>3. PICK e \in ExecType : e = exec[o]
  BY <1>0, <1>1, Executes
<1>4. PICK c \in Capsules : c = CapsuleOf(o)
  BY <1>0, <1>1, Executes
<1>5. CreateFits(o, e)
  BY <1>2, <1>3 DEF WholeInv, ExecsInv, ExecFits
<1>6. e.step \in FreeSteps => e.reply = "none"
  BY <1>5 DEF CreateFits, Waits, FreeSteps
<1>7. e.step \in CallSteps \cup {"begin", "compensate"} => op[o].status = "running" /\ op[o].intent
  BY <1>0, <1>1, <1>2, <1>3, AtStep DEF Agrees, ArmedSteps
<1>8. rows[c] \in [Inventory -> RowStatuses] /\ rows \in [Capsules -> [Inventory -> RowStatuses]]
  BY <1>0 DEF TypeInv, RowsTyped
(* What most steps do: they set one row, and hold nothing in hand.           *)
<1>9. ASSUME NEW f, Becomes(o, f), f.reply = "none", op[o].status = "running",
             UNCHANGED <<op, capsule, capture, snapshot, target, providerVars>>, SameTimes,
             \/ UNCHANGED rows
             \/ \E i, m : SetRow(o, i, m) /\ (i \in Managed => ObjectFits(m, c, i)),
             f.step \in FreeSteps
      PROVE  StaticInv' /\ ExecsInv'
  <2>1. Waits(f) /\ f.step \notin {"await", "delete", "await_delete"}
        /\ \A m : Working(c, f.item, f, m)
    BY <1>9 DEF Waits, Working, FreeSteps
  <2>2. CASE UNCHANGED rows
    BY <1>1, <1>2, <1>4, <1>9, <2>1, <2>2, RowWorks DEF Nonterminal
  <2>3. ASSUME NEW i, NEW m, SetRow(o, i, m), i \in Managed => ObjectFits(m, c, i)
        PROVE  /\ \A d \in Capsules \ {c} : rows'[d] = rows[d]
               /\ \A j \in Managed : rows'[c][j] = rows[c][j] \/ ObjectFits(rows'[c][j], c, j)
    <3>1. rows' = [rows EXCEPT ![c][i] = m]
      BY <1>4, <2>3 DEF SetRow
    <3>2. \A j \in Managed : rows'[c][j] = IF j = i THEN m ELSE rows[c][j]
      BY <1>8, <3>1, ItemsContain
    <3> QED BY <1>8, <2>3, <3>1, <3>2
  <2>4. CASE \E i, m : SetRow(o, i, m) /\ (i \in Managed => ObjectFits(m, c, i))
    BY <1>1, <1>2, <1>4, <1>9, <2>1, <2>3, <2>4, RowWorks DEF Nonterminal
  <2> QED BY <1>9, <2>2, <2>4
<1>10. UNCHANGED history => SameTimes
  BY DEF SameTimes
<1>11. CASE CreateThrows(o)
  <2>1. PICK f : f = CreateCaught(e)
    OBVIOUS
  <2>2. Becomes(o, f) /\ ExecFits(o, f)
    BY <1>2, <1>3, <1>11, <2>1, CreateCaughtFree, FreeFits DEF CreateThrows
  <2> QED BY <1>1, <1>10, <1>11, <2>2, MoveWorks DEF CreateThrows
<1>12. CASE CreateClaim(o) \/ CreateCommitIntent(o)
  <2>1. PICK f : Becomes(o, f) /\ f.reply = "none" /\ f.step \in FreeSteps
    <3>1. e.reply = "none"
      BY <1>3, <1>6, <1>12 DEF CreateClaim, CreateCommitIntent, At, FreeSteps
    <3>2. \A s : [e EXCEPT !.step = s].reply = "none" /\ [e EXCEPT !.step = s].step = s
      BY <3>1 DEF ExecType
    <3>3. [e EXCEPT !.step = "begin", !.flags = @ \cup {"intent"}].reply = "none"
          /\ [e EXCEPT !.step = "begin", !.flags = @ \cup {"intent"}].step = "begin"
      BY <3>1 DEF ExecType
    <3>4. PICK g, h, k : /\ g = [e EXCEPT !.step = "materialize"] /\ h = CreateCaught(e)
                         /\ k = [e EXCEPT !.step = "begin", !.flags = @ \cup {"intent"}]
      OBVIOUS
    <3>5. Becomes(o, g) \/ Becomes(o, h) \/ Becomes(o, k)
      BY <1>3, <1>12, <3>4 DEF CreateClaim, CreateCommitIntent, Acknowledged
    <3>6. g.reply = "none" /\ g.step \in FreeSteps
      BY <3>2, <3>4 DEF FreeSteps
    <3>7. h.reply = "none" /\ h.step \in FreeSteps
      BY <3>4, CreateCaughtFree
    <3>8. k.reply = "none" /\ k.step \in FreeSteps
      BY <3>3, <3>4 DEF FreeSteps
    <3> QED BY <3>5, <3>6, <3>7, <3>8
  <2>2. OpMoves(o)
    BY <1>2, <1>12 DEF CreateClaim, CreateCommitIntent, PreProvider, OpMoves
  <2>3. op'[o].type = "create"
    BY <1>0, <1>2, <1>12 DEF CreateClaim, CreateCommitIntent, ClaimRow, TypeInv, RowsTyped, OpType
  <2>4. ExecFits(o, f)'
    BY <2>1, <2>3 DEF ExecFits, CreateFits, Waits, Working, FreeSteps
  <2> QED BY <1>1, <1>12, <2>1, <2>2, <2>4, OpWorks DEF CreateClaim, CreateCommitIntent
<1>13. CASE CreateMaterialize(o)
  <2>1. PICK f : Becomes(o, f) /\ f.reply = "none" /\ f.step \in FreeSteps
    <3>1. e.reply = "none"
      BY <1>3, <1>6, <1>13 DEF CreateMaterialize, At, FreeSteps
    <3>2. [e EXCEPT !.step = "intent"].reply = "none" /\ [e EXCEPT !.step = "intent"].step = "intent"
      BY <3>1 DEF ExecType
    <3> QED BY <1>3, <1>13, <3>2, CreateCaughtFree DEF CreateMaterialize, Acknowledged, FreeSteps
  <2>2. rows' = [rows EXCEPT ![c] = [i \in Inventory |-> "planned"]]
    BY <1>4, <1>13 DEF CreateMaterialize
  <2>3. /\ \A d \in Capsules \ {c} : rows'[d] = rows[d]
        /\ \A j \in Managed : rows'[c][j] = "planned"
    BY <1>8, <2>2, ItemsContain
  <2>4. \A j \in Managed : rows[c][j] = "none"
    BY <1>4, <1>13, ItemsContain DEF CreateMaterialize, Absent
  <2>5. \A j \in Managed : ObjectFits(rows'[c][j], c, j)
    BY <2>3, <2>4, RowFits
  <2>6. Waits(f) /\ f.step \notin {"await", "delete", "await_delete"}
        /\ \A m : Working(c, f.item, f, m)
    BY <2>1 DEF Waits, Working, FreeSteps
  <2>7. op[o].status = "running" /\ SameTimes
    BY <1>10, <1>13 DEF CreateMaterialize, PreProvider
  <2> QED BY <1>1, <1>2, <1>4, <1>13, <2>1, <2>3, <2>5, <2>6, <2>7, RowWorks
       DEF CreateMaterialize, Nonterminal
<1>14. ASSUME NEW i \in Inventory, CreateBegin(o, i) PROVE StaticInv' /\ ExecsInv'
  <2>1. e.step = "begin" /\ e.reply = "none" /\ op[o].status = "running" /\ rows[c][i] = "planned"
        /\ SameTimes
    BY <1>3, <1>4, <1>6, <1>10, <1>14 DEF CreateBegin, At, Fenced, Due, Planned, Row, FreeSteps
  <2>2. PICK m : m = IF i = BindMount THEN "adopted" ELSE "creating"
    OBVIOUS
  <2>3. SetRow(o, i, m) /\ (i \in Managed => m = "creating")
    BY <1>14, <2>2, ItemsDiffer DEF CreateBegin
  <2>4. i \in Managed => ObjectFits(m, c, i)
    BY <2>1, <2>3, RowFits
  <2>5. PICK f : Becomes(o, f) /\ (f = e \/ f = CreateCaught(e) \/
          (i # BindMount /\ f = [e EXCEPT !.step = "call", !.item = i,
                   !.scope = IF i.kind = "file" THEN @ \cup {i} ELSE @]))
    BY <1>3, <1>14 DEF CreateBegin, Acknowledged
  <2>6. CASE f = e \/ f = CreateCaught(e)
    <3>1. f.reply = "none" /\ f.step \in FreeSteps
      BY <2>1, <2>6, CreateCaughtFree DEF FreeSteps
    <3> QED BY <1>9, <1>14, <2>1, <2>3, <2>4, <2>5, <3>1 DEF CreateBegin
  <2>7. CASE f # e /\ f # CreateCaught(e)
    <3>1. f.step = "call" /\ f.item = i /\ f.reply = "none"
      BY <2>1, <2>5, <2>7 DEF ExecType
    <3>2. rows' = [rows EXCEPT ![c][i] = m]
      BY <1>4, <2>3 DEF SetRow
    <3>3. /\ \A d \in Capsules \ {c} : rows'[d] = rows[d]
          /\ \A j \in Managed : rows'[c][j] = IF j = i THEN m ELSE rows[c][j]
      BY <1>8, <3>2, ItemsContain
    <3>4. Waits(f) /\ f.step \notin {"await", "delete", "await_delete"}
      BY <3>1 DEF Waits
    <3>5. f.item \in Managed => Working(c, f.item, f, rows'[c][f.item])
      BY <2>3, <3>1, <3>3 DEF Working
    <3>6. \A j \in Managed : rows'[c][j] = rows[c][j] \/ ObjectFits(rows'[c][j], c, j)
      BY <2>4, <3>3
    <3> QED BY <1>1, <1>2, <1>4, <1>14, <2>1, <2>5, <3>3, <3>4, <3>5, <3>6, RowWorks
         DEF CreateBegin, Nonterminal
  <2> QED BY <2>6, <2>7
<1>15. CASE CreateCall(o)
  <2>1. e.step = "call" /\ op[o].status = "running" /\ op[o].intent /\ e.reply = "none"
    BY <1>3, <1>5, <1>7, <1>15 DEF CreateCall, At, CallSteps, CreateFits, Waits
  <2>2. \A s : [e EXCEPT !.step = s].reply = "none" /\ [e EXCEPT !.step = s].step = s
               /\ [e EXCEPT !.step = s].item = e.item
    BY <2>1 DEF ExecType
  <2>3. CASE e.item \in Managed
    <3>1. PICK i, f : i = e.item /\ f = [e EXCEPT !.step = "await"]
      OBVIOUS
    <3>2. Submit(o, "make", i) /\ Becomes(o, f)
      BY <1>3, <1>15, <2>3, <3>1 DEF CreateCall, Goto
    <3>3. f.reply = "none" /\ f.step = "await" /\ f.item = i /\ i \in Managed
      BY <2>2, <2>3, <3>1
    <3>4. rows[c][i] = "creating"
      BY <1>4, <1>5, <2>1, <2>3, <3>1 DEF CreateFits, Working
    <3>5. CallFits(Call(o, "make", i))
      BY <1>2, <2>1, <3>3 DEF CallFits, Call
    <3>6. ExecFits(o, f)'
      BY <1>2, <1>4, <3>2, <3>3, <3>4 DEF ExecFits, CreateFits, Working, Waits, Submit, rowVars, CapsuleOf
    <3> QED BY <1>1, <1>2, <1>4, <2>1, <3>2, <3>4, <3>5, <3>6, SubmitWorks DEF Nonterminal, Expects
  <2>4. CASE e.item \notin Managed
    <3>1. PICK f : f = [e EXCEPT !.step = "record"]
      OBVIOUS
    <3>2. Becomes(o, f) /\ history' = [history EXCEPT !.touched = @ \cup {o}]
          /\ UNCHANGED <<rowVars, providerVars>>
      BY <1>3, <1>15, <2>4, <3>1 DEF CreateCall, Goto
    <3>3. ExecFits(o, f)
      BY <1>2, <2>2, <2>4, <3>1 DEF ExecFits, CreateFits, Waits
    <3>4. SameTimes
      BY <1>0, <3>2 DEF SameTimes, TypeInv, HistoryType
    <3> QED BY <1>1, <3>2, <3>3, <3>4, MoveWorks
  <2> QED BY <2>3, <2>4
<1>16. CASE CreateReturns(o)
  <2>1. PICK f : f = [e EXCEPT !.step = "record", !.reply = "none"]
    OBVIOUS
  <2>2. Becomes(o, f) /\ f.step = "record" /\ f.reply = "none" /\ f.item = e.item
    BY <1>3, <1>16, <2>1 DEF CreateReturns, ExecType
  <2>3. e.item \in Managed /\ Working(c, e.item, e, rows[c][e.item]) /\ e.step = "await" /\ e.reply = "ok"
    BY <1>3, <1>4, <1>5, <1>16 DEF CreateReturns, At, CreateFits
  <2>4. ExecFits(o, f)
    BY <1>2, <1>4, <2>2, <2>3 DEF ExecFits, CreateFits, Working, Waits
  <2> QED BY <1>1, <1>10, <1>16, <2>2, <2>4, MoveWorks DEF CreateReturns
<1>17. CASE CreateRecord(o)
  <2>1. e.step = "record" /\ e.reply = "none" /\ op[o].status = "running" /\ SameTimes
        /\ rows[c][e.item] = "creating"
    BY <1>3, <1>4, <1>5, <1>10, <1>17 DEF CreateRecord, At, Fenced, Row, CreateFits, Waits
  <2>2. PICK m : m = IF e.item = Project THEN "adopted" ELSE "created"
    OBVIOUS
  <2>3. SetRow(o, e.item, m) /\ (e.item \in Managed => m = "created")
    BY <1>3, <1>17, <2>2, ItemsDiffer DEF CreateRecord
  <2>4. e.item \in Managed => ObjectFits(m, c, e.item)
    <3>1. e.item \in Managed => <<c, e.item>> \in exists /\ ~MakePending(c, e.item)
      BY <1>4, <1>5, <2>1 DEF CreateFits, Working
    <3> QED BY <2>1, <2>3, <3>1, RowFits
  <2>5. PICK f : Becomes(o, f) /\ (f = CreateCaught(Uncertain(e)) \/
                   f = [e EXCEPT !.step = "begin", !.item = NoItem,
                          !.scope = IF e.item \in Managed THEN @ \cup {e.item} ELSE @])
    BY <1>3, <1>17 DEF CreateRecord
  <2>6. f.reply = "none" /\ f.step \in FreeSteps
    BY <2>1, <2>5, CreateCaughtFree DEF FreeSteps, ExecType
  <2> QED BY <1>9, <1>17, <2>1, <2>3, <2>4, <2>5, <2>6 DEF CreateRecord
<1>18. CASE CreateItemFails(o)
  <2>1. e.step \in {"call", "await", "record"} /\ op[o].status = "running" /\ SameTimes
    BY <1>3, <1>7, <1>10, <1>18 DEF CreateItemFails, CallSteps
  <2>2. \/ UNCHANGED rows
        \/ rows[c][e.item] = "creating" /\ SetRow(o, e.item, "error")
    BY <1>3, <1>4, <1>18 DEF CreateItemFails, Row
  <2>3. UNCHANGED rows \/ \E i, m : SetRow(o, i, m) /\ (i \in Managed => ObjectFits(m, c, i))
    BY <2>2, RowFits
  <2>4. PICK f : Becomes(o, f) /\ f = CreateCaught(Uncertain(e))
    BY <1>3, <1>18 DEF CreateItemFails
  <2>5. f.reply = "none" /\ f.step \in FreeSteps
    BY <2>4, CreateCaughtFree
  <2> QED BY <1>9, <1>18, <2>1, <2>3, <2>4, <2>5 DEF CreateItemFails
<1>19. CASE CreateAttempt(o)
  <2>1. PICK f : f = [e EXCEPT !.step = "complete", !.flags = @ \cup {"attempted"}]
    OBVIOUS
  <2>2. Becomes(o, f) /\ f.step = "complete" /\ f.reply = "none"
    BY <1>3, <1>6, <1>19, <2>1 DEF CreateAttempt, At, ExecType, FreeSteps
  <2>3. ExecFits(o, f)
    BY <1>2, <2>2, FreeFits DEF FreeSteps
  <2> QED BY <1>1, <1>10, <1>19, <2>2, <2>3, MoveWorks DEF CreateAttempt
<1>20. ASSUME NEW i \in Managed, CompensateBegin(o, i) PROVE StaticInv' /\ ExecsInv'
  <2>1. e.step = "compensate" /\ e.reply = "none" /\ op[o].status = "running" /\ SameTimes
    BY <1>3, <1>6, <1>7, <1>10, <1>20 DEF CompensateBegin, At, FreeSteps
  <2>2. UNCHANGED <<op, capsule, capture, snapshot, target, providerVars>>
    BY <1>20 DEF CompensateBegin
  <2>3. CASE Becomes(o, Stuck(Drops(e, i)))
    <3>1. PICK f : f = Stuck(Drops(e, i))
      OBVIOUS
    <3>2. Becomes(o, f) /\ f.reply = "none" /\ f.step \in FreeSteps
      BY <2>3, <3>1, CreateCaughtFree DEF FreeSteps
    <3>3. UNCHANGED rows \/ (rows[c][i] = "created" /\ SetRow(o, i, "deleting"))
      BY <1>4, <1>20 DEF CompensateBegin, Row
    <3>4. UNCHANGED rows \/ \E j, m : SetRow(o, j, m) /\ (j \in Managed => ObjectFits(m, c, j))
      BY <3>3, RowFits
    <3> QED BY <1>9, <2>1, <2>2, <3>2, <3>4
  <2>4. CASE rows[c][i] = "created" /\ SetRow(o, i, "deleting")
             /\ Becomes(o, [e EXCEPT !.step = "delete", !.item = i])
    <3>1. PICK f : f = [e EXCEPT !.step = "delete", !.item = i]
      OBVIOUS
    <3>2. Becomes(o, f) /\ f.step = "delete" /\ f.item = i /\ f.reply = "none"
      BY <2>1, <2>4, <3>1 DEF ExecType
    <3>3. rows' = [rows EXCEPT ![c][i] = "deleting"]
      BY <1>4, <2>4 DEF SetRow
    <3>4. /\ \A d \in Capsules \ {c} : rows'[d] = rows[d]
          /\ \A j \in Managed : rows'[c][j] = IF j = i THEN "deleting" ELSE rows[c][j]
      BY <1>8, <3>3, ItemsContain
    <3>5. \A j \in Managed : rows'[c][j] = rows[c][j] \/ ObjectFits(rows'[c][j], c, j)
      BY <2>4, <3>4, RowFits
    <3>6. Waits(f) /\ f.item \in Managed /\ Working(c, f.item, f, rows'[c][f.item])
      BY <3>2, <3>4 DEF Waits, Working
    <3> QED BY <1>1, <1>2, <1>4, <2>1, <2>2, <3>2, <3>4, <3>5, <3>6, RowWorks DEF Nonterminal
  <2> QED BY <1>3, <1>4, <1>20, <2>3, <2>4 DEF CompensateBegin, Row
<1>21. CASE CompensateCall(o)
  <2>1. e.step = "delete" /\ op[o].status = "running" /\ op[o].intent /\ e.reply = "none"
        /\ e.item \in Managed
    BY <1>3, <1>5, <1>7, <1>21 DEF CompensateCall, At, CallSteps, CreateFits, Waits
  <2>2. PICK i, f : i = e.item /\ f = [e EXCEPT !.step = "await_delete"]
    OBVIOUS
  <2>3. Submit(o, "drop", i) /\ Becomes(o, f)
    BY <1>3, <1>21, <2>2 DEF CompensateCall, Goto
  <2>4. f.reply = "none" /\ f.step = "await_delete" /\ f.item = i /\ i \in Managed
    BY <2>1, <2>2 DEF ExecType
  <2>5. rows[c][i] = "deleting"
    BY <1>4, <1>5, <2>1, <2>2 DEF CreateFits, Working
  <2>6. CallFits(Call(o, "drop", i))
    BY <1>2, <2>1, <2>4 DEF CallFits, Call
  <2>7. ExecFits(o, f)'
    BY <1>2, <1>4, <2>3, <2>4, <2>5 DEF ExecFits, CreateFits, Working, Waits, Submit, rowVars, CapsuleOf
  <2> QED BY <1>1, <1>2, <1>4, <2>1, <2>3, <2>5, <2>6, <2>7, SubmitWorks DEF Nonterminal, Expects
<1>22. CASE CompensateReturns(o)
  <2>1. /\ e.step = "await_delete" /\ op[o].status = "running" /\ SameTimes
        /\ rows[c][e.item] = "deleting" /\ e.item \in Managed /\ <<c, e.item>> \notin exists
    BY <1>3, <1>4, <1>5, <1>10, <1>22
       DEF CompensateReturns, At, Fenced, Row, CreateFits, Working
  <2>2. PICK m \in {"deleted", "missing"} : SetRow(o, e.item, m)
    BY <1>3, <1>22 DEF CompensateReturns
  <2>3. ObjectFits(m, c, e.item)
    BY <2>1, RowFits
  <2>4. PICK g, h : /\ g = Stuck(Drops(e, e.item))
                    /\ h = [Drops(e, e.item) EXCEPT !.gone = @ \cup {e.item}]
    OBVIOUS
  <2>5. g.reply = "none" /\ g.step \in FreeSteps
    BY <2>4, CreateCaughtFree DEF FreeSteps
  <2>6. h.reply = "none" /\ h.step \in FreeSteps
    BY <2>4 DEF Drops, ExecType, FreeSteps
  <2>7. Becomes(o, g) \/ Becomes(o, h)
    BY <1>3, <1>22, <2>4 DEF CompensateReturns
  <2> QED BY <1>9, <1>22, <2>1, <2>2, <2>3, <2>5, <2>6, <2>7 DEF CompensateReturns
<1>23. CASE CompensateFails(o)
  <2>1. e.step = "await_delete" /\ op[o].status = "running" /\ SameTimes
    BY <1>3, <1>7, <1>10, <1>23 DEF CompensateFails, At, CallSteps
  <2>2. UNCHANGED rows \/ (rows[c][e.item] = "deleting" /\ SetRow(o, e.item, "error"))
    BY <1>3, <1>4, <1>23 DEF CompensateFails, Row
  <2>3. UNCHANGED rows \/ \E i, m : SetRow(o, i, m) /\ (i \in Managed => ObjectFits(m, c, i))
    BY <2>2, RowFits
  <2>4. PICK f : Becomes(o, f) /\ f = Stuck(Drops(e, e.item))
    BY <1>3, <1>23 DEF CompensateFails
  <2>5. f.reply = "none" /\ f.step \in FreeSteps
    BY <2>4, CreateCaughtFree DEF FreeSteps
  <2> QED BY <1>9, <1>23, <2>1, <2>3, <2>4, <2>5 DEF CompensateFails
<1>24. ASSUME NEW i \in exec[o].scope, CompensateFile(o, i) PROVE StaticInv' /\ ExecsInv'
  <2>1. op[o].status = "running" /\ SameTimes /\ i \notin Managed
    BY <1>3, <1>7, <1>10, <1>24 DEF CompensateFile, At, Direct
  <2>2. UNCHANGED rows \/ SetRow(o, i, "deleted")
    BY <1>24 DEF CompensateFile
  <2>3. UNCHANGED rows \/ \E j, m : SetRow(o, j, m) /\ (j \in Managed => ObjectFits(m, c, j))
    BY <2>1, <2>2
  <2>4. PICK f : Becomes(o, f) /\ (f = Stuck(Drops(e, i)) \/ f = Drops(e, i))
    BY <1>3, <1>24 DEF CompensateFile
  <2>5. f.reply = "none" /\ f.step \in FreeSteps
    BY <2>4, CreateCaughtFree DEF FreeSteps
  <2> QED BY <1>9, <1>24, <2>1, <2>3, <2>4, <2>5 DEF CompensateFile
<1>25. CASE CompensationEnds(o)
  <2>1. PICK f : f = [e EXCEPT !.step = "classify", !.flags = @ \cup {"compensated"}]
    OBVIOUS
  <2>2. Becomes(o, f) /\ f.step = "classify" /\ f.reply = "none"
    BY <1>3, <1>6, <1>25, <2>1 DEF CompensationEnds, At, ExecType, FreeSteps
  <2>3. ExecFits(o, f)
    BY <1>2, <2>2, FreeFits DEF FreeSteps
  <2>4. SameTimes
    BY <1>0, <1>25 DEF CompensationEnds, SameTimes, TypeInv, HistoryType
  <2> QED BY <1>1, <1>25, <2>2, <2>3, <2>4, MoveWorks DEF CompensationEnds
<1>26. CASE CreateFail(o) /\ UNCHANGED <<rowVars, providerVars, history>>
  <2>1. PICK f : f = Idle
    OBVIOUS
  <2>2. Becomes(o, f) /\ f.step = "none" /\ f.reply = "none"
    BY <1>26, <2>1 DEF CreateFail, Idle
  <2>3. ExecFits(o, f)
    BY <1>2, <2>2, FreeFits DEF FreeSteps
  <2> QED BY <1>1, <1>10, <1>26, <2>2, <2>3, MoveWorks
<1> QED
  BY <1>11, <1>12, <1>13, <1>14, <1>15, <1>16, <1>17, <1>18, <1>19, <1>20, <1>21, <1>22, <1>23,
     <1>24, <1>25, <1>26 DEF CreateStep, CreateFail

-----------------------------------------------------------------------------
(* Snapshot: one capture of its own.                                         *)
LEMMA CaptureWorks ==
  ASSUME WholeInv, NEW o \in OpIds, exec[o].step # "none", op[o].type = "snapshot_create",
         op[o].status = "running", NEW c \in Capsules, CapsuleOf(o) = c, NEW e, Becomes(o, e),
         UNCHANGED op \/ OpMoves(o),
         UNCHANGED <<capsule, rows, snapshot, target, providerVars, history>>,
         \A p \in OpIds \ {o} : capture'[p] = capture[p],
         \A v \in Versioned :
           \/ capture'[o][v] = capture[o][v]
           \/ capture[o][v] # "none" /\ ObjectFits(capture'[o][v], c, Snapshot(v, o)),
         ExecFits(o, e)'
  PROVE  StaticInv' /\ ExecsInv'
<1>1. op[o].status # "absent" /\ op[o].status \in Nonterminal /\ op[o].status \notin Terminal
  BY StatusesDiffer DEF Nonterminal
<1>2. exec'[o] = e /\ \A p \in OpIds \ {o} : exec'[p] = exec[p]
  BY Typed DEF Becomes, ProcessTyped
<1>3. /\ Quiet /\ Grows /\ \A p \in OpIds \ {o} : op'[p] = op[p]
      /\ \A d \in Capsules : Demolished(d)' <=> Demolished(d)
  <2>1. CASE UNCHANGED op
    BY <2>1 DEF Quiet, Grows, Demolished, CapsuleOf
  <2>2. CASE OpMoves(o)
    BY <1>1, <2>2, OpMovesGrow
  <2> QED BY <2>1, <2>2
<1>4. Works(o)
  BY <1>1, <1>2, <1>3, StatusesDiffer DEF Works, SameTimes, providerVars, HasPlan
<1>5. \A d, i : Rests(d, i)
  BY DEF Rests, Holds, MakePending, DropPending, Object, providerVars
<1>6. \A m, i : ObjectFits(m, c, i) => ObjectFits(m, c, i)'
  BY <1>3 DEF ObjectFits, MakePending, DropPending, Object, providerVars
<1>7. \A p \in OpIds : op'[p].type = op[p].type /\ op'[p].capsule = op[p].capsule
  BY <1>3 DEF Quiet
<1>8. ASSUME NEW p \in OpIds, NEW v \in Versioned
      PROVE  \/ ObjectFits(capture[p][v], CapsuleOf(p), Snapshot(v, p))'
             \/ capture'[p][v] = capture[p][v] /\ Rests(CapsuleOf(p), Snapshot(v, p))
  <2>1. CASE p # o
    BY <1>5, <2>1
  <2>2. CASE p = o /\ ObjectFits(capture'[o][v], c, Snapshot(v, o))
    <3>1. PICK m : m = capture'[o][v]
      OBVIOUS
    <3>2. ObjectFits(m, c, Snapshot(v, o))'
      BY <1>6, <2>2, <3>1
    <3>3. CapsuleOf(o)' = c
      BY <1>7 DEF CapsuleOf
    <3> QED BY <2>2, <3>1, <3>2, <3>3
  <2> QED BY <1>5, <2>1, <2>2
<1>9. ObjectsInv'
  BY <1>3, <1>5, <1>7, <1>8, ObjectsKeep
<1>10. ExecFits(o, exec[o])'
  BY <1>2
<1>11. \A v \in Versioned : capture[o][v] = "none" => capture'[o][v] = "none"
  OBVIOUS
<1> QED BY <1>4, <1>9, <1>10, <1>11, WorksKeep

LEMMA CaptureFits ==
  ASSUME WholeInv, NEW o \in OpIds, op[o].type = "snapshot_create", NEW c, c = CapsuleOf(o),
         NEW i \in Captured(o), NEW m, m = capture[o][i.name]
  PROVE  /\ ObjectFits(m, c, i)
         /\ m = "planned" => ObjectFits("creating", c, i)
         /\ m = "creating" => ObjectFits("error", c, i)
         /\ m = "creating" /\ <<c, i>> \in exists /\ ~MakePending(c, i) => ObjectFits("created", c, i)
         /\ m = "created" => ObjectFits("deleting", c, i)
         /\ m = "deleting" => ObjectFits("error", c, i)
         /\ m = "deleting" /\ <<c, i>> \notin exists => ObjectFits("deleted", c, i) /\ ObjectFits("missing", c, i)
<1>1. i.name \in Versioned /\ i = Snapshot(i.name, o)
  BY ItemsDiffer
<1>2. ObjectFits(m, c, i)
  BY <1>1 DEF WholeInv, StaticInv, ObjectsInv
<1> QED BY <1>2 DEF ObjectFits

(* The executor of a snapshot that holds nothing in hand.                     *)
LooseSteps == {"none", "claim", "undo", "recheck", "classify", "compensate"}
Loose(o, e) ==
  e.reply = "none" /\ e.step \in LooseSteps /\ (e.step = "compensate" => e.scope \subseteq Captured(o))
LEMMA LooseFits ==
  ASSUME NEW o \in OpIds, NEW e, Loose(o, e)
  PROVE  /\ op[o].type = "snapshot_create" => ExecFits(o, e)
         /\ op'[o].type = "snapshot_create" => ExecFits(o, e)'
<1>1. op[o].type = "snapshot_create" => SnapshotFits(o, e)
  BY DEF SnapshotFits, Waits, DirtyFits, CaptureSteps, Loose, LooseSteps
<1>2. op'[o].type = "snapshot_create" => SnapshotFits(o, e)'
  BY DEF SnapshotFits, Waits, DirtyFits, CaptureSteps, Loose, LooseSteps, Captured
<1> QED BY <1>1, <1>2 DEF ExecFits

LEMMA CaughtIsLoose ==
  ASSUME NEW o \in OpIds, NEW e \in ExecType
  PROVE  /\ Loose(o, SnapshotCaught(e))
         /\ Loose(o, SnapshotCaught([e EXCEPT !.flags = @ \ {"offline"}]))
         /\ Loose(o, SnapshotCaught([e EXCEPT !.flags = @ \cup {"offline"}]))
         /\ Loose(o, Idle)
         /\ e.scope \subseteq Captured(o) =>
              \A i : Loose(o, Covered(e, i)) /\ Loose(o, Missed(e, i))
<1>1. Loose(o, SnapshotCaught(e)) /\ Loose(o, Idle)
  BY DEF Loose, LooseSteps, SnapshotCaught, Idle, ExecType
<1>2. Loose(o, SnapshotCaught([e EXCEPT !.flags = @ \ {"offline"}]))
  <2>1. PICK f : f = [e EXCEPT !.flags = @ \ {"offline"}]
    OBVIOUS
  <2>2. DOMAIN f = DOMAIN e
    BY <2>1
  <2>3. "step" \in DOMAIN f /\ "reply" \in DOMAIN f /\ f = [x \in DOMAIN f |-> f[x]]
    BY <2>1, <2>2 DEF ExecType
  <2>4. Loose(o, SnapshotCaught(f))
    BY <2>3 DEF Loose, LooseSteps, SnapshotCaught, Idle
  <2> QED BY <2>1, <2>4
<1>3. Loose(o, SnapshotCaught([e EXCEPT !.flags = @ \cup {"offline"}]))
  <2>1. PICK f : f = [e EXCEPT !.flags = @ \cup {"offline"}]
    OBVIOUS
  <2>2. DOMAIN f = DOMAIN e
    BY <2>1
  <2>3. "step" \in DOMAIN f /\ "reply" \in DOMAIN f /\ f = [x \in DOMAIN f |-> f[x]]
    BY <2>1, <2>2 DEF ExecType
  <2>4. Loose(o, SnapshotCaught(f))
    BY <2>3 DEF Loose, LooseSteps, SnapshotCaught, Idle
  <2> QED BY <2>1, <2>4
<1>4. ASSUME e.scope \subseteq Captured(o), NEW i
      PROVE  Loose(o, Covered(e, i)) /\ Loose(o, Missed(e, i))
  BY <1>4 DEF Loose, LooseSteps, Covered, Missed, ExecType
<1> QED BY <1>1, <1>2, <1>3, <1>4

(* Snapshot, until it ends.                                                  *)
LEMMA SnapshotWorks ==
  ASSUME WholeInv, NEW o \in OpIds, SnapshotStep(o)
  PROVE  \/ StaticInv' /\ ExecsInv'
         \/ SnapshotCommit(o)
         \/ op[o].status \in Nonterminal /\ SnapshotSettles(o, SnapshotIsSafe(o)) /\ SnapshotFail(o)
<1>0. LedgerInv /\ TypeInv
  BY Typed DEF WholeInv
<1>1. exec[o].step # "none"
  BY <1>0, SnapshotAdvances
<1>2. op[o].type = "snapshot_create"
  BY DEF SnapshotStep, SnapshotThrows, SnapshotClaim, SnapshotRevokes, SnapshotVerifies,
     SnapshotBegin, SnapshotCall, SnapshotReturns, SnapshotCallFails, SnapshotRecord,
     SnapshotFinalizes, SnapshotCommit, UndoBegins, UndoPasses, UndoBegin, UndoCall, UndoReturns,
     UndoFails, UndoEnds, SnapshotRechecks, SnapshotFail, At
<1>3. PICK e \in ExecType : e = exec[o]
  BY <1>0, <1>1, Executes
<1>4. PICK c \in Capsules : c = CapsuleOf(o)
  BY <1>0, <1>1, Executes
<1>5. SnapshotFits(o, e)
  BY <1>2, <1>3 DEF WholeInv, ExecsInv, ExecFits
<1>6. e.step \notin {"await", "await_stop", "await_delete"} => e.reply = "none"
  BY <1>5 DEF SnapshotFits, Waits
<1>7. /\ e.step \in CallSteps => op[o].status = "running" /\ op[o].intent
      /\ e.step = "compensate" => op[o].status = "running"
  BY <1>0, <1>1, <1>2, <1>3, AtStep DEF Agrees, ArmedSteps
<1>8. /\ Loose(o, SnapshotCaught(e))
      /\ Loose(o, SnapshotCaught([e EXCEPT !.flags = @ \ {"offline"}]))
      /\ Loose(o, SnapshotCaught([e EXCEPT !.flags = @ \cup {"offline"}]))
      /\ Loose(o, Idle)
      /\ e.scope \subseteq Captured(o) => \A i : Loose(o, Covered(e, i)) /\ Loose(o, Missed(e, i))
  BY <1>3, CaughtIsLoose
<1>9. UNCHANGED history => SameTimes
  BY DEF SameTimes
<1>10. e.step \in {"call", "await", "record", "delete", "await_delete"} =>
         e.item \in Captured(o) /\ Working(c, e.item, e, capture[o][e.item.name])
  BY <1>4, <1>5 DEF SnapshotFits
<1>11. e.step \in CaptureSteps =>
         /\ c \in running => history.drifts >= 1
         /\ o \in history.dirty => history.drifts >= 2 \/ (history.drifts >= 1 /\ c \in running)
  BY <1>4, <1>5 DEF SnapshotFits, DirtyFits
(* What most steps do: nothing but the executor moves, and it holds nothing.  *)
<1>12. ASSUME NEW f, Becomes(o, f), Loose(o, f), UNCHANGED <<rowVars, providerVars>>, SameTimes
       PROVE  StaticInv' /\ ExecsInv'
  <2>1. ExecFits(o, f)
    BY <1>2, <1>12, LooseFits
  <2> QED BY <1>1, <1>12, <2>1, MoveWorks
(* Or one capture is set.                                                    *)
<1>13. ASSUME NEW f, Becomes(o, f), op[o].status = "running",
              UNCHANGED op \/ OpMoves(o),
              UNCHANGED <<capsule, rows, snapshot, target, providerVars, history>>,
              NEW i \in Captured(o), NEW m,
              UNCHANGED capture \/
                (SetCapture(o, i.name, m) /\ capture[o][i.name] # "none" /\ ObjectFits(m, c, i)),
              Loose(o, f) \/ ExecFits(o, f)'
       PROVE  StaticInv' /\ ExecsInv'
  <2>1. i.name \in Versioned /\ i = Snapshot(i.name, o)
    BY ItemsDiffer
  <2>2. /\ \A p \in OpIds \ {o} : capture'[p] = capture[p]
        /\ \A v \in Versioned :
             \/ capture'[o][v] = capture[o][v]
             \/ capture[o][v] # "none" /\ ObjectFits(capture'[o][v], c, Snapshot(v, o))
    <3>1. CASE UNCHANGED capture
      BY <3>1
    <3>2. CASE SetCapture(o, i.name, m) /\ capture[o][i.name] # "none" /\ ObjectFits(m, c, i)
      <4>1. capture \in [OpIds -> [Versioned -> RowStatuses]]
        BY <1>0 DEF TypeInv, RowsTyped
      <4>2. /\ \A p \in OpIds \ {o} : capture'[p] = capture[p]
            /\ \A v \in Versioned : capture'[o][v] = IF v = i.name THEN m ELSE capture[o][v]
        BY <2>1, <3>2, <4>1 DEF SetCapture
      <4> QED BY <2>1, <3>2, <4>2
    <3> QED BY <1>13, <3>1, <3>2
  <2>3. op'[o].type = "snapshot_create"
    <3>1. CASE UNCHANGED op
      BY <1>2, <3>1
    <3>2. CASE OpMoves(o)
      BY <1>1, <1>2, <1>13, <3>2, OpMovesGrow, Executes, Typed DEF Quiet
    <3> QED BY <1>13, <3>1, <3>2
  <2>4. ExecFits(o, f)'
    BY <1>13, <2>3, LooseFits
  <2> QED BY <1>1, <1>2, <1>4, <1>13, <2>2, <2>4, CaptureWorks
<1>14. CASE SnapshotThrows(o)
  <2>1. PICK f : f = SnapshotCaught(e)
    OBVIOUS
  <2> QED BY <1>3, <1>8, <1>9, <1>12, <1>14, <2>1 DEF SnapshotThrows
<1>15. CASE SnapshotClaim(o)
  <2>1. PICK g, h : /\ g = [e EXCEPT !.step = "revoke", !.flags = @ \cup {"claimed"}]
                    /\ h = SnapshotCaught(e)
    OBVIOUS
  <2>2. e.step = "claim" /\ OpMoves(o) /\ (Becomes(o, g) \/ Becomes(o, h))
    BY <1>3, <1>15, <2>1 DEF SnapshotClaim, At, OpMoves, SnapshotAcks
  <2>3. op'[o].type = "snapshot_create" /\ op'[o].status = "running" /\ ~op'[o].intent
    BY <1>0, <1>2, <1>15 DEF SnapshotClaim, ClaimRow, TypeInv, RowsTyped, OpType
  <2>4. ExecFits(o, h)'
    BY <1>8, <2>1, <2>3, LooseFits
  <2>5. ExecFits(o, g)'
    <3>1. g.step = "revoke" /\ g.reply = "none"
      BY <1>6, <2>1, <2>2 DEF ExecType
    <3>2. SnapshotFits(o, g)'
      BY <2>3, <3>1 DEF SnapshotFits, Waits, DirtyFits, CaptureSteps
    <3> QED BY <2>3, <3>2 DEF ExecFits
  <2> QED BY <1>1, <1>15, <2>2, <2>4, <2>5, OpWorks DEF SnapshotClaim
<1>16. CASE SnapshotRevokes(o)
  <2>1. PICK f : f = [e EXCEPT !.step = "verify", !.flags = @ \cup {"observed"}]
    OBVIOUS
  <2>2. Becomes(o, f) /\ f.step = "verify" /\ f.reply = "none" /\ e.step = "revoke"
    BY <1>3, <1>6, <1>16, <2>1 DEF SnapshotRevokes, At, ExecType
  <2>3. op[o].status = "running" /\ ~op[o].intent
    BY <1>5, <2>2 DEF SnapshotFits
  <2>4. ExecFits(o, f)
    BY <1>2, <2>2, <2>3 DEF ExecFits, SnapshotFits, Waits, DirtyFits, CaptureSteps
  <2> QED BY <1>1, <1>9, <1>16, <2>2, <2>4, MoveWorks DEF SnapshotRevokes
<1>17. CASE SnapshotVerifies(o)
  <2>1. CASE Becomes(o, SnapshotCaught(e))
    <3>1. PICK f : f = SnapshotCaught(e)
      OBVIOUS
    <3> QED BY <1>8, <1>9, <1>12, <1>17, <2>1, <3>1 DEF SnapshotVerifies
  <2>2. CASE /\ c \notin running
             /\ Becomes(o, [e EXCEPT !.step = "begin", !.flags = @ \cup {"offline", "started"}])
    <3>1. PICK f : f = [e EXCEPT !.step = "begin", !.flags = @ \cup {"offline", "started"}]
      OBVIOUS
    <3>2. Becomes(o, f) /\ f.step = "begin" /\ f.reply = "none" /\ e.step = "verify"
      BY <1>3, <1>6, <1>17, <2>2, <3>1 DEF SnapshotVerifies, At, ExecType
    <3>3. op[o].status = "running" /\ ~op[o].intent
      BY <1>5, <3>2 DEF SnapshotFits
    <3>4. o \notin history.dirty
      BY <3>3 DEF WholeInv, StaticInv, DirtyInv
    <3>5. DirtyFits(o, f)
      BY <1>4, <2>2, <3>2, <3>4 DEF DirtyFits
    <3>6. ExecFits(o, f)
      BY <1>2, <3>2, <3>3, <3>5 DEF ExecFits, SnapshotFits, Waits
    <3> QED BY <1>1, <1>9, <1>17, <3>2, <3>6, MoveWorks DEF SnapshotVerifies
  <2>3. CASE Becomes(o, SnapshotCaught([e EXCEPT !.flags = @ \cup {"offline"}]))
    <3>1. PICK f : f = SnapshotCaught([e EXCEPT !.flags = @ \cup {"offline"}])
      OBVIOUS
    <3> QED BY <1>8, <1>9, <1>12, <1>17, <2>3, <3>1 DEF SnapshotVerifies
  <2> QED BY <1>3, <1>4, <1>17, <2>1, <2>2, <2>3 DEF SnapshotVerifies
<1>18. ASSUME NEW v \in Versioned, SnapshotBegin(o, v) PROVE StaticInv' /\ ExecsInv'
  <2>1. PICK i : i = Snapshot(v, o)
    OBVIOUS
  <2>2. i \in Captured(o) /\ i.name = v
    BY <2>1, ItemsDiffer
  <2>3. /\ e.step = "begin" /\ e.reply = "none" /\ op[o].status = "running"
        /\ capture[o][v] = "planned" /\ SetCapture(o, v, "creating") /\ OpMoves(o)
    BY <1>2, <1>3, <1>6, <1>18 DEF SnapshotBegin, At, Running, OpMoves
  <2>4. ObjectFits("creating", c, i)
    BY <1>2, <1>4, <2>2, <2>3, CaptureFits
  <2>5. PICK g, h : g = [e EXCEPT !.step = "call", !.item = i] /\ h = SnapshotCaught(e)
    OBVIOUS
  <2>6. Becomes(o, g) \/ Becomes(o, h)
    BY <1>3, <1>18, <2>1, <2>5 DEF SnapshotBegin, SnapshotAcks
  <2>7. g.step = "call" /\ g.item = i /\ g.reply = "none"
    BY <2>3, <2>5 DEF ExecType
  <2>8. capture'[o][v] = "creating"
    BY <1>0, <2>3 DEF SetCapture, TypeInv, RowsTyped
  <2>9. op'[o].type = "snapshot_create" /\ op'[o].status = "running" /\ CapsuleOf(o)' = c
    BY <1>1, <1>2, <1>4, <1>18, <2>3, OpMovesGrow, Executes, Typed DEF Quiet, CapsuleOf, SnapshotBegin
  <2>10. ExecFits(o, g)'
    <3>1. DirtyFits(o, g)'
      BY <1>11, <1>18, <2>3, <2>7, <2>9 DEF DirtyFits, CaptureSteps, SnapshotBegin, providerVars
    <3>2. SnapshotFits(o, g)'
      BY <2>2, <2>7, <2>8, <2>9, <3>1 DEF SnapshotFits, Waits, Working, Captured
    <3> QED BY <2>9, <3>2 DEF ExecFits
  <2>11. UNCHANGED <<capsule, rows, snapshot, target, providerVars, history>>
    BY <1>18 DEF SnapshotBegin
  <2>12. Loose(o, h)
    BY <1>8, <2>5
  <2> QED BY <1>13, <2>2, <2>3, <2>4, <2>6, <2>10, <2>11, <2>12
<1>19. CASE SnapshotCall(o)
  <2>1. e.step = "call" /\ op[o].status = "running" /\ op[o].intent /\ e.reply = "none"
    BY <1>3, <1>6, <1>7, <1>19 DEF SnapshotCall, At, CallSteps
  <2>2. PICK i, f : i = e.item /\ f = [e EXCEPT !.step = "await"]
    OBVIOUS
  <2>3. Submit(o, "make", i) /\ Becomes(o, f)
    BY <1>3, <1>19, <2>2 DEF SnapshotCall, Goto
  <2>4. f.reply = "none" /\ f.step = "await" /\ f.item = i /\ i \in Captured(o)
    BY <1>10, <2>1, <2>2 DEF ExecType
  <2>5. capture[o][i.name] = "creating"
    BY <1>10, <2>1, <2>2 DEF Working
  <2>6. CallFits(Call(o, "make", i))
    BY <1>2, <2>1, <2>4 DEF CallFits, Call
  <2>7. UNCHANGED <<rowVars, running>> /\ SameTimes
    BY <1>0, <2>3 DEF Submit, SameTimes, TypeInv, HistoryType
  <2>8. DirtyFits(o, f)'
    BY <1>4, <1>11, <2>1, <2>4, <2>7 DEF DirtyFits, CaptureSteps, SameTimes, rowVars, CapsuleOf
  <2>9. SnapshotFits(o, f)'
    BY <2>4, <2>5, <2>7, <2>8 DEF SnapshotFits, Working, Waits, rowVars, CapsuleOf, Captured
  <2>10. ExecFits(o, f)'
    BY <1>2, <2>7, <2>9 DEF ExecFits, rowVars
  <2> QED BY <1>1, <1>2, <1>4, <2>1, <2>3, <2>5, <2>6, <2>10, SubmitWorks DEF Nonterminal, Expects
<1>20. CASE SnapshotReturns(o)
  <2>1. PICK f : f = [e EXCEPT !.step = "record", !.reply = "none"]
    OBVIOUS
  <2>2. Becomes(o, f) /\ f.step = "record" /\ f.reply = "none" /\ f.item = e.item
    BY <1>3, <1>20, <2>1 DEF SnapshotReturns, ExecType
  <2>3. e.step = "await" /\ e.reply = "ok"
    BY <1>3, <1>20 DEF SnapshotReturns, At
  <2>4. DirtyFits(o, f)
    BY <1>4, <1>11, <2>2, <2>3 DEF DirtyFits, CaptureSteps
  <2>5. f.item \in Captured(o) /\ Working(c, f.item, f, capture[o][f.item.name])
    BY <1>10, <2>2, <2>3 DEF Working
  <2>6. ExecFits(o, f)
    BY <1>2, <1>4, <2>2, <2>4, <2>5 DEF ExecFits, SnapshotFits, Waits
  <2> QED BY <1>1, <1>9, <1>20, <2>2, <2>6, MoveWorks DEF SnapshotReturns
<1>21. CASE SnapshotCallFails(o)
  <2>1. PICK i, f : i = e.item /\ f = SnapshotCaught(e)
    OBVIOUS
  <2>2. e.step \in {"call", "await"} /\ op[o].status = "running" /\ i \in Captured(o) /\ Becomes(o, f)
        /\ Loose(o, f)
    BY <1>3, <1>7, <1>8, <1>10, <1>21, <2>1 DEF SnapshotCallFails, CallSteps
  <2>3. \/ UNCHANGED capture
        \/ capture[o][i.name] = "creating" /\ SetCapture(o, i.name, "error")
    BY <1>3, <1>21, <2>1 DEF SnapshotCallFails
  <2>4. capture[o][i.name] = "creating" => ObjectFits("error", c, i)
    BY <1>2, <1>4, <2>2, CaptureFits
  <2> QED BY <1>13, <1>21, <2>2, <2>3, <2>4 DEF SnapshotCallFails
<1>22. CASE SnapshotRecord(o)
  <2>1. PICK i, g, h : i = e.item /\ g = [e EXCEPT !.step = "begin", !.item = NoItem] /\ h = SnapshotCaught(e)
    OBVIOUS
  <2>2. /\ e.step = "record" /\ op[o].status = "running" /\ i \in Captured(o) /\ Loose(o, h)
        /\ (Becomes(o, g) \/ Becomes(o, h))
    BY <1>3, <1>7, <1>8, <1>10, <1>22, <2>1 DEF SnapshotRecord, SnapshotAcks, At, CallSteps
  <2>3. capture[o][i.name] = "creating" /\ SetCapture(o, i.name, "created")
    BY <1>3, <1>22, <2>1 DEF SnapshotRecord
  <2>4. ObjectFits("created", c, i)
    <3>1. <<c, i>> \in exists /\ ~MakePending(c, i)
      BY <1>10, <2>1, <2>2 DEF Working
    <3> QED BY <1>2, <1>4, <2>2, <2>3, <3>1, CaptureFits
  <2>5. g.step = "begin" /\ g.reply = "none"
    BY <1>6, <2>1, <2>2 DEF ExecType
  <2>6. ExecFits(o, g)'
    <3>1. UNCHANGED <<op, running, history>>
      BY <1>22 DEF SnapshotRecord, providerVars
    <3>2. DirtyFits(o, g)'
      BY <1>4, <1>11, <2>2, <2>5, <3>1 DEF DirtyFits, CaptureSteps, CapsuleOf
    <3>3. SnapshotFits(o, g)'
      BY <2>2, <2>5, <3>1, <3>2 DEF SnapshotFits, Waits
    <3> QED BY <1>2, <3>1, <3>3 DEF ExecFits
  <2>7. UNCHANGED op /\ UNCHANGED <<capsule, rows, snapshot, target, providerVars, history>>
    BY <1>22 DEF SnapshotRecord
  <2> QED BY <1>13, <2>2, <2>3, <2>4, <2>6, <2>7
<1>23. CASE SnapshotFinalizes(o)
  <2>1. PICK g, h : /\ g = [e EXCEPT !.step = "commit", !.flags = @ \cup {"final"}]
                    /\ h = SnapshotCaught([e EXCEPT !.flags = @ \ {"offline"}])
    OBVIOUS
  <2>2. CASE Becomes(o, h)
    BY <1>8, <1>9, <1>12, <1>23, <2>1, <2>2 DEF SnapshotFinalizes
  <2>3. CASE Offline(o) /\ Becomes(o, g)
    <3>1. g.step = "commit" /\ g.reply = "none" /\ e.step = "begin"
      BY <1>3, <1>6, <1>23, <2>1 DEF SnapshotFinalizes, At, ExecType
    <3>2. o \in history.dirty => history.drifts >= 2
      BY <1>4, <1>11, <2>3, <3>1 DEF CaptureSteps, Offline
    <3>3. DirtyFits(o, g)
      BY <3>1, <3>2 DEF DirtyFits, CaptureSteps
    <3>4. op[o].status = "running"
      BY <1>5, <3>1 DEF SnapshotFits
    <3>5. ExecFits(o, g)
      BY <1>2, <3>1, <3>3, <3>4 DEF ExecFits, SnapshotFits, Waits
    <3> QED BY <1>1, <1>9, <1>23, <2>3, <3>5, MoveWorks DEF SnapshotFinalizes
  <2> QED BY <1>3, <1>23, <2>1, <2>2, <2>3 DEF SnapshotFinalizes
<1>24. CASE UndoBegins(o)
  <2>1. PICK g, h : /\ g = [e EXCEPT !.step = "compensate", !.scope = Captured(o)]
                    /\ h = [e EXCEPT !.step = "recheck"]
    OBVIOUS
  <2>2. e.step = "undo" /\ e.reply = "none" /\ (Becomes(o, g) \/ Becomes(o, h))
    BY <1>3, <1>6, <1>24, <2>1 DEF UndoBegins, At, Goto
  <2>3. Loose(o, g) /\ Loose(o, h)
    BY <2>1, <2>2 DEF Loose, LooseSteps, ExecType
  <2> QED BY <1>9, <1>12, <1>24, <2>2, <2>3 DEF UndoBegins
<1>25. e.step \in {"compensate", "delete", "await_delete"} => e.scope \subseteq Captured(o)
  BY <1>5 DEF SnapshotFits
<1>26. ASSUME NEW i \in exec[o].scope, UndoPasses(o, i) PROVE StaticInv' /\ ExecsInv'
  <2>1. PICK g, h : g = Covered(e, i) /\ h = Missed(e, i)
    OBVIOUS
  <2>2. e.step = "compensate" /\ (Becomes(o, g) \/ Becomes(o, h))
    BY <1>3, <1>26, <2>1 DEF UndoPasses, At
  <2>3. Loose(o, g) /\ Loose(o, h)
    BY <1>8, <1>25, <2>1, <2>2
  <2> QED BY <1>9, <1>12, <1>26, <2>2, <2>3 DEF UndoPasses
<1>27. ASSUME NEW i \in exec[o].scope, UndoBegin(o, i) PROVE StaticInv' /\ ExecsInv'
  <2>1. PICK g, h : g = [e EXCEPT !.step = "delete", !.item = i] /\ h = Missed(e, i)
    OBVIOUS
  <2>2. /\ e.step = "compensate" /\ e.reply = "none" /\ op[o].status = "running" /\ i \in Captured(o)
        /\ capture[o][i.name] = "created"
    BY <1>3, <1>6, <1>7, <1>25, <1>27 DEF UndoBegin, At
  <2>3. ObjectFits("deleting", c, i) /\ Loose(o, h)
    BY <1>2, <1>4, <1>8, <1>25, <2>1, <2>2, CaptureFits
  <2>4. UNCHANGED op /\ UNCHANGED <<capsule, rows, snapshot, target, providerVars, history>>
    BY <1>27 DEF UndoBegin
  <2>5. CASE Becomes(o, h)
    <3>1. UNCHANGED capture \/ SetCapture(o, i.name, "deleting")
      BY <1>27 DEF UndoBegin
    <3> QED BY <1>13, <2>2, <2>3, <2>4, <2>5, <3>1
  <2>6. CASE SetCapture(o, i.name, "deleting") /\ Becomes(o, g)
    <3>1. g.step = "delete" /\ g.item = i /\ g.reply = "none" /\ g.scope = e.scope
      BY <2>1, <2>2 DEF ExecType
    <3>2. capture'[o][i.name] = "deleting"
      BY <1>0, <2>2, <2>6, ItemsDiffer DEF SetCapture, TypeInv, RowsTyped
    <3>3. DirtyFits(o, g)'
      BY <3>1 DEF DirtyFits, CaptureSteps
    <3>4. SnapshotFits(o, g)'
      BY <1>25, <2>2, <3>1, <3>2, <3>3 DEF SnapshotFits, Waits, Working, Captured
    <3>5. ExecFits(o, g)'
      BY <1>2, <2>4, <3>4 DEF ExecFits
    <3> QED BY <1>13, <2>2, <2>3, <2>4, <2>6, <3>5
  <2> QED BY <1>3, <1>27, <2>1, <2>5, <2>6 DEF UndoBegin
<1>28. CASE UndoCall(o)
  <2>1. e.step = "delete" /\ op[o].status = "running" /\ op[o].intent /\ e.reply = "none"
    BY <1>3, <1>6, <1>7, <1>28 DEF UndoCall, At, CallSteps
  <2>2. PICK i, f : i = e.item /\ f = [e EXCEPT !.step = "await_delete"]
    OBVIOUS
  <2>3. Submit(o, "drop", i) /\ Becomes(o, f)
    BY <1>3, <1>28, <2>2 DEF UndoCall, Goto
  <2>4. /\ f.reply = "none" /\ f.step = "await_delete" /\ f.item = i /\ i \in Captured(o)
        /\ f.scope \subseteq Captured(o)
    BY <1>10, <1>25, <2>1, <2>2 DEF ExecType
  <2>5. capture[o][i.name] = "deleting"
    BY <1>10, <2>1, <2>2 DEF Working
  <2>6. CallFits(Call(o, "drop", i))
    BY <1>2, <2>1, <2>4 DEF CallFits, Call
  <2>7. UNCHANGED rowVars
    BY <2>3 DEF Submit
  <2>8. DirtyFits(o, f)'
    BY <2>4 DEF DirtyFits, CaptureSteps
  <2>9. SnapshotFits(o, f)'
    BY <2>4, <2>5, <2>7, <2>8 DEF SnapshotFits, Working, Waits, rowVars, CapsuleOf, Captured
  <2>10. ExecFits(o, f)'
    BY <1>2, <2>7, <2>9 DEF ExecFits, rowVars
  <2> QED BY <1>1, <1>2, <1>4, <2>1, <2>3, <2>5, <2>6, <2>10, SubmitWorks DEF Nonterminal, Expects
<1>29. CASE UndoReturns(o)
  <2>1. PICK i, g, h : i = e.item /\ g = Covered(e, e.item) /\ h = Missed(e, e.item)
    OBVIOUS
  <2>2. /\ e.step = "await_delete" /\ e.reply \in {"ok", "missing"} /\ op[o].status = "running"
        /\ i \in Captured(o) /\ capture[o][i.name] = "deleting" /\ <<c, i>> \notin exists
    BY <1>3, <1>7, <1>10, <1>29, <2>1 DEF UndoReturns, At, CallSteps, Working
  <2>3. PICK m \in {"deleted", "missing"} : SetCapture(o, i.name, m)
    BY <1>3, <1>29, <2>1 DEF UndoReturns
  <2>4. ObjectFits(m, c, i)
    BY <1>2, <1>4, <2>2, CaptureFits
  <2>5. (Becomes(o, g) \/ Becomes(o, h)) /\ Loose(o, g) /\ Loose(o, h)
    BY <1>3, <1>8, <1>25, <1>29, <2>1, <2>2 DEF UndoReturns
  <2>6. UNCHANGED op /\ UNCHANGED <<capsule, rows, snapshot, target, providerVars, history>>
    BY <1>29 DEF UndoReturns
  <2> QED BY <1>13, <2>2, <2>3, <2>4, <2>5, <2>6
<1>30. CASE UndoFails(o)
  <2>1. PICK i, f : i = e.item /\ f = Missed(e, e.item)
    OBVIOUS
  <2>2. /\ e.step = "await_delete" /\ op[o].status = "running" /\ i \in Captured(o)
        /\ Becomes(o, f) /\ Loose(o, f)
    BY <1>3, <1>7, <1>8, <1>10, <1>25, <1>30, <2>1 DEF UndoFails, At, CallSteps
  <2>3. UNCHANGED capture \/ (capture[o][i.name] = "deleting" /\ SetCapture(o, i.name, "error"))
    BY <1>3, <1>30, <2>1 DEF UndoFails
  <2>4. capture[o][i.name] = "deleting" => ObjectFits("error", c, i)
    BY <1>2, <1>4, <2>2, CaptureFits
  <2> QED BY <1>13, <1>30, <2>2, <2>3, <2>4 DEF UndoFails
<1>31. CASE UndoEnds(o)
  <2>1. PICK f : f = [e EXCEPT !.step = "recheck",
                   !.flags = IF "stuck" \in @ THEN @ ELSE @ \cup {"compensated"}]
    OBVIOUS
  <2>2. Becomes(o, f) /\ Loose(o, f)
    BY <1>3, <1>6, <1>31, <2>1 DEF UndoEnds, At, Loose, LooseSteps, ExecType
  <2>3. SameTimes
    BY <1>0, <1>31 DEF UndoEnds, SameTimes, TypeInv, HistoryType
  <2> QED BY <1>12, <1>31, <2>2, <2>3 DEF UndoEnds
<1>32. CASE SnapshotRechecks(o)
  <2>1. PICK g, h : /\ g = [e EXCEPT !.step = "classify"]
                    /\ h = [e EXCEPT !.step = "classify", !.flags = @ \ {"offline"}]
    OBVIOUS
  <2>2. e.step = "recheck" /\ e.reply = "none" /\ (Becomes(o, g) \/ Becomes(o, h))
    BY <1>3, <1>6, <1>32, <2>1 DEF SnapshotRechecks, At, Goto
  <2>3. Loose(o, g) /\ Loose(o, h)
    BY <2>1, <2>2 DEF Loose, LooseSteps, ExecType
  <2> QED BY <1>9, <1>12, <1>32, <2>2, <2>3 DEF SnapshotRechecks
<1>33. CASE SnapshotFail(o) /\ UNCHANGED <<rowVars, providerVars, history>>
  <2>1. PICK f : f = Idle
    OBVIOUS
  <2> QED BY <1>8, <1>9, <1>12, <1>33, <2>1 DEF SnapshotFail
<1> QED
  BY <1>14, <1>15, <1>16, <1>17, <1>18, <1>19, <1>20, <1>21, <1>22, <1>23, <1>24, <1>26, <1>27,
     <1>28, <1>29, <1>30, <1>31, <1>32, <1>33 DEF SnapshotStep, SnapshotFail

-----------------------------------------------------------------------------
(* Archive and unarchive, until they end.                                    *)
LEMMA ArchivalWorks ==
  ASSUME WholeInv, NEW o \in OpIds, ArchivalStep(o)
  PROVE  \/ StaticInv' /\ ExecsInv'
         \/ ArchivalComplete(o)
         \/ op[o].status \in Nonterminal /\ ArchivalSettles(o) /\ ArchivalFail(o)
<1>0. LedgerInv /\ TypeInv
  BY Typed DEF WholeInv
<1>1. exec[o].step # "none"
  BY <1>0, ArchivalAdvances
<1>2. op[o].type \in Archivals
  BY DEF ArchivalStep, ArchivalThrows, ArchivalClaim, ArchivalComplete, ArchivalFail, Archiving
<1>3. op[o].type \notin {"create", "snapshot_create", "destroy"}
  BY <1>2 DEF Archivals
<1>4. CASE ArchivalThrows(o)
  <2>1. PICK f : Becomes(o, f)
    BY <1>4 DEF ArchivalThrows
  <2>2. ExecFits(o, f) /\ SameTimes
    BY <1>3, <1>4 DEF ExecFits, ArchivalThrows, SameTimes
  <2> QED BY <1>1, <1>4, <2>1, <2>2, MoveWorks DEF ArchivalThrows
<1>5. CASE ArchivalClaim(o)
  <2>1. PICK f : Becomes(o, f)
    BY <1>5 DEF ArchivalClaim, ArchivalAcks
  <2>2. OpMoves(o) /\ op'[o].type = op[o].type
    BY <1>0, <1>5 DEF ArchivalClaim, OpMoves, ClaimRow, TypeInv, RowsTyped, OpType
  <2>3. ExecFits(o, f)'
    BY <1>3, <2>2 DEF ExecFits
  <2> QED BY <1>1, <1>5, <2>1, <2>2, <2>3, OpWorks DEF ArchivalClaim
<1>6. CASE ArchivalFail(o) /\ UNCHANGED <<rowVars, providerVars, history>>
  <2>1. PICK f : Becomes(o, f)
    BY <1>6 DEF ArchivalFail
  <2>2. ExecFits(o, f) /\ SameTimes
    BY <1>3, <1>6 DEF ExecFits, SameTimes
  <2> QED BY <1>1, <1>6, <2>1, <2>2, MoveWorks
<1> QED BY <1>4, <1>5, <1>6 DEF ArchivalStep, ArchivalFail

-----------------------------------------------------------------------------
(* Destroy: its own plan, and the snapshots it retires.                      *)
LEMMA PlanDomain ==
  ASSUME NEW t \in TargetType
  PROVE  t # NoTargets <=> DOMAIN t # {}
  BY DEF TargetType, NoTargets

LEMMA PlanWorks ==
  ASSUME WholeInv, NEW o \in OpIds, exec[o].step # "none", op[o].type = "destroy",
         op[o].status \in Nonterminal, NEW e, Becomes(o, e), ExecFits(o, e)',
         UNCHANGED <<op, capsule, rows, capture, providerVars, history>>,
         \A p \in OpIds \ {o} : target'[p] = target[p],
         PlanFits(o), HasPlan(o) => HasPlan(o)',
         \A p \in OpIds :
           \/ snapshot'[p] = snapshot[p]
           \/ p \in Usable(CapsuleOf(o)) /\ snapshot'[p] = "retired" /\ HasPlan(o)
  PROVE  StaticInv' /\ ExecsInv'
<1>1. op[o].status # "absent" /\ op[o].status \notin Terminal
  BY StatusesDiffer
<1>2. exec'[o] = e /\ \A p \in OpIds \ {o} : exec'[p] = exec[p]
  BY Typed DEF Becomes, ProcessTyped
<1>3. Works(o)
  BY <1>1, <1>2 DEF Works, Quiet, Grows, SameTimes, providerVars
<1>4. ObjectsInv'
  BY DEF WholeInv, StaticInv, ObjectsInv, ObjectFits, MakePending, DropPending, Object, Demolished,
     CapsuleOf, providerVars
<1>5. ExecFits(o, exec[o])'
  BY <1>2
<1> QED BY <1>3, <1>4, <1>5, WorksKeep

(* One target is set.                                                        *)
LEMMA SetTargetWorks ==
  ASSUME WholeInv, NEW o \in OpIds, exec[o].step # "none", op[o].type = "destroy",
         op[o].status \in Nonterminal, NEW e, Becomes(o, e), ExecFits(o, e)',
         UNCHANGED <<op, capsule, rows, capture, snapshot, providerVars, history>>,
         NEW i, NEW status, SetTarget(o, i, status),
         status \in {"absent", "deleted"} =>
           op[o].intent /\ <<CapsuleOf(o), i>> \notin exists /\ ~MakePending(CapsuleOf(o), i)
  PROVE  StaticInv' /\ ExecsInv'
<1>1. target \in [OpIds -> TargetType] /\ target[o] \in TargetType
  BY Typed DEF RowsTyped
<1>2. /\ \A p \in OpIds \ {o} : target'[p] = target[p]
      /\ DOMAIN target'[o] = DOMAIN target[o]
      /\ \A j \in DOMAIN target[o] : target'[o][j] = IF j = i THEN status ELSE target[o][j]
  <2>1. target' = [target EXCEPT ![o] = [target[o] EXCEPT ![i] = status]]
    BY DEF SetTarget
  <2>2. target'[o] = [target[o] EXCEPT ![i] = status] /\ \A p \in OpIds \ {o} : target'[p] = target[p]
    BY <1>1, <2>1
  <2> QED BY <1>1, <2>2 DEF TargetType
<1>3. HasPlan(o) => HasPlan(o)'
  <2>1. HasPlan(o) => DOMAIN target[o] # {}
    BY <1>1, PlanDomain DEF HasPlan
  <2>2. DOMAIN target[o] # {} => target'[o] # NoTargets
    BY <1>2 DEF NoTargets
  <2> QED BY <2>1, <2>2 DEF HasPlan
<1>4. HasPlan(o)' => HasPlan(o)
  <2>1. SUFFICES ASSUME target[o] = NoTargets PROVE target'[o] = NoTargets
    BY DEF HasPlan
  <2>2. DOMAIN target[o] = {}
    BY <2>1 DEF NoTargets
  <2>3. target'[o] = [target[o] EXCEPT ![i] = status]
    BY <1>1 DEF SetTarget
  <2> QED BY <1>2, <2>2, <2>3 DEF NoTargets
<1>5. PlanFits(o)
  <2>1. /\ HasPlan(o) /\ op[o].status \in Nonterminal => Targets(CapsuleOf(o)) \subseteq DOMAIN target[o]
        /\ \A j \in DOMAIN target[o] : target[o][j] \in {"absent", "deleted"} =>
             /\ op[o].intent /\ <<CapsuleOf(o), j>> \notin exists /\ ~MakePending(CapsuleOf(o), j)
    BY DEF WholeInv, StaticInv, TargetsInv
  <2> QED BY <1>2, <1>4, <2>1 DEF PlanFits
<1> QED BY <1>2, <1>3, <1>5, PlanWorks

(* Incus is idle: nothing is on its way to make the object.                  *)
LEMMA ReadableIsCertain ==
  ASSUME WholeInv, NEW c, NEW i, Readable(i)
  PROVE  ~MakePending(c, i)
<1> SUFFICES ASSUME NEW call \in pending, call.verb = "make", call.item = i PROVE FALSE
  BY DEF MakePending, Object
<1>1. call.op \in OpIds /\ (call.item \in Managed \/ call.item \in Captured(call.op))
  BY PendingKnows DEF CallFits
<1>2. call.item # Route
  BY <1>1, ItemsDiffer
<1> QED BY <1>2 DEF Readable, ProjectIdle

(* The step from which nothing of the capsule is made or given back.          *)
LEMMA FenceWorks ==
  ASSUME WholeInv, NEW o \in OpIds, DestroyFence(o)
  PROVE  StaticInv' /\ ExecsInv'
<1>0. LedgerInv /\ TypeInv
  BY Typed DEF WholeInv
<1>1. /\ exec[o].step = "fence" /\ op[o].type = "destroy" /\ op[o].status = "running"
      /\ op' = [op EXCEPT ![o].intent = TRUE]
      /\ UNCHANGED <<capsule, rows, capture, snapshot, target, worker, providerVars, history>>
  BY DEF DestroyFence, Destroying, At
<1>2. op[o].status # "absent" /\ op[o].status \in Nonterminal /\ op[o].status \notin Terminal
  BY <1>1 DEF Nonterminal, Terminal
<1>3. PICK c \in Capsules : c = CapsuleOf(o)
  BY <1>2, OwnerKnows
<1>4. Owner(c) = {o} /\ capsule[c].status = "destroying"
  BY <1>1, <1>2, <1>3, OwnerKnows, OwnedStatus
<1>5. Usable(c) = {}
  BY <1>1, <1>3 DEF WholeInv, ExecsInv, ExecFits, DestroyFits
<1>6. /\ op'[o].intent /\ op'[o].type = "destroy"
      /\ \A p \in OpIds \ {o} : op'[p] = op[p]
  BY <1>0, <1>1 DEF TypeInv, RowsTyped, OpType
<1>7. Quiet
  BY <1>0, <1>1, IntentIsQuiet
<1>8. Grows
  <2>1. LedgerMove(o)
    BY <1>1 DEF LedgerMove, Intends, SameMarks
  <2> QED BY <1>0, <1>2, <2>1, MoveGrows
<1>9. PICK g, h : g = [exec[o] EXCEPT !.step = "next"] /\ h = DestroyCaught(exec[o])
  OBVIOUS
<1>10. PICK f : Becomes(o, f) /\ f.step \in {"next", "classify"}
  <2>1. exec[o] \in ExecType
    BY <1>1, <1>0, Executes
  <2>2. g.step = "next" /\ h.step = "classify"
    BY <1>9, <2>1 DEF ExecType, DestroyCaught
  <2>3. Becomes(o, g) \/ Becomes(o, h)
    BY <1>9 DEF DestroyFence, DestroyAcks
  <2> QED BY <2>2, <2>3
<1>11. exec'[o] = f /\ \A p \in OpIds \ {o} : exec'[p] = exec[p]
  BY <1>10, Typed DEF Becomes, ProcessTyped
<1>12. Works(o)
  BY <1>1, <1>2, <1>6, <1>7, <1>8, <1>11 DEF Works, SameTimes, providerVars, HasPlan
<1>13. DemolishedInv'
  <2> SUFFICES ASSUME NEW d \in Capsules, Demolished(d)'
               PROVE  /\ capsule'[d].status \in Doomed
                      /\ \A p \in Owner(d)' : op'[p].force \/ op'[p].intent
                      /\ Usable(d)' = {}
    BY DEF DemolishedInv
  <2>0. /\ Owner(d)' = Owner(d) /\ Usable(d)' \subseteq Usable(d) /\ capsule'[d] = capsule[d]
    BY <1>12, WorksOwners
  <2>1. CASE d = c
    BY <1>4, <1>5, <1>6, <2>0, <2>1 DEF Doomed
  <2>2. CASE d # c
    <3>1. Demolished(d)
      BY <1>3, <1>6, <1>7, <2>2 DEF Demolished, Quiet, CapsuleOf
    <3>2. /\ capsule[d].status \in Doomed
          /\ \A p \in Owner(d) : op[p].force \/ op[p].intent
          /\ Usable(d) = {}
      BY <3>1 DEF WholeInv, StaticInv, DemolishedInv
    <3>3. \A p \in Owner(d) : p \in OpIds \ {o}
      BY <1>3, <2>2 DEF Owner, NonterminalOps
    <3> QED BY <1>6, <2>0, <3>2, <3>3
  <2> QED BY <2>1, <2>2
<1>14. ObjectsInv'
  <2>1. \A d, i : Rests(d, i)
    BY <1>1 DEF Rests, Holds, MakePending, DropPending, Object, providerVars
  <2> QED BY <1>1, <1>7, <1>8, <2>1, ObjectsKeep DEF Quiet
<1>15. ExecFits(o, exec[o])'
  BY <1>6, <1>10, <1>11 DEF ExecFits, DestroyFits
<1>16. TargetsInv'
  BY <1>1, <1>12, SamePlanFits, WorksTargets
<1>17. StaticInv'
  BY <1>12, <1>13, <1>14, <1>16, WorksCalls, WorksYoung, WorksSound, WorksCommitted, WorksBefore,
     WorksGone DEF StaticInv
<1>18. ExecsInv'
  BY <1>12, <1>15, OthersFit DEF ExecsInv
<1> QED BY <1>17, <1>18

(* Destroy, until it ends.                                                   *)
LEMMA DestroyWorks ==
  ASSUME WholeInv, NEW o \in OpIds, DestroyStep(o)
  PROVE  \/ StaticInv' /\ ExecsInv'
         \/ DestroyComplete(o)
         \/ op[o].status \in Nonterminal /\ DestroySettles(o) /\ DestroyFail(o)
<1>0. LedgerInv /\ TypeInv
  BY Typed DEF WholeInv
<1>1. exec[o].step # "none"
  BY <1>0, DestroyAdvances
<1>2. op[o].type = "destroy"
  BY DEF DestroyStep, DestroyThrows, DestroyClaim, DestroyPlan, DestroyRetire, DestroyRevokes,
     DestroyFence, DestroyFindsAbsent, DestroyFindsPresent, DestroyCannotRead, DestroyIntent,
     DestroyStop, DestroyDrop, DestroyDeleted, DestroySettle, DestroyComplete, DestroyFail, At
<1>3. PICK e \in ExecType : e = exec[o]
  BY <1>0, <1>1, Executes
<1>4. PICK c \in Capsules : c = CapsuleOf(o)
  BY <1>0, <1>1, Executes
<1>5. DestroyFits(o, e)
  BY <1>2, <1>3 DEF WholeInv, ExecsInv, ExecFits
<1>6. e.step \in CallSteps \cup {"intent"} => op[o].status = "running" /\ op[o].intent
  BY <1>0, <1>1, <1>2, <1>3, AtStep DEF Agrees, ArmedSteps
<1>7. UNCHANGED history => SameTimes
  BY DEF SameTimes
<1>8. DestroyCaught(e).step = "classify"
  BY DEF DestroyCaught, ExecType
(* An executor that is past the fence knows nothing it could forget.         *)
<1>9. ASSUME NEW f, f.step \notin {"plan", "retire", "revoke", "fence"}
      PROVE  /\ ExecFits(o, f)
             /\ op'[o].type = "destroy" => ExecFits(o, f)'
  BY <1>2, <1>9 DEF ExecFits, DestroyFits
<1>10. ASSUME NEW f, Becomes(o, f), UNCHANGED <<rowVars, providerVars, history>>,
              f.step \notin {"plan", "retire", "revoke", "fence"}
       PROVE  StaticInv' /\ ExecsInv'
  BY <1>1, <1>7, <1>9, <1>10, MoveWorks
<1>11. CASE DestroyThrows(o)
  <2>1. PICK f : f = DestroyCaught(e)
    OBVIOUS
  <2> QED BY <1>3, <1>8, <1>10, <1>11, <2>1 DEF DestroyThrows
<1>12. CASE DestroyClaim(o)
  <2>1. PICK g, h : g = [e EXCEPT !.step = "plan"] /\ h = DestroyCaught(e)
    OBVIOUS
  <2>2. PICK f : Becomes(o, f) /\ (f.step = "plan" \/ f.step = "classify")
    <3>1. g.step = "plan" /\ h.step = "classify"
      BY <1>8, <2>1 DEF ExecType
    <3>2. Becomes(o, g) \/ Becomes(o, h)
      BY <1>3, <1>12, <2>1 DEF DestroyClaim, DestroyAcks
    <3> QED BY <3>1, <3>2
  <2>3. op'[o].type = "destroy" /\ op'[o].status = "running" /\ OpMoves(o)
    BY <1>0, <1>2, <1>12 DEF DestroyClaim, OpMoves, ClaimRow, TypeInv, RowsTyped, OpType
  <2>4. ExecFits(o, f)'
    BY <2>2, <2>3 DEF ExecFits, DestroyFits
  <2> QED BY <1>1, <1>12, <2>2, <2>3, <2>4, OpWorks DEF DestroyClaim
<1>13. CASE DestroyPlan(o)
  <2>1. PICK g, h : g = [e EXCEPT !.step = "retire"] /\ h = DestroyCaught(e)
    OBVIOUS
  <2>2. g.step = "retire" /\ h.step = "classify" /\ (Becomes(o, g) \/ Becomes(o, h))
    BY <1>3, <1>8, <1>13, <2>1 DEF DestroyPlan, DestroyAcks, ExecType
  <2>3. op[o].status = "running" /\ ~HasPlan(o)
    BY <1>13 DEF DestroyPlan, Destroying
  <2>4. target'[o] = [i \in Targets(c) |-> "planned"] /\ \A p \in OpIds \ {o} : target'[p] = target[p]
    BY <1>0, <1>4, <1>13 DEF DestroyPlan, TypeInv, RowsTyped
  <2>5. PlanFits(o)
    BY <1>4, <2>4 DEF PlanFits
  <2>6. ExecFits(o, g)' /\ ExecFits(o, h)'
    BY <1>2, <1>13, <2>2, <2>3 DEF DestroyPlan, ExecFits, DestroyFits
  <2> QED BY <1>1, <1>2, <1>13, <2>2, <2>3, <2>4, <2>5, <2>6, PlanWorks DEF DestroyPlan, Nonterminal
<1>14. CASE DestroyRetire(o)
  <2>1. PICK g, h : g = [e EXCEPT !.step = "revoke"] /\ h = DestroyCaught(e)
    OBVIOUS
  <2>2. g.step = "revoke" /\ h.step = "classify" /\ (Becomes(o, g) \/ Becomes(o, h))
    BY <1>3, <1>8, <1>14, <2>1 DEF DestroyRetire, DestroyAcks, ExecType
  <2>3. op[o].status = "running" /\ HasPlan(o) /\ UNCHANGED target
    BY <1>14 DEF DestroyRetire, Destroying
  <2>4. \A p \in OpIds : snapshot'[p] = IF p \in Usable(c) THEN "retired" ELSE snapshot[p]
    BY <1>4, <1>14 DEF DestroyRetire, Retires
  <2>5. Usable(c)' = {}
    BY <1>14, <2>4 DEF Usable, DestroyRetire, CapsuleOf
  <2>6. ExecFits(o, g)' /\ ExecFits(o, h)'
    BY <1>2, <1>4, <1>14, <2>2, <2>3, <2>5 DEF DestroyRetire, ExecFits, DestroyFits, CapsuleOf
  <2>7. PlanFits(o)
    BY <1>2, <2>3, SamePlanFits
  <2> QED BY <1>1, <1>2, <1>4, <1>14, <2>2, <2>3, <2>4, <2>6, <2>7, PlanWorks
       DEF DestroyRetire, Nonterminal, HasPlan
<1>15. CASE DestroyRevokes(o)
  <2>1. PICK f : f = [e EXCEPT !.step = "fence"]
    OBVIOUS
  <2>2. Becomes(o, f) /\ f.step = "fence" /\ e.step = "revoke"
    BY <1>3, <1>15, <2>1 DEF DestroyRevokes, Goto, At, ExecType
  <2>3. ExecFits(o, f)
    BY <1>2, <1>5, <2>2 DEF ExecFits, DestroyFits
  <2> QED BY <1>1, <1>7, <1>15, <2>2, <2>3, MoveWorks DEF DestroyRevokes
<1>16. CASE DestroyFence(o)
  BY <1>16, FenceWorks
<1>17. ASSUME NEW i, DestroyFindsAbsent(o, i) PROVE StaticInv' /\ ExecsInv'
  <2>1. PICK f : Becomes(o, f) /\ (f = e \/ f = DestroyCaught(e))
    BY <1>3, <1>17 DEF DestroyFindsAbsent, DestroyAcks
  <2>2. e.step = "next" /\ op[o].status = "running" /\ op[o].intent
    BY <1>3, <1>6, <1>17 DEF DestroyFindsAbsent, At, CallSteps
  <2>3. op'[o].type = "destroy" /\ f.step \notin {"plan", "retire", "revoke", "fence"}
    BY <1>2, <1>8, <1>17, <2>1, <2>2 DEF DestroyFindsAbsent
  <2>4. ExecFits(o, f)'
    BY <1>9, <2>3
  <2>5. <<CapsuleOf(o), i>> \notin exists /\ ~MakePending(CapsuleOf(o), i)
    BY <1>17, ReadableIsCertain DEF DestroyFindsAbsent, Present
  <2> QED BY <1>1, <1>2, <1>17, <2>1, <2>2, <2>4, <2>5, SetTargetWorks
       DEF DestroyFindsAbsent, Nonterminal
<1>18. ASSUME NEW i, DestroyFindsPresent(o, i) PROVE StaticInv' /\ ExecsInv'
  <2>1. PICK g, h : g = [e EXCEPT !.step = "intent", !.item = i] /\ h = DestroyCaught(e)
    OBVIOUS
  <2>2. g.step = "intent" /\ h.step = "classify" /\ (Becomes(o, g) \/ Becomes(o, h))
    BY <1>3, <1>8, <1>18, <2>1 DEF DestroyFindsPresent, DestroyAcks, ExecType
  <2> QED BY <1>10, <1>18, <2>2 DEF DestroyFindsPresent
<1>19. ASSUME NEW i, DestroyCannotRead(o, i) PROVE StaticInv' /\ ExecsInv'
  <2>1. PICK f : f = DestroyCaught(e)
    OBVIOUS
  <2>2. Becomes(o, f) /\ f.step = "classify" /\ op[o].status = "running"
    BY <1>3, <1>6, <1>8, <1>19, <2>1 DEF DestroyCannotRead, At, CallSteps
  <2>3. ExecFits(o, f)'
    BY <1>2, <1>9, <1>19, <2>2 DEF DestroyCannotRead
  <2> QED BY <1>1, <1>2, <1>19, <2>2, <2>3, SetTargetWorks DEF DestroyCannotRead, Nonterminal
<1>20. CASE DestroyIntent(o)
  <2>1. PICK g, h, i : g = [e EXCEPT !.step = "delete"] /\ h = DestroyCaught(e) /\ i = e.item
    OBVIOUS
  <2>2. /\ g.step = "delete" /\ h.step = "classify" /\ (Becomes(o, g) \/ Becomes(o, h))
        /\ SetTarget(o, i, "deleting") /\ op[o].status = "running"
    BY <1>3, <1>6, <1>8, <1>20, <2>1 DEF DestroyIntent, DestroyAcks, ExecType, At
  <2>3. ExecFits(o, g)' /\ ExecFits(o, h)'
    BY <1>2, <1>9, <1>20, <2>2 DEF DestroyIntent
  <2> QED BY <1>1, <1>2, <1>20, <2>2, <2>3, SetTargetWorks DEF DestroyIntent, Nonterminal
<1>21. CASE DestroyStop(o)
  <2>1. PICK f, i : f = [e EXCEPT !.step = "await_stop"] /\ i = Instance
    OBVIOUS
  <2>2. /\ Becomes(o, f) /\ f.step = "await_stop" /\ Submit(o, "stop", i)
        /\ op[o].status = "running" /\ op[o].intent
    BY <1>3, <1>6, <1>21, <2>1 DEF DestroyStop, Goto, At, CallSteps, ExecType
  <2>3. CallFits(Call(o, "stop", i))
    BY <1>2, <2>2 DEF CallFits, Call
  <2>4. ExecFits(o, f)'
    BY <1>2, <1>9, <2>2 DEF Submit, rowVars
  <2> QED BY <1>1, <1>2, <1>4, <2>2, <2>3, <2>4, SubmitWorks DEF Nonterminal
<1>22. CASE DestroyDrop(o)
  <2>1. PICK f, i : f = [e EXCEPT !.step = "await_delete", !.reply = "none"] /\ i = e.item
    OBVIOUS
  <2>2. /\ Becomes(o, f) /\ f.step = "await_delete" /\ Submit(o, "drop", i)
        /\ op[o].status = "running" /\ op[o].intent
    BY <1>3, <1>6, <1>22, <2>1 DEF DestroyDrop, At, CallSteps, ExecType
  <2>3. CallFits(Call(o, "drop", i))
    BY <1>2, <2>2 DEF CallFits, Call
  <2>4. ExecFits(o, f)'
    BY <1>2, <1>9, <2>2 DEF Submit, rowVars
  <2> QED BY <1>1, <1>2, <1>4, <2>2, <2>3, <2>4, SubmitWorks DEF Nonterminal
<1>23. CASE DestroyDeleted(o)
  <2>1. PICK f : f = [e EXCEPT !.step = "after", !.reply = "none"]
    OBVIOUS
  <2>2. Becomes(o, f) /\ f.step = "after"
    BY <1>3, <1>23, <2>1 DEF DestroyDeleted, ExecType
  <2> QED BY <1>10, <1>23, <2>2 DEF DestroyDeleted
<1>24. CASE DestroySettle(o)
  <2>1. PICK g, h, i : g = [e EXCEPT !.step = "next", !.item = NoItem] /\ h = DestroyCaught(e) /\ i = e.item
    OBVIOUS
  <2>2. /\ g.step = "next" /\ h.step = "classify" /\ (Becomes(o, g) \/ Becomes(o, h))
        /\ op[o].status = "running" /\ op[o].intent /\ Readable(i)
        /\ \/ SetTarget(o, i, "unresolved")
           \/ SetTarget(o, i, "deleted") /\ ~Present(o, i)
    BY <1>3, <1>6, <1>8, <1>24, <2>1 DEF DestroySettle, DestroyAcks, ExecType, At, CallSteps
  <2>3. ExecFits(o, g)' /\ ExecFits(o, h)'
    BY <1>2, <1>9, <1>24, <2>2 DEF DestroySettle
  <2>4. ~Present(o, i) => <<CapsuleOf(o), i>> \notin exists /\ ~MakePending(CapsuleOf(o), i)
    BY <2>2, ReadableIsCertain DEF Present
  <2>5. UNCHANGED <<op, capsule, rows, capture, snapshot, providerVars, history>>
    BY <1>24 DEF DestroySettle
  <2>6. CASE SetTarget(o, i, "unresolved")
    BY <1>1, <1>2, <2>2, <2>3, <2>5, <2>6, SetTargetWorks DEF Nonterminal
  <2>7. CASE SetTarget(o, i, "deleted") /\ ~Present(o, i)
    BY <1>1, <1>2, <2>2, <2>3, <2>4, <2>5, <2>7, SetTargetWorks DEF Nonterminal
  <2> QED BY <2>2, <2>6, <2>7
<1>25. CASE DestroyFail(o) /\ UNCHANGED <<rowVars, providerVars, history>>
  <2>1. PICK f : f = Idle
    OBVIOUS
  <2>2. Becomes(o, f) /\ f.step = "none"
    BY <1>25, <2>1 DEF DestroyFail, Idle
  <2> QED BY <1>10, <1>25, <2>2
<1> QED
  BY <1>11, <1>12, <1>13, <1>14, <1>15, <1>16, <1>17, <1>18, <1>19, <1>20, <1>21, <1>22, <1>23,
     <1>24, <1>25 DEF DestroyStep, DestroyFail

-----------------------------------------------------------------------------
(* The step that ends an operation and lays its capsule to rest.             *)
EndsAs(o, status, k) ==
  /\ op[o].status \in Nonterminal /\ status \in Terminal /\ SetStatus(o, status)
  /\ capsule' = [capsule EXCEPT ![CapsuleOf(o)] = k]
  /\ UNCHANGED <<rows, capture, providerVars, history>>
  /\ \A p \in OpIds \ {o} :
       snapshot'[p] = snapshot[p] /\ target'[p] = target[p] /\ exec'[p] = exec[p]
Gone(c) == Leftovers(c) = {}

LEMMA EndMoves ==
  ASSUME WholeInv, NEW o \in OpIds, NEW status, NEW k, EndsAs(o, status, k), NEW c, CapsuleOf(o) = c
  PROVE  /\ c \in Capsules /\ Owner(c) = {o} /\ op[o].status \notin Terminal
         /\ op'[o].status = status /\ op'[o].type = op[o].type /\ op'[o].capsule = c
         /\ op'[o].intent = op[o].intent /\ op'[o].force = op[o].force
         /\ \A p \in OpIds \ {o} : op'[p] = op[p]
         /\ Grows /\ SameTimes
         /\ capsule'[c] = k /\ \A d \in Capsules \ {c} : capsule'[d] = capsule[d]
         /\ Owner(c)' = {} /\ \A d \in Capsules \ {c} : Owner(d)' = Owner(d)
         /\ \A d, i : Rests(d, i)
         /\ \A d \in Capsules : Demolished(d)' <=> Demolished(d)
<1>0. TypeInv /\ op \in [OpIds -> OpType] /\ op[o] \in OpType /\ capsule \in [Capsules -> CapsuleType]
  BY Typed DEF RowsTyped
<1>1. op[o].status \in Nonterminal /\ status \in Terminal /\ op' = [op EXCEPT ![o].status = status]
  BY DEF EndsAs, SetStatus
<1>2. c \in Capsules /\ Owner(c) = {o} /\ op[o].status \notin Terminal /\ op[o].status # "absent"
  BY <1>1, OwnerKnows, StatusesDiffer
<1>3. /\ op'[o].status = status /\ op'[o].type = op[o].type /\ op'[o].capsule = c
      /\ op'[o].intent = op[o].intent /\ op'[o].force = op[o].force
      /\ \A p \in OpIds \ {o} : op'[p] = op[p]
  BY <1>0, <1>1 DEF OpType, CapsuleOf
<1>4. Grows
  BY <1>1, <1>2, <1>3, StatusesDiffer DEF Grows, CapsuleOf
<1>5. capsule'[c] = k /\ \A d \in Capsules \ {c} : capsule'[d] = capsule[d]
  BY <1>0, <1>2 DEF EndsAs
<1>6. status \notin Nonterminal
  BY <1>1, StatusesDiffer
<1>7. Owner(c)' = {} /\ \A d \in Capsules \ {c} : Owner(d)' = Owner(d)
  <2>1. \A p \in OpIds : op'[p].capsule = op[p].capsule
    BY <1>3 DEF CapsuleOf
  <2>2. \A p \in OpIds \ {o} : p \in Owner(c) => FALSE
    BY <1>2
  <2> QED BY <1>3, <1>6, <2>1, <2>2 DEF Owner, NonterminalOps, CapsuleOf
<1>8. \A d, i : Rests(d, i)
  BY DEF EndsAs, Rests, Holds, MakePending, DropPending, Object, providerVars
<1>9. \A d \in Capsules : Demolished(d)' <=> Demolished(d)
  BY <1>3 DEF Demolished, CapsuleOf
<1>10. SameTimes
  BY DEF EndsAs, SameTimes
<1> QED BY <1>2, <1>3, <1>4, <1>5, <1>7, <1>8, <1>9, <1>10

(* What the end of an operation must leave behind it.                        *)
LEMMA EndWorks ==
  ASSUME WholeInv, NEW o \in OpIds, NEW status, NEW k, EndsAs(o, status, k),
         NEW c, CapsuleOf(o) = c,
         k.status \in {"active", "creation_failed", "destroyed", "cleanup_required"},
         Demolished(c) => k.status \in Doomed,
         k.status = "active" => Made(c) /\ Settled(c)',
         k.status \in {"creation_failed", "destroyed"} => Gone(c),
         op[o].type = "destroy" =>
           \A i \in DOMAIN target'[o] : target'[o][i] \in {"absent", "deleted"} =>
             i \in DOMAIN target[o] /\ target[o][i] = target'[o][i],
         \/ snapshot'[o] = snapshot[o]
         \/ /\ op[o].type = "snapshot_create" /\ status = "completed" /\ AllCaptures(o, {"created"})
            /\ o \in history.dirty => history.drifts >= 2,
         ExecFits(o, exec[o])'
  PROVE  StaticInv' /\ ExecsInv'
<1>0. op[o].status \in Nonterminal /\ status \in Terminal
  BY DEF EndsAs
<1>1. /\ c \in Capsules /\ Owner(c) = {o} /\ op[o].status \in Nonterminal /\ op[o].status \notin Terminal
      /\ status \in Terminal
      /\ op'[o].status = status /\ op'[o].type = op[o].type /\ op'[o].capsule = c
      /\ op'[o].intent = op[o].intent /\ op'[o].force = op[o].force
      /\ \A p \in OpIds \ {o} : op'[p] = op[p]
      /\ Grows /\ SameTimes
      /\ capsule'[c] = k /\ \A d \in Capsules \ {c} : capsule'[d] = capsule[d]
      /\ Owner(c)' = {} /\ \A d \in Capsules \ {c} : Owner(d)' = Owner(d)
      /\ \A d, i : Rests(d, i)
      /\ \A d \in Capsules : Demolished(d)' <=> Demolished(d)
  BY <1>0, EndMoves
<1>2. /\ UNCHANGED <<rows, capture, exists, pending, running, history>>
      /\ \A p \in OpIds \ {o} : snapshot'[p] = snapshot[p] /\ target'[p] = target[p] /\ exec'[p] = exec[p]
  BY DEF EndsAs, providerVars
<1>3. \A p \in OpIds : op'[p].type = op[p].type /\ op'[p].capsule = op[p].capsule
                       /\ op'[p].intent = op[p].intent /\ op'[p].force = op[p].force
  BY <1>1 DEF CapsuleOf
<1>4. \A d \in Capsules \ {c} : Usable(d)' = Usable(d) /\ \A p \in Owner(d) : p \in OpIds \ {o}
  <2>1. \A d \in Capsules \ {c}, p \in OpIds : CapsuleOf(p) = d => p # o
    OBVIOUS
  <2>2. \A d \in Capsules \ {c} : Usable(d)' = Usable(d)
    BY <1>1, <1>2, <1>3, <2>1 DEF Usable, CapsuleOf
  <2> QED BY <2>1, <2>2 DEF Owner, NonterminalOps
<1>5. op[o].type # "snapshot_create" => Usable(c)' = Usable(c)
  BY <1>2, <1>3 DEF Usable, CapsuleOf
<1>6. FreshInv' /\ DirtyInv'
  <2>1. FreshInv'
    BY <1>1, <1>2, StatusesDiffer DEF WholeInv, StaticInv, FreshInv
  <2>2. history.dirty \subseteq OpIds
    BY Typed DEF HistoryType
  <2> QED BY <1>2, <1>3, <2>1, <2>2 DEF WholeInv, StaticInv, DirtyInv
<1>7. CallsInv' /\ ThingsInv'
  BY <1>1, <1>2, CallsKeep, ThingsKeep
<1>8. ObjectsInv'
  BY <1>1, <1>2, <1>3, ObjectsKeep
<1>9. YoungInv'
  BY <1>1, <1>2, <1>3 DEF WholeInv, StaticInv, YoungInv, CapsuleOf
<1>10. DemolishedInv'
  <2> SUFFICES ASSUME NEW d \in Capsules, Demolished(d)
               PROVE  /\ capsule'[d].status \in Doomed
                      /\ \A p \in Owner(d)' : op'[p].force \/ op'[p].intent
                      /\ Usable(d)' = {}
    BY <1>1 DEF DemolishedInv
  <2>1. /\ capsule[d].status \in Doomed /\ (\A p \in Owner(d) : op[p].force \/ op[p].intent)
        /\ Usable(d) = {}
    BY DEF WholeInv, StaticInv, DemolishedInv
  <2>2. CASE d = c
    <3>1. op[o].type # "snapshot_create"
      BY <1>1, <2>2, DemolishedOwner
    <3> QED BY <1>1, <1>5, <2>1, <2>2, <3>1
  <2>3. CASE d # c
    BY <1>1, <1>4, <2>1, <2>3
  <2> QED BY <2>2, <2>3
<1>11. SoundInv'
  <2> SUFFICES ASSUME NEW d \in Capsules, Sound(d)' PROVE Made(d)' /\ Settled(d)'
    BY DEF SoundInv
  <2>1. CASE d = c
    <3>1. k.status = "active"
      BY <1>1, <2>1 DEF Sound
    <3> QED BY <1>2, <2>1, <3>1 DEF Made
  <2>2. CASE d # c
    <3>1. Sound(d)
      BY <1>1, <1>4, <2>2 DEF Sound
    <3>2. Made(d) /\ Settled(d)
      BY <3>1 DEF WholeInv, StaticInv, SoundInv
    <3>3. \A p \in OpIds : op'[p].capsule = d => op'[p] = op[p]
      BY <1>1, <2>2
    <3> QED BY <1>2, <3>2, <3>3 DEF Made, Settled, CapsuleOf
  <2> QED BY <2>1, <2>2
<1>12. CommittedInv'
  <2> SUFFICES ASSUME NEW p \in OpIds, snapshot'[p] # "none"
               PROVE  /\ op'[p].type = "snapshot_create" /\ op'[p].status = "completed"
                      /\ AllCaptures(p, {"created"})'
                      /\ p \in history.dirty => history.drifts >= 2
    BY <1>2 DEF CommittedInv
  <2>1. CASE snapshot[p] # "none"
    <3>1. /\ op[p].type = "snapshot_create" /\ op[p].status = "completed"
          /\ AllCaptures(p, {"created"})
          /\ p \in history.dirty => history.drifts >= 2
      BY <2>1 DEF WholeInv, StaticInv, CommittedInv
    <3>2. p # o
      BY <1>1, <3>1 DEF Terminal
    <3> QED BY <1>1, <1>2, <3>1, <3>2 DEF AllCaptures
  <2>2. CASE snapshot[p] = "none"
    <3>1. p = o
      BY <1>2, <2>2
    <3> QED BY <1>1, <1>2, <2>2, <3>1 DEF AllCaptures
  <2> QED BY <2>1, <2>2
<1>13. TargetsInv'
  <2> SUFFICES ASSUME NEW d \in OpIds, op[d].type = "destroy"
               PROVE  /\ HasPlan(d)' /\ op'[d].status \in Nonterminal =>
                           Targets(CapsuleOf(d))' \subseteq DOMAIN target'[d]
                      /\ \A i \in DOMAIN target'[d] : target'[d][i] \in {"absent", "deleted"} =>
                           /\ op'[d].intent
                           /\ <<CapsuleOf(d), i>> \notin exists
                           /\ ~MakePending(CapsuleOf(d), i)'
    BY <1>2, <1>3 DEF TargetsInv, CapsuleOf
  <2>1. /\ HasPlan(d) /\ op[d].status \in Nonterminal => Targets(CapsuleOf(d)) \subseteq DOMAIN target[d]
        /\ \A i \in DOMAIN target[d] : target[d][i] \in {"absent", "deleted"} =>
             /\ op[d].intent /\ <<CapsuleOf(d), i>> \notin exists /\ ~MakePending(CapsuleOf(d), i)
    BY DEF WholeInv, StaticInv, TargetsInv
  <2>2. Targets(CapsuleOf(d))' = Targets(CapsuleOf(d))
    <3>1. \A i \in UNION {Captured(p) : p \in OpIds} : i.op \in OpIds
      BY ItemsDiffer
    <3> QED BY <1>2, <1>3, <3>1 DEF Targets, CapsuleOf
  <2>3. \A i : MakePending(CapsuleOf(d), i)' <=> MakePending(CapsuleOf(d), i)
    BY <1>2, <1>3 DEF MakePending, Object, CapsuleOf
  <2>4. CASE d = o
    BY <1>1, <2>1, <2>3, <2>4, StatusesDiffer
  <2>5. CASE d # o
    BY <1>1, <1>2, <2>1, <2>2, <2>3, <2>5 DEF HasPlan
  <2> QED BY <2>4, <2>5
<1>14. BeforeInv'
  <2> SUFFICES ASSUME NEW d \in Capsules, NEW p \in Owner(d)',
                      op'[p].type # "create" /\ ~(op'[p].type = "destroy" /\ op'[p].force)
               PROVE  /\ history.before[d].capsule = Prior(p)'
                      /\ ~(op'[p].type = "destroy" /\ op'[p].intent) =>
                           history.before[d].objects
                             = {x \in exists : x[1] = d /\ x[2] # Route /\ x[2] \notin Captured(p)}
                      /\ ~(op'[p].type = "destroy" /\ HasPlan(p)') =>
                           history.before[d].usable = Usable(d)'
    BY <1>2 DEF BeforeInv
  <2>1. d \in Capsules \ {c}
    BY <1>1
  <2>2. p \in Owner(d) /\ p \in OpIds \ {o}
    BY <1>1, <1>4, <2>1
  <2>3. op'[p] = op[p] /\ target'[p] = target[p] /\ Usable(d)' = Usable(d)
    BY <1>1, <1>2, <1>4, <2>1, <2>2
  <2>4. /\ history.before[d].capsule = Prior(p)
        /\ ~(op[p].type = "destroy" /\ op[p].intent) =>
             history.before[d].objects
               = {x \in exists : x[1] = d /\ x[2] # Route /\ x[2] \notin Captured(p)}
        /\ ~(op[p].type = "destroy" /\ HasPlan(p)) => history.before[d].usable = Usable(d)
    BY <2>2, <2>3 DEF WholeInv, StaticInv, BeforeInv
  <2> QED BY <2>3, <2>4 DEF Prior, HasPlan
<1>15. GoneLeavesNothing'
  <2>1. \A d : Leftovers(d)' = Leftovers(d)
    BY <1>2 DEF Leftovers, Object
  <2> QED BY <1>1, <2>1 DEF WholeInv, StaticInv, GoneLeavesNothing, Gone
<1>16. ExecsInv'
  <2> SUFFICES ASSUME NEW p \in OpIds \ {o} PROVE ExecFits(p, exec[p])'
    BY DEF ExecsInv
  <2>1. ExecFits(p, exec[p]) /\ op'[p] = op[p] /\ exec'[p] = exec[p]
    BY <1>1, <1>2 DEF WholeInv, ExecsInv
  <2>2. CASE op[p].type = "destroy" /\ op[p].status # "running"
    BY <2>1, <2>2 DEF ExecFits, DestroyFits
  <2>3. CASE op[p].type # "destroy" \/ op[p].status = "running"
    <3>1. PICK d : d = CapsuleOf(p)
      OBVIOUS
    <3>2. op[p].type = "destroy" /\ Usable(d) = {} => Usable(d)' = {}
      <4> SUFFICES ASSUME op[p].type = "destroy" PROVE Usable(d)' = Usable(d)
        OBVIOUS
      <4>1. op[p].status \in Nonterminal
        BY <2>3 DEF Nonterminal
      <4>2. d \in Capsules /\ p \in Owner(d)
        BY <3>1, <4>1, OwnerKnows
      <4>3. d # c
        BY <1>1, <4>2
      <4> QED BY <1>4, <4>2, <4>3
    <3>3. \A i : Holds(d, i)
      BY <1>1 DEF Rests
    <3> QED BY <1>1, <1>2, <2>1, <3>1, <3>2, <3>3, ExecRests DEF SameTimes
  <2> QED BY <2>2, <2>3
<1> QED
  BY <1>6, <1>7, <1>8, <1>9, <1>10, <1>11, <1>12, <1>13, <1>14, <1>15, <1>16 DEF StaticInv

-----------------------------------------------------------------------------
(* How each operation ends.                                                  *)
SettlesAs(o, status, k) ==
  /\ op[o].status \in Nonterminal /\ status \in Terminal /\ SetStatus(o, status)
  /\ capsule' = [capsule EXCEPT ![CapsuleOf(o)] = k]
  /\ UNCHANGED <<rows, capture, snapshot, target, providerVars, history>>
LEMMA SettlesEnds ==
  ASSUME NEW o \in OpIds, NEW status, NEW k, SettlesAs(o, status, k),
         \A p \in OpIds \ {o} : exec'[p] = exec[p]
  PROVE  EndsAs(o, status, k)
  BY DEF SettlesAs, EndsAs

LEMMA OthersRun ==
  ASSUME WholeInv, NEW o \in OpIds, NEW e, Becomes(o, e)
  PROVE  exec'[o] = e /\ \A p \in OpIds \ {o} : exec'[p] = exec[p]
  BY Typed DEF Becomes, ProcessTyped

(* The captures of the other operations are as settled as they were.          *)
LEMMA SettledStays ==
  ASSUME WholeInv, NEW o \in OpIds, NEW status, NEW k, EndsAs(o, status, k), NEW c, CapsuleOf(o) = c,
         Sound(c),
         op[o].type = "snapshot_create" => AllCaptures(o, {"planned", "created", "deleted", "missing"})
  PROVE  Made(c) /\ Settled(c)'
<1>1. /\ c \in Capsules /\ op'[o].type = op[o].type
      /\ \A p \in OpIds \ {o} : op'[p] = op[p]
  BY EndMoves
<1>2. Made(c) /\ Settled(c)
  BY <1>1 DEF WholeInv, StaticInv, SoundInv
<1>3. UNCHANGED capture
  BY DEF EndsAs
<1> QED BY <1>1, <1>2, <1>3 DEF Settled, CapsuleOf, AllCaptures

(* What is there of a capsule, or on its way.                                 *)
LEMMA GoneIfNothing ==
  ASSUME WholeInv, NEW c \in Capsules,
         <<c, Route>> \notin exists,
         \A i \in Managed : <<c, i>> \notin exists /\ ~MakePending(c, i),
         \A p \in OpIds : op[p].type = "snapshot_create" /\ CapsuleOf(p) = c =>
           \A i \in Captured(p) : <<c, i>> \notin exists /\ ~MakePending(c, i)
  PROVE  Gone(c)
<1>1. ASSUME NEW x \in exists, x[1] = c PROVE FALSE
  <2>1. x = <<c, x[2]>>
    BY <1>1, Typed DEF ProviderTyped
  <2>2. ThingFits(c, x[2])
    BY <1>1 DEF WholeInv, StaticInv, ThingsInv
  <2> QED BY <2>1, <2>2 DEF ThingFits
<1>2. ASSUME NEW call \in pending, call.verb = "make", call.capsule = c PROVE FALSE
  <2>1. MakePending(c, call.item)
    BY <1>2 DEF MakePending, Object
  <2>2. call.op \in OpIds /\ CapsuleOf(call.op) = c
    BY <1>2, PendingKnows
  <2> QED BY <1>2, <2>1, <2>2, MakingKnows
<1> QED BY <1>1, <1>2 DEF Gone, Leftovers

-----------------------------------------------------------------------------
LEMMA CreateEndFits ==
  ASSUME NEW o \in OpIds, op'[o].type = "create", exec'[o].reply = "none", exec'[o].step \in FreeSteps
  PROVE  ExecFits(o, exec[o])'
  BY DEF ExecFits, CreateFits, Waits, Working, FreeSteps

LEMMA CreateOwns ==
  ASSUME WholeInv, NEW o \in OpIds, op[o].type = "create", op[o].status \in Nonterminal,
         NEW c, CapsuleOf(o) = c
  PROVE  /\ c \in Capsules /\ capsule[c].status = "provisioning" /\ ~Demolished(c)
         /\ <<c, Route>> \notin exists
         /\ \A p \in OpIds : CapsuleOf(p) = c => op[p].type = "create"
<1>1. c \in Capsules /\ capsule[c].status = "provisioning"
  BY OwnerKnows, OwnedStatus
<1> QED BY <1>1, NobodySoundIsYoung DEF WholeInv, StaticInv, YoungInv

LEMMA CreateCompletes ==
  ASSUME WholeInv, NEW o \in OpIds, CreateComplete(o)
  PROVE  StaticInv' /\ ExecsInv'
<1>1. PICK k : k = [status |-> "active", archived |-> FALSE, branch |-> "offline"]
  OBVIOUS
<1>2. /\ exec[o].step = "complete" /\ op[o].type = "create" /\ op[o].status = "running"
      /\ SetStatus(o, "completed") /\ Finished(o)
      /\ capsule' = [capsule EXCEPT ![CapsuleOf(o)] = k]
      /\ Acknowledged(o, Idle)
      /\ UNCHANGED <<rows, capture, snapshot, target, worker, providerVars, history>>
  BY <1>1 DEF CreateComplete, At, Fenced
<1>3. PICK f : Becomes(o, f) /\ f.reply = "none" /\ f.step \in FreeSteps
  <2>1. exec[o] \in ExecType
    BY <1>2, Executes, Typed
  <2>2. Idle.reply = "none" /\ Idle.step \in FreeSteps
    BY DEF Idle, FreeSteps
  <2> QED BY <1>2, <2>1, <2>2, CreateCaughtFree DEF Acknowledged
<1>4. EndsAs(o, "completed", k)
  BY <1>2, <1>3, OthersRun, SettlesEnds DEF SettlesAs, Nonterminal, Terminal
<1>5. PICK c \in Capsules : CapsuleOf(o) = c
  BY <1>2, OwnerKnows DEF Nonterminal
<1>6. /\ ~Demolished(c) /\ \A p \in OpIds : CapsuleOf(p) = c => op[p].type = "create"
  BY <1>2, <1>5, CreateOwns DEF Nonterminal
<1>7. Made(c)
  BY <1>2, <1>5, ItemsDiffer, ItemsContain DEF Finished, Row, Made
<1>8. op'[o].type = "create" /\ \A p \in OpIds : op'[p].type = op[p].type /\ op'[p].capsule = op[p].capsule
  <2>1. op'[o].type = op[o].type /\ op'[o].capsule = c /\ \A p \in OpIds \ {o} : op'[p] = op[p]
    BY <1>4, <1>5, EndMoves
  <2> QED BY <1>2, <1>5, <2>1 DEF CapsuleOf
<1>9. Settled(c)'
  BY <1>6, <1>8 DEF Settled, CapsuleOf
<1>10. ExecFits(o, exec[o])'
  BY <1>3, <1>8, OthersRun, CreateEndFits
<1>11. k.status = "active" /\ snapshot'[o] = snapshot[o]
  BY <1>1, <1>2
<1> QED BY <1>2, <1>4, <1>5, <1>6, <1>7, <1>9, <1>10, <1>11, EndWorks

LEMMA CreateSettles ==
  ASSUME WholeInv, NEW o \in OpIds, op[o].type = "create", op[o].status \in Nonterminal,
         NEW safe \in BOOLEAN, Settles(o, safe),
         safe => \A i \in Managed : Row(o, i) \in {"none", "planned", "deleted", "missing"},
         \A p \in OpIds \ {o} : exec'[p] = exec[p],
         exec'[o].reply = "none", exec'[o].step \in FreeSteps
  PROVE  StaticInv' /\ ExecsInv'
<1>1. PICK k, status : /\ k = [status |-> IF safe THEN "creation_failed" ELSE "cleanup_required",
                               archived |-> FALSE,
                               branch |-> IF safe THEN "destroyed" ELSE "cleanup_required"]
                       /\ status = IF safe THEN "failed" ELSE "cleanup_required"
  OBVIOUS
<1>2. EndsAs(o, status, k)
  BY <1>1 DEF Settles, EndsAs, Terminal
<1>3. PICK c \in Capsules : CapsuleOf(o) = c
  BY OwnerKnows
<1>4. /\ ~Demolished(c) /\ <<c, Route>> \notin exists
      /\ \A p \in OpIds : CapsuleOf(p) = c => op[p].type = "create"
  BY <1>3, CreateOwns
<1>5. op'[o].type = "create"
  BY <1>2, EndMoves
<1>6. ExecFits(o, exec[o])'
  BY <1>5, CreateEndFits
<1>7. ASSUME safe PROVE Gone(c)
  <2>1. \A i \in Managed : <<c, i>> \notin exists /\ ~MakePending(c, i)
    <3> TAKE i \in Managed
    <3>1. rows[c][i] \in {"none", "planned", "deleted", "missing"}
      BY <1>3, <1>7 DEF Row
    <3> QED BY <3>1, RowFits DEF ObjectFits
  <2> QED BY <1>4, <2>1, GoneIfNothing
<1>8. /\ k.status \in {"creation_failed", "cleanup_required"} /\ snapshot'[o] = snapshot[o]
      /\ k.status = "creation_failed" => safe
  BY <1>1 DEF Settles
<1> QED BY <1>2, <1>3, <1>4, <1>6, <1>7, <1>8, EndWorks

LEMMA CreateEndsWell ==
  ASSUME WholeInv, NEW o \in OpIds, CreateStep(o)
  PROVE  StaticInv' /\ ExecsInv'
<1>1. CASE CreateComplete(o)
  BY <1>1, CreateCompletes
<1>2. CASE op[o].status \in Nonterminal /\ Settles(o, CreateIsSafe(o)) /\ CreateFail(o)
  <2>1. op[o].type = "create" /\ Becomes(o, Idle)
    BY <1>2 DEF CreateFail, At
  <2>2. CreateIsSafe(o) \in BOOLEAN
    BY DEF CreateIsSafe, CompensationProven
  <2>3. CreateIsSafe(o) => \A i \in Managed : Row(o, i) \in {"none", "planned", "deleted", "missing"}
    <3> SUFFICES ASSUME CreateIsSafe(o), NEW i \in Managed
                 PROVE  Row(o, i) \in {"none", "planned", "deleted", "missing"}
      OBVIOUS
    <3>1. i \in Inventory /\ i \notin {Project, BindMount}
      BY ItemsContain, ItemsDiffer
    <3>2. CASE op[o].intent
      <4>1. Compensable(o, i)
        BY <3>1, <3>2 DEF CreateIsSafe, CompensationProven
      <4> QED BY <3>1, <4>1 DEF Compensable
    <3>3. CASE ~op[o].intent
      BY <3>1, <3>3 DEF CreateIsSafe, Consistent, Untouched, Absent, Row
    <3> QED BY <3>2, <3>3
  <2>4. exec'[o].reply = "none" /\ exec'[o].step \in FreeSteps /\ \A p \in OpIds \ {o} : exec'[p] = exec[p]
    BY <2>1, OthersRun DEF Idle, FreeSteps
  <2> QED BY <1>2, <2>1, <2>2, <2>3, <2>4, CreateSettles
<1> QED BY <1>1, <1>2, CreateWorks

LEMMA AbandonedCreateWorks ==
  ASSUME WholeInv, NEW o \in OpIds, AbandonedCreate(o)
  PROVE  StaticInv' /\ ExecsInv'
<1>1. /\ op[o].type = "create" /\ op[o].status \in Nonterminal /\ UNCHANGED exec
      /\ worker.phase = "classifying" /\ Settles(o, AbandonedIsSafe(o))
  BY DEF AbandonedCreate, Listed
<1>2. exec[o].step = "none"
  BY <1>1 DEF WholeInv, LedgerInv, OnlyServingExecutes
<1>3. exec[o].reply = "none"
  BY <1>1, <1>2 DEF WholeInv, ExecsInv, ExecFits, CreateFits, Waits
<1>4. AbandonedIsSafe(o) \in BOOLEAN
  BY DEF AbandonedIsSafe, Consistent
<1>5. AbandonedIsSafe(o) => \A i \in Managed : Row(o, i) \in {"none", "planned", "deleted", "missing"}
  BY ItemsContain DEF AbandonedIsSafe, Consistent, Untouched, Absent, Row
<1>6. exec'[o].step \in FreeSteps /\ exec'[o].reply = "none" /\ \A p \in OpIds \ {o} : exec'[p] = exec[p]
  BY <1>1, <1>2, <1>3 DEF FreeSteps
<1> QED BY <1>1, <1>4, <1>5, <1>6, CreateSettles

-----------------------------------------------------------------------------
LEMMA SnapshotOwns ==
  ASSUME WholeInv, NEW o \in OpIds, op[o].type = "snapshot_create", op[o].status \in Nonterminal,
         NEW c, CapsuleOf(o) = c
  PROVE  c \in Capsules /\ capsule[c].status = "active" /\ ~Demolished(c) /\ Sound(c)
         /\ capsule[c] \in CapsuleType
<1>1. c \in Capsules /\ capsule[c].status = "active"
  BY OwnerKnows, OwnedStatus
<1>2. ~Demolished(c)
  BY DemolishedOwner
<1> QED BY <1>1, <1>2, Typed DEF Sound, RowsTyped

LEMMA SnapshotCommits ==
  ASSUME WholeInv, NEW o \in OpIds, SnapshotCommit(o)
  PROVE  StaticInv' /\ ExecsInv'
<1>1. PICK c : CapsuleOf(o) = c
  OBVIOUS
<1>2. PICK e, k : e = exec[o] /\ k = [capsule[c] EXCEPT !.branch = "offline"]
  OBVIOUS
<1>3. /\ e.step = "commit" /\ op[o].type = "snapshot_create" /\ op[o].status = "running"
      /\ SetStatus(o, "completed") /\ AllCaptures(o, {"created"})
      /\ capsule' = [capsule EXCEPT ![CapsuleOf(o)] = k]
      /\ snapshot' = [snapshot EXCEPT ![o] = "committed"]
      /\ SnapshotAcks(o, Idle)
      /\ UNCHANGED <<rows, capture, target, worker, providerVars, history>>
  BY <1>1, <1>2 DEF SnapshotCommit, At, Running
<1>4. e \in ExecType
  BY <1>2, <1>3, Executes, Typed
<1>5. PICK f : Becomes(o, f) /\ Loose(o, f)
  BY <1>2, <1>3, <1>4, CaughtIsLoose DEF SnapshotAcks
<1>6. EndsAs(o, "completed", k)
  BY <1>3, <1>5, OthersRun DEF EndsAs, Nonterminal, Terminal
<1>7. op[o].status \in Nonterminal
  BY <1>3 DEF Nonterminal
<1>8. c \in Capsules /\ capsule[c].status = "active" /\ ~Demolished(c) /\ Sound(c)
      /\ capsule[c] \in CapsuleType
  BY <1>1, <1>3, <1>7, SnapshotOwns
<1>9. k.status = "active"
  BY <1>2, <1>8 DEF CapsuleType
<1>10. AllCaptures(o, {"planned", "created", "deleted", "missing"})
  BY <1>3 DEF AllCaptures
<1>11. Made(c) /\ Settled(c)'
  BY <1>1, <1>6, <1>8, <1>10, SettledStays
<1>12. op'[o].type = "snapshot_create"
  BY <1>3, <1>6, EndMoves
<1>13. ExecFits(o, exec[o])'
  <2>1. ExecFits(o, f)'
    BY <1>5, <1>12, LooseFits
  <2>2. exec'[o] = f
    BY <1>5, OthersRun
  <2> QED BY <2>1, <2>2
<1>14. o \in history.dirty => history.drifts >= 2
  BY <1>2, <1>3 DEF WholeInv, ExecsInv, ExecFits, SnapshotFits, DirtyFits
<1> QED BY <1>1, <1>3, <1>6, <1>8, <1>9, <1>11, <1>13, <1>14, EndWorks

LEMMA SnapshotEnding ==
  ASSUME WholeInv, NEW o \in OpIds, op[o].type = "snapshot_create", op[o].status \in Nonterminal,
         NEW safe \in BOOLEAN, SnapshotSettles(o, safe),
         safe => AllCaptures(o, {"planned", "deleted", "missing"}),
         \A p \in OpIds \ {o} : exec'[p] = exec[p], Loose(o, exec'[o])
  PROVE  StaticInv' /\ ExecsInv'
<1>1. PICK c : CapsuleOf(o) = c
  OBVIOUS
<1>2. PICK k, status :
        /\ k = IF safe THEN [capsule[c] EXCEPT !.branch = "offline"]
               ELSE [capsule[c] EXCEPT
                       !.status = IF capsule[c].status = "destroyed" THEN "destroyed" ELSE "cleanup_required",
                       !.branch = IF capsule[c].branch = "snapshotting" THEN "cleanup_required"
                                  ELSE capsule[c].branch]
        /\ status = IF safe THEN "failed" ELSE "cleanup_required"
  OBVIOUS
<1>3. capsule' = [capsule EXCEPT ![CapsuleOf(o)] = k]
  BY <1>1, <1>2 DEF SnapshotSettles
<1>4. EndsAs(o, status, k)
  BY <1>2, <1>3 DEF SnapshotSettles, EndsAs, Terminal
<1>5. c \in Capsules /\ capsule[c].status = "active" /\ ~Demolished(c) /\ Sound(c)
      /\ capsule[c] \in CapsuleType
  BY <1>1, SnapshotOwns
<1>6. /\ safe => k.status = "active"
      /\ ~safe => k.status = "cleanup_required"
  BY <1>2, <1>5 DEF CapsuleType
<1>7. ASSUME safe PROVE Made(c) /\ Settled(c)'
  <2>1. AllCaptures(o, {"planned", "created", "deleted", "missing"})
    BY <1>7 DEF AllCaptures
  <2> QED BY <1>1, <1>4, <1>5, <2>1, SettledStays
<1>8. op'[o].type = "snapshot_create" /\ snapshot'[o] = snapshot[o]
  BY <1>4, EndMoves DEF SnapshotSettles
<1>9. ExecFits(o, exec[o])'
  <2>1. PICK f : f = exec'[o]
    OBVIOUS
  <2>2. ExecFits(o, f)'
    BY <1>8, <2>1, LooseFits
  <2> QED BY <2>1, <2>2
<1> QED BY <1>1, <1>4, <1>5, <1>6, <1>7, <1>8, <1>9, EndWorks

LEMMA SafeIsUndone ==
  ASSUME NEW o \in OpIds
  PROVE  /\ Pristine(o) => AllCaptures(o, {"planned", "deleted", "missing"})
         /\ SnapshotIsSafe(o) => AllCaptures(o, {"planned", "deleted", "missing"})
         /\ Pristine(o) \in BOOLEAN /\ SnapshotIsSafe(o) \in BOOLEAN
  BY DEF Pristine, SnapshotIsSafe, Undone, Proven, AllCaptures

LEMMA SnapshotEndsWell ==
  ASSUME WholeInv, NEW o \in OpIds, SnapshotStep(o)
  PROVE  StaticInv' /\ ExecsInv'
<1>1. CASE SnapshotCommit(o)
  BY <1>1, SnapshotCommits
<1>2. CASE op[o].status \in Nonterminal /\ SnapshotSettles(o, SnapshotIsSafe(o)) /\ SnapshotFail(o)
  <2>1. op[o].type = "snapshot_create" /\ Becomes(o, Idle)
    BY <1>2 DEF SnapshotFail, At
  <2>2. Loose(o, exec'[o]) /\ \A p \in OpIds \ {o} : exec'[p] = exec[p]
    <3>1. Loose(o, Idle)
      BY DEF Loose, LooseSteps, Idle
    <3>2. exec'[o] = Idle /\ \A p \in OpIds \ {o} : exec'[p] = exec[p]
      BY <2>1, OthersRun
    <3> QED BY <3>1, <3>2
  <2> QED BY <1>2, <2>1, <2>2, SafeIsUndone, SnapshotEnding
<1> QED BY <1>1, <1>2, SnapshotWorks

LEMMA AbandonedSnapshotWorks ==
  ASSUME WholeInv, NEW o \in OpIds, AbandonedSnapshot(o)
  PROVE  StaticInv' /\ ExecsInv'
<1>1. /\ op[o].type = "snapshot_create" /\ op[o].status \in Nonterminal /\ UNCHANGED exec
      /\ worker.phase = "classifying" /\ SnapshotSettles(o, Pristine(o))
  BY DEF AbandonedSnapshot, Listed
<1>2. exec[o].step = "none"
  BY <1>1 DEF WholeInv, LedgerInv, OnlyServingExecutes
<1>3. exec[o].reply = "none"
  BY <1>1, <1>2 DEF WholeInv, ExecsInv, ExecFits, SnapshotFits, Waits
<1>4. Loose(o, exec'[o]) /\ \A p \in OpIds \ {o} : exec'[p] = exec[p]
  BY <1>1, <1>2, <1>3 DEF Loose, LooseSteps
<1> QED BY <1>1, <1>4, SafeIsUndone, SnapshotEnding

-----------------------------------------------------------------------------
LEMMA ArchivalOwns ==
  ASSUME WholeInv, NEW o \in OpIds, op[o].type \in Archivals, op[o].status \in Nonterminal,
         NEW c, CapsuleOf(o) = c
  PROVE  /\ c \in Capsules /\ capsule[c].status \in {"archiving", "unarchiving"} /\ ~Demolished(c)
         /\ Sound(c) /\ capsule[c] \in CapsuleType /\ op[o].type \notin {"create", "snapshot_create", "destroy"}
<1>1. c \in Capsules /\ capsule[c].status \in {"archiving", "unarchiving"}
  BY OwnerKnows, OwnedStatus
<1>2. op[o].type \notin {"create", "snapshot_create", "destroy"}
  BY DEF Archivals
<1>3. ~Demolished(c)
  BY <1>2, DemolishedOwner
<1> QED BY <1>1, <1>2, <1>3, Typed DEF Sound, RowsTyped

(* An archival leaves the capsule whole, whether it succeeds or not.          *)
LEMMA ArchivalEnding ==
  ASSUME WholeInv, NEW o \in OpIds, op[o].type \in Archivals, op[o].status \in Nonterminal,
         NEW status, NEW k, EndsAs(o, status, k), snapshot'[o] = snapshot[o],
         k.status \in {"active", "cleanup_required"}
  PROVE  StaticInv' /\ ExecsInv'
<1>1. PICK c : CapsuleOf(o) = c
  OBVIOUS
<1>2. /\ ~Demolished(c) /\ Sound(c) /\ op[o].type \notin {"create", "snapshot_create", "destroy"}
  BY <1>1, ArchivalOwns
<1>3. Made(c) /\ Settled(c)'
  BY <1>1, <1>2, SettledStays
<1>4. op'[o].type = op[o].type
  BY EndMoves
<1>5. ExecFits(o, exec[o])'
  BY <1>2, <1>4 DEF ExecFits
<1> QED BY <1>1, <1>2, <1>3, <1>5, EndWorks

LEMMA ArchivalSettling ==
  ASSUME WholeInv, NEW o \in OpIds, op[o].type \in Archivals, op[o].status \in Nonterminal,
         ArchivalSettles(o), \A p \in OpIds \ {o} : exec'[p] = exec[p]
  PROVE  StaticInv' /\ ExecsInv'
<1>1. PICK c : CapsuleOf(o) = c
  OBVIOUS
<1>2. capsule[c].status \in {"archiving", "unarchiving"} /\ capsule[c] \in CapsuleType
  BY <1>1, ArchivalOwns
<1>3. PICK s : s = CASE ProviderFree(o) -> "active"
                     [] capsule[c].status = "destroyed" -> capsule[c].status
                     [] OTHER -> "cleanup_required"
  OBVIOUS
<1>4. s \in {"active", "cleanup_required"}
  BY <1>2, <1>3
<1>5. PICK k, status : /\ k = [capsule[c] EXCEPT !.status = s]
                       /\ status = IF ProviderFree(o) THEN "failed" ELSE "cleanup_required"
  OBVIOUS
<1>6. capsule' = [capsule EXCEPT ![CapsuleOf(o)] = k]
  <2>1. capsule' = [capsule EXCEPT ![CapsuleOf(o)] = [capsule[CapsuleOf(o)] EXCEPT !.status = s]]
    BY <1>1, <1>3 DEF ArchivalSettles
  <2> QED BY <1>1, <1>5, <2>1
<1>7. k.status = s
  BY <1>2, <1>5 DEF CapsuleType
<1>8. EndsAs(o, status, k) /\ snapshot'[o] = snapshot[o]
  BY <1>5, <1>6 DEF ArchivalSettles, EndsAs, Terminal
<1> QED BY <1>4, <1>7, <1>8, ArchivalEnding

LEMMA ArchivalEndsWell ==
  ASSUME WholeInv, NEW o \in OpIds, ArchivalStep(o)
  PROVE  StaticInv' /\ ExecsInv'
<1>1. CASE ArchivalComplete(o)
  <2>1. PICK c : CapsuleOf(o) = c
    OBVIOUS
  <2>2. PICK a : a = (op[o].type = "archive")
    OBVIOUS
  <2>3. PICK k : k = [capsule[c] EXCEPT !.status = "active", !.archived = a]
    OBVIOUS
  <2>4. /\ op[o].type \in Archivals /\ op[o].status = "running" /\ SetStatus(o, "completed")
        /\ capsule' = [capsule EXCEPT ![CapsuleOf(o)] = k]
        /\ ArchivalAcks(o, Idle)
        /\ UNCHANGED <<rows, capture, snapshot, target, worker, providerVars, history>>
    BY <1>1, <2>1, <2>2, <2>3 DEF ArchivalComplete, Archiving
  <2>5. op[o].status \in Nonterminal /\ "completed" \in Terminal
    BY <2>4 DEF Nonterminal, Terminal
  <2>6. capsule[c] \in CapsuleType
    BY <2>1, <2>4, <2>5, ArchivalOwns
  <2>7. k.status = "active"
    BY <2>3, <2>6 DEF CapsuleType
  <2>8. \A p \in OpIds \ {o} : exec'[p] = exec[p]
    BY <2>4, OthersRun DEF ArchivalAcks
  <2>9. EndsAs(o, "completed", k) /\ snapshot'[o] = snapshot[o]
    BY <2>4, <2>5, <2>8 DEF EndsAs
  <2> QED BY <2>4, <2>5, <2>7, <2>9, ArchivalEnding
<1>2. CASE op[o].status \in Nonterminal /\ ArchivalSettles(o) /\ ArchivalFail(o)
  <2>1. op[o].type \in Archivals /\ Becomes(o, Idle)
    BY <1>2 DEF ArchivalFail, Archiving
  <2> QED BY <1>2, <2>1, OthersRun, ArchivalSettling
<1> QED BY <1>1, <1>2, ArchivalWorks

LEMMA AbandonedArchivalWorks ==
  ASSUME WholeInv, NEW o \in OpIds, AbandonedArchival(o)
  PROVE  StaticInv' /\ ExecsInv'
<1>1. op[o].type \in Archivals /\ op[o].status \in Nonterminal /\ UNCHANGED exec /\ ArchivalSettles(o)
  BY DEF AbandonedArchival, Listed
<1> QED BY <1>1, ArchivalSettling

-----------------------------------------------------------------------------
LEMMA DestroyOwns ==
  ASSUME WholeInv, NEW o \in OpIds, op[o].type = "destroy", op[o].status \in Nonterminal,
         NEW c, CapsuleOf(o) = c
  PROVE  /\ c \in Capsules /\ capsule[c].status = "destroying" /\ capsule[c] \in CapsuleType
         /\ o \in Owner(c)
<1>1. c \in Capsules /\ capsule[c].status = "destroying" /\ o \in Owner(c)
  BY OwnerKnows, OwnedStatus
<1> QED BY <1>1, Typed DEF RowsTyped

(* The plan covers all there can be of the capsule, so nothing is left once   *)
(* every target is known to be gone.                                         *)
LEMMA PlanCovers ==
  ASSUME WholeInv, NEW o \in OpIds, op[o].type = "destroy", op[o].status \in Nonterminal, HasPlan(o),
         \A i \in DOMAIN target[o] : target[o][i] \in {"absent", "deleted"},
         NEW c \in Capsules, CapsuleOf(o) = c
  PROVE  Gone(c)
<1>1. /\ Targets(c) \subseteq DOMAIN target[o]
      /\ \A i \in DOMAIN target[o] : <<c, i>> \notin exists /\ ~MakePending(c, i)
  BY DEF WholeInv, StaticInv, TargetsInv
<1>2. \A i \in Targets(c) : <<c, i>> \notin exists /\ ~MakePending(c, i)
  BY <1>1
<1>3. Managed \subseteq Targets(c) /\ Route \in Targets(c)
  BY DEF Targets
<1>4. ASSUME NEW p \in OpIds, op[p].type = "snapshot_create", CapsuleOf(p) = c, NEW i \in Captured(p)
      PROVE  <<c, i>> \notin exists /\ ~MakePending(c, i)
  <2>1. i.name \in Versioned /\ i.op = p
    BY ItemsDiffer
  <2>2. CASE capture[p][i.name] = "none"
    <3>1. PICK m : m = capture[p][i.name]
      OBVIOUS
    <3>2. ObjectFits(m, c, i)
      BY <1>4, <3>1, CaptureFits
    <3> QED BY <2>2, <3>1, <3>2 DEF ObjectFits
  <2>3. CASE capture[p][i.name] # "none"
    <3>1. i \in Targets(c)
      BY <1>4, <2>1, <2>3 DEF Targets
    <3> QED BY <1>2, <3>1
  <2> QED BY <2>2, <2>3
<1> QED BY <1>2, <1>3, <1>4, GoneIfNothing

LEMMA DestroyEndFits ==
  ASSUME NEW o \in OpIds, op'[o].type = "destroy", op'[o].status \in Terminal,
         exec'[o].step \notin {"revoke", "fence", "plan", "retire"}
  PROVE  ExecFits(o, exec[o])'
  BY DEF ExecFits, DestroyFits

LEMMA DestroyCompletes ==
  ASSUME WholeInv, NEW o \in OpIds, DestroyComplete(o)
  PROVE  StaticInv' /\ ExecsInv'
<1>1. PICK c : CapsuleOf(o) = c
  OBVIOUS
<1>2. PICK e, k : e = exec[o] /\ k = [capsule[c] EXCEPT !.status = "destroyed", !.branch = "destroyed"]
  OBVIOUS
<1>3. /\ e.step = "next" /\ op[o].type = "destroy" /\ op[o].status = "running" /\ HasPlan(o)
      /\ \A i \in DOMAIN target[o] : target[o][i] \in {"absent", "deleted"}
      /\ SetStatus(o, "completed")
      /\ capsule' = [capsule EXCEPT ![CapsuleOf(o)] = k]
      /\ DestroyAcks(o, Idle)
      /\ UNCHANGED <<rows, capture, snapshot, target, worker, providerVars, history>>
  BY <1>1, <1>2 DEF DestroyComplete, At, Destroying
<1>4. op[o].status \in Nonterminal /\ "completed" \in Terminal
  BY <1>3 DEF Nonterminal, Terminal
<1>5. c \in Capsules /\ capsule[c] \in CapsuleType
  BY <1>1, <1>3, <1>4, DestroyOwns
<1>6. e \in ExecType
  BY <1>2, <1>3, Executes, Typed
<1>7. PICK f : Becomes(o, f) /\ f.step \in {"none", "classify"}
  <2>1. Idle.step = "none" /\ DestroyCaught(e).step = "classify"
    BY <1>6 DEF Idle, DestroyCaught, ExecType
  <2> QED BY <1>2, <1>3, <2>1 DEF DestroyAcks
<1>8. exec'[o] = f /\ \A p \in OpIds \ {o} : exec'[p] = exec[p]
  BY <1>7, OthersRun
<1>9. EndsAs(o, "completed", k)
  BY <1>3, <1>4, <1>8 DEF EndsAs
<1>10. op'[o].type = "destroy" /\ op'[o].status = "completed"
  BY <1>1, <1>3, <1>9, EndMoves
<1>11. ExecFits(o, exec[o])'
  BY <1>4, <1>7, <1>8, <1>10, DestroyEndFits
<1>12. Gone(c)
  BY <1>1, <1>3, <1>4, <1>5, PlanCovers
<1>13. k.status = "destroyed"
  BY <1>2, <1>5 DEF CapsuleType
<1>14. snapshot'[o] = snapshot[o] /\ target'[o] = target[o] /\ "destroyed" \in Doomed
  BY <1>3 DEF Doomed
<1> QED BY <1>1, <1>9, <1>11, <1>12, <1>13, <1>14, EndWorks

LEMMA DestroySettling ==
  ASSUME WholeInv, NEW o \in OpIds, op[o].type = "destroy", op[o].status \in Nonterminal,
         DestroySettles(o), \A p \in OpIds \ {o} : exec'[p] = exec[p],
         exec'[o].step \notin {"plan", "retire", "revoke", "fence"}
  PROVE  StaticInv' /\ ExecsInv'
<1>1. PICK c : CapsuleOf(o) = c
  OBVIOUS
<1>2. /\ c \in Capsules /\ capsule[c].status = "destroying" /\ capsule[c] \in CapsuleType
      /\ o \in Owner(c)
  BY <1>1, DestroyOwns
<1>3. PICK k, status :
        /\ k = IF Restores(o) THEN [capsule[c] EXCEPT !.status = "active", !.branch = "offline"]
               ELSE [capsule[c] EXCEPT !.status = CleanedUp(capsule[c].status),
                                       !.branch = CleanedUp(capsule[c].branch)]
        /\ status = IF Restores(o) THEN "failed" ELSE "cleanup_required"
  OBVIOUS
<1>4. capsule' = [capsule EXCEPT ![CapsuleOf(o)] = k]
  BY <1>1, <1>3 DEF DestroySettles
<1>5. /\ SetStatus(o, status) /\ status \in Terminal
      /\ UNCHANGED <<rows, capture, snapshot, providerVars, history>>
  BY <1>3 DEF DestroySettles, Terminal
<1>6. target \in [OpIds -> TargetType]
  BY Typed DEF RowsTyped
<1>7. /\ target'[o] = [i \in DOMAIN target[o] |-> Unsettled(target[o][i])]
      /\ \A p \in OpIds \ {o} : target'[p] = target[p]
  BY <1>6 DEF DestroySettles
<1>8. EndsAs(o, status, k)
  BY <1>4, <1>5, <1>7 DEF EndsAs
<1>9. /\ Restores(o) => k.status = "active"
      /\ ~Restores(o) => k.status = "cleanup_required"
  <2>1. CleanedUp(capsule[c].status) = "cleanup_required"
    BY <1>2 DEF CleanedUp
  <2> QED BY <1>2, <1>3, <2>1 DEF CapsuleType
<1>10. ASSUME Restores(o) PROVE Made(c) /\ Settled(c)' /\ ~Demolished(c)
  <2>1. ~op[o].force /\ ~op[o].intent
    BY <1>10 DEF Restores
  <2>2. Sound(c) /\ ~Demolished(c)
    BY <1>2, <2>1 DEF Sound, WholeInv, StaticInv, DemolishedInv
  <2> QED BY <1>1, <1>8, <2>2, SettledStays
<1>11. \A i \in DOMAIN target'[o] : target'[o][i] \in {"absent", "deleted"} =>
         i \in DOMAIN target[o] /\ target[o][i] = target'[o][i]
  BY <1>7 DEF Unsettled
<1>12. op'[o].type = "destroy" /\ op'[o].status = status
  BY <1>1, <1>8, EndMoves
<1>13. ExecFits(o, exec[o])'
  BY <1>5, <1>12, DestroyEndFits
<1>14. snapshot'[o] = snapshot[o] /\ "cleanup_required" \in Doomed
  BY <1>5 DEF Doomed
<1> QED BY <1>1, <1>8, <1>9, <1>10, <1>11, <1>13, <1>14, EndWorks

LEMMA DestroyEndsWell ==
  ASSUME WholeInv, NEW o \in OpIds, DestroyStep(o)
  PROVE  StaticInv' /\ ExecsInv'
<1>1. CASE DestroyComplete(o)
  BY <1>1, DestroyCompletes
<1>2. CASE op[o].status \in Nonterminal /\ DestroySettles(o) /\ DestroyFail(o)
  <2>1. op[o].type = "destroy" /\ Becomes(o, Idle)
    BY <1>2 DEF DestroyFail, At
  <2>2. exec'[o].step = "none" /\ \A p \in OpIds \ {o} : exec'[p] = exec[p]
    BY <2>1, OthersRun DEF Idle
  <2> QED BY <1>2, <2>1, <2>2, DestroySettling
<1> QED BY <1>1, <1>2, DestroyWorks

LEMMA AbandonedDestroyWorks ==
  ASSUME WholeInv, NEW o \in OpIds, AbandonedDestroy(o)
  PROVE  StaticInv' /\ ExecsInv'
<1>1. /\ op[o].type = "destroy" /\ op[o].status \in Nonterminal /\ UNCHANGED exec
      /\ worker.phase = "classifying" /\ DestroySettles(o)
  BY DEF AbandonedDestroy, Listed
<1>2. exec[o].step = "none"
  BY <1>1 DEF WholeInv, LedgerInv, OnlyServingExecutes
<1> QED BY <1>1, <1>2, DestroySettling

(* What the executors and the startup do.                                    *)
LEMMA ExecuteWorks ==
  ASSUME WholeInv, NEW o \in OpIds, Execute(o) \/ ClassifyAbandoned(o)
  PROVE  StaticInv' /\ ExecsInv'
  BY CreateEndsWell, SnapshotEndsWell, ArchivalEndsWell, DestroyEndsWell, AbandonedCreateWorks,
     AbandonedSnapshotWorks, AbandonedArchivalWorks, AbandonedDestroyWorks
     DEF Execute, ClassifyAbandoned

-----------------------------------------------------------------------------
(* Acceptance.                                                               *)
(* What each type requires of the capsule, and makes of it.                  *)
Takes(o, c, type, force, k) ==
  /\ Insert(o, type, c, force)
  /\ capsule' = [capsule EXCEPT ![c] = k]
  /\ type = "create" =>
       capsule[c].status = "absent" /\ k.status = "provisioning" /\ UNCHANGED capture
  /\ type = "snapshot_create" =>
       /\ capsule[c] = [status |-> "active", archived |-> FALSE, branch |-> "offline"]
       /\ k.status = "active"
       /\ capture' = [capture EXCEPT ![o] = [v \in Versioned |-> "planned"]]
  /\ type \in Archivals =>
       /\ capsule[c] = [status |-> "active", archived |-> type = "unarchive", branch |-> "offline"]
       /\ k.status \in {"archiving", "unarchiving"} /\ UNCHANGED capture
  /\ type = "destroy" =>
       /\ capsule[c].status \notin {"absent", "destroyed"}
       /\ ~force => capsule[c] = [status |-> "active", archived |-> TRUE, branch |-> "offline"]
       /\ k.status = "destroying" /\ UNCHANGED capture

LEMMA AcceptTakes ==
  ASSUME WholeInv, NEW o \in OpIds, NEW c \in Capsules, Accept(o, c)
  PROVE  \E type \in Types, force \in BOOLEAN : \E k : Takes(o, c, type, force, k)
<1>0. capsule[c] \in CapsuleType
  BY Typed DEF RowsTyped
<1>1. CASE AcceptCreate(o, c)
  <2>1. PICK k : k = [status |-> "provisioning", archived |-> FALSE, branch |-> "provisioning"]
    OBVIOUS
  <2>2. k.status = "provisioning" /\ capsule[c].status = "absent"
    BY <1>1, <2>1 DEF AcceptCreate, NoCapsule
  <2>3. Insert(o, "create", c, FALSE) /\ capsule' = [capsule EXCEPT ![c] = k] /\ UNCHANGED capture
    BY <1>1, <2>1 DEF AcceptCreate
  <2>4. Takes(o, c, "create", FALSE, k)
    BY <2>2, <2>3 DEF Takes, Archivals
  <2> QED BY <2>4 DEF Types
<1>2. CASE AcceptSnapshot(o, c)
  <2>1. PICK k : k = [capsule[c] EXCEPT !.branch = "snapshotting"]
    OBVIOUS
  <2>2. capsule[c] = [status |-> "active", archived |-> FALSE, branch |-> "offline"]
        /\ capsule' = [capsule EXCEPT ![c] = k]
    BY <1>2, <2>1 DEF AcceptSnapshot
  <2>3. k.status = "active"
    BY <2>1, <2>2
  <2>4. Takes(o, c, "snapshot_create", FALSE, k)
    BY <1>2, <2>2, <2>3 DEF AcceptSnapshot, Takes, Archivals
  <2> QED BY <2>4 DEF Types
<1>3. ASSUME NEW t \in Archivals, AcceptArchival(o, c, t)
      PROVE  \E type \in Types, force \in BOOLEAN : \E k : Takes(o, c, type, force, k)
  <2>1. PICK k : k = [capsule[c] EXCEPT !.status = Fence(t)]
    OBVIOUS
  <2>2. /\ capsule[c] = [status |-> "active", archived |-> t = "unarchive", branch |-> "offline"]
        /\ capsule' = [capsule EXCEPT ![c] = k] /\ UNCHANGED capture /\ Insert(o, t, c, FALSE)
    BY <1>3, <2>1 DEF AcceptArchival
  <2>3. k.status \in {"archiving", "unarchiving"}
    BY <1>0, <2>1 DEF CapsuleType, Fence
  <2>4. t \notin {"create", "snapshot_create", "destroy"} /\ t \in Types
    BY DEF Archivals, Types
  <2>5. Takes(o, c, t, FALSE, k)
    BY <2>2, <2>3, <2>4 DEF Takes
  <2> QED BY <2>4, <2>5
<1>4. ASSUME NEW f \in BOOLEAN, AcceptDestroy(o, c, f)
      PROVE  \E type \in Types, force \in BOOLEAN : \E k : Takes(o, c, type, force, k)
  <2>1. PICK k : k = [capsule[c] EXCEPT !.status = "destroying",
             !.branch = IF capsule[c].branch = "destroyed" THEN "destroyed" ELSE "destroying"]
    OBVIOUS
  <2>2. k.status = "destroying"
    BY <1>0, <2>1 DEF CapsuleType
  <2>3. Takes(o, c, "destroy", f, k)
    BY <1>4, <2>1, <2>2 DEF AcceptDestroy, Takes, Archivals
  <2> QED BY <2>3 DEF Types
<1> QED BY <1>1, <1>2, <1>3, <1>4 DEF Accept

(* Nothing exists, or is on its way, of the captures an operation may plan.    *)
LEMMA NothingCaptured ==
  ASSUME WholeInv, NEW o \in OpIds, op[o].type # "snapshot_create", NEW c \in Capsules,
         NEW i \in Captured(o)
  PROVE  /\ <<c, i>> \notin exists /\ ~MakePending(c, i)
         /\ ~Demolished(c) => ~DropPending(c, i)
<1>0. i \notin Managed /\ i # Route
  BY ItemsDiffer
<1>1. ASSUME <<c, i>> \in exists PROVE FALSE
  <2>1. ThingFits(c, i)
    BY <1>1 DEF WholeInv, StaticInv, ThingsInv
  <2> QED BY <1>0, <2>1, CapturedApart DEF ThingFits
<1>2. ASSUME NEW call \in pending, call.item = i, call.capsule = c, call.verb # "stop"
      PROVE  op[call.op].type = "destroy" /\ call.verb # "make" /\ Demolished(c)
  <2>1. CallFits(call) /\ call.op \in OpIds
    BY PendingKnows
  <2> QED BY <1>0, <1>2, <2>1, CapturedApart DEF CallFits, Demolished
<1> QED BY <1>1, <1>2, PendingMakes

LEMMA AcceptWorks ==
  ASSUME WholeInv, NEW o \in OpIds, NEW c \in Capsules, Accept(o, c)
  PROVE  StaticInv' /\ ExecsInv'
<1>0. PICK type \in Types, force \in BOOLEAN : \E k : Takes(o, c, type, force, k)
  BY AcceptTakes
<1>1. PICK k : Takes(o, c, type, force, k)
  BY <1>0
<1>2. Insert(o, type, c, force) /\ capsule' = [capsule EXCEPT ![c] = k]
  BY <1>1 DEF Takes
<1>3. /\ op \in [OpIds -> OpType] /\ exec \in [OpIds -> ExecType] /\ history \in HistoryType
      /\ capsule \in [Capsules -> CapsuleType] /\ capture \in [OpIds -> [Versioned -> RowStatuses]]
      /\ exists \subseteq Capsules \X Items
  BY Typed DEF RowsTyped, ProcessTyped, ProviderTyped
<1>4. op[o].status = "absent" /\ Owner(c) = {}
  BY <1>2 DEF Insert, Unowned
<1>5. /\ op[o].type = "none" /\ ~op[o].intent /\ CapsuleOf(o) = None /\ snapshot[o] = "none"
      /\ target[o] = NoTargets /\ exec[o] = Idle /\ o \notin history.dirty
  BY <1>4, FreshSaysNothing
<1>6. /\ op'[o].type = type /\ op'[o].status = "accepted" /\ op'[o].capsule = c
      /\ op'[o].force = force /\ op'[o].intent = FALSE
      /\ \A p \in OpIds \ {o} : op'[p] = op[p]
  BY <1>2, <1>3 DEF Insert
<1>7. UNCHANGED <<rows, snapshot, target, exists, pending, running>>
  BY <1>2 DEF Insert, providerVars
<1>8. /\ exec'[o].step \in {"none", "claim"} /\ exec'[o].reply = "none" /\ exec'[o].item = NoItem
      /\ \A p \in OpIds \ {o} : exec'[p] = exec[p]
  <2>1. Idle.step = "none" /\ Idle.reply = "none" /\ Idle.item = NoItem
    BY DEF Idle
  <2>2. Started.step = "claim" /\ Started.reply = "none" /\ Started.item = NoItem
    BY DEF Started, Idle
  <2> QED BY <1>2, <1>3, <1>5, <2>1, <2>2 DEF Insert, Becomes
<1>9. /\ history'.dirty = history.dirty /\ history'.drifts = history.drifts
      /\ history'.before[c] = Picture(c)
      /\ \A d \in Capsules \ {c} : history'.before[d] = history.before[d]
  BY <1>2, <1>3 DEF Insert, HistoryType
<1>10. capsule'[c] = k /\ \A d \in Capsules \ {c} : capsule'[d] = capsule[d]
  BY <1>2, <1>3
<1>11. \A p \in OpIds \ {o} : capture'[p] = capture[p]
  BY <1>1, <1>3 DEF Takes, Types, Archivals
<1>12. /\ Owner(c)' = {o}
       /\ \A d \in Capsules \ {c} : Owner(d)' = Owner(d)
       /\ \A d : \A p \in Owner(d) : p \in OpIds \ {o} /\ CapsuleOf(p) = d
  <2>1. \A d : \A p \in Owner(d) : p \in OpIds \ {o} /\ CapsuleOf(p) = d
    BY <1>4, StatusesDiffer DEF Owner, NonterminalOps
  <2>2. "accepted" \in Nonterminal /\ op[o].status \notin Nonterminal
    BY <1>4, StatusesDiffer DEF Nonterminal
  <2> QED BY <1>4, <1>6, <2>1, <2>2 DEF Owner, NonterminalOps, CapsuleOf
<1>13. \A d \in Capsules : Usable(d)' = Usable(d)
  BY <1>5, <1>6, <1>7 DEF Usable, CapsuleOf
<1>14. \A d \in Capsules : Demolished(d)' <=> Demolished(d)
  BY <1>5, <1>6 DEF Demolished, CapsuleOf
<1>15. \A d, i : Rests(d, i)
  BY <1>7 DEF Rests, Holds, MakePending, DropPending, Object
<1>16. Grows
  BY <1>4, <1>6 DEF Grows
<1>17. FreshInv' /\ DirtyInv'
  <2>1. FreshInv'
    BY <1>6, <1>7, <1>8 DEF WholeInv, StaticInv, FreshInv
  <2>2. history.dirty \subseteq OpIds
    BY <1>3 DEF HistoryType
  <2> QED BY <1>5, <1>6, <1>9, <2>1, <2>2 DEF WholeInv, StaticInv, DirtyInv
<1>18. CallsInv' /\ ThingsInv'
  BY <1>7, <1>16, CallsKeep, ThingsKeep
<1>19. ObjectsInv'
  <2>1. \A m, i : \A d \in Capsules : ObjectFits(m, d, i) => ObjectFits(m, d, i)'
    BY <1>14, <1>15 DEF ObjectFits, Rests, Holds
  <2>2. ASSUME NEW d \in Capsules, NEW i \in Managed PROVE ObjectFits(rows[d][i], d, i)'
    <3>1. PICK m : m = rows[d][i]
      OBVIOUS
    <3>2. ObjectFits(m, d, i)'
      BY <2>1, <3>1 DEF WholeInv, StaticInv, ObjectsInv
    <3> QED BY <1>7, <3>1, <3>2
  <2>3. ASSUME NEW p \in OpIds, NEW v \in Versioned, op'[p].type = "snapshot_create"
        PROVE  ObjectFits(capture[p][v], CapsuleOf(p), Snapshot(v, p))'
    <3>1. CASE p # o
      <4>1. op[p].type = "snapshot_create" /\ op[p].status # "absent"
        BY <1>6, <2>3, <3>1, FreshSaysNothing
      <4>2. PICK d \in Capsules : CapsuleOf(p) = d
        BY <4>1, Typed DEF AcceptedOnly, CapsuleOf
      <4>3. PICK m : m = capture[p][v]
        OBVIOUS
      <4>4. ObjectFits(m, d, Snapshot(v, p))
        BY <4>1, <4>2, <4>3 DEF WholeInv, StaticInv, ObjectsInv
      <4>5. ObjectFits(m, d, Snapshot(v, p))' /\ CapsuleOf(p)' = d /\ capture'[p][v] = m
        BY <1>6, <1>11, <2>1, <3>1, <4>2, <4>3, <4>4 DEF CapsuleOf
      <4> QED BY <4>5
    <3>2. CASE p = o
      <4>1. type = "snapshot_create" /\ CapsuleOf(o)' = c
        BY <1>6, <2>3, <3>2 DEF CapsuleOf
      <4>2. capture'[o][v] = "planned"
        BY <1>1, <1>3, <4>1 DEF Takes
      <4>3. PICK i \in Captured(o) : i = Snapshot(v, o)
        BY ItemsDiffer
      <4>4. <<c, i>> \notin exists /\ ~MakePending(c, i) /\ (~Demolished(c) => ~DropPending(c, i))
        BY <1>5, NothingCaptured
      <4>5. ObjectFits("planned", c, i)
        BY <4>4 DEF ObjectFits
      <4>6. ObjectFits("planned", c, i)'
        BY <2>1, <4>5
      <4> QED BY <3>2, <4>1, <4>2, <4>3, <4>6
    <3> QED BY <3>1, <3>2
  <2> QED BY <2>2, <2>3 DEF ObjectsInv
(* What the capsule was.                                                     *)
<1>20. /\ type = "create" => capsule[c].status = "absent" /\ k.status = "provisioning"
       /\ type # "create" => k.status \in {"active", "archiving", "unarchiving", "destroying"}
       /\ k.status \in {"active", "archiving", "unarchiving"} => capsule[c].status = "active"
       /\ type = "destroy" => k.status = "destroying"
       /\ k.status = "destroying" => type = "destroy"
       /\ type # "create" /\ ~(type = "destroy" /\ force) => capsule[c].status = "active"
  <2>1. type \in {"create", "snapshot_create", "destroy"} \cup Archivals
    BY DEF Types, Archivals
  <2>2. type \in Archivals => type \notin {"create", "snapshot_create", "destroy"}
    BY DEF Archivals
  <2> QED BY <1>1, <2>1, <2>2 DEF Takes
<1>21. YoungInv'
  <2> SUFFICES ASSUME NEW d \in Capsules
               PROVE  /\ capsule'[d].status = "absent" => \A p \in OpIds : op'[p].capsule # d
                      /\ capsule'[d].status = "provisioning" =>
                           \A p \in OpIds : op'[p].capsule = d => op'[p].type = "create"
                      /\ capsule'[d].status \in {"absent", "provisioning"} => <<d, Route>> \notin exists
                      /\ \A p, q \in OpIds :
                           op'[p].type = "create" /\ op'[q].type = "create" /\ op'[p].capsule = d
                             /\ op'[q].capsule = d => p = q
    BY <1>7 DEF YoungInv, CapsuleOf
  <2>1. /\ capsule[d].status = "absent" => \A p \in OpIds : op[p].capsule # d
        /\ capsule[d].status = "provisioning" =>
             \A p \in OpIds : op[p].capsule = d => op[p].type = "create"
        /\ capsule[d].status \in {"absent", "provisioning"} => <<d, Route>> \notin exists
        /\ \A p, q \in OpIds :
             op[p].type = "create" /\ op[q].type = "create" /\ op[p].capsule = d
               /\ op[q].capsule = d => p = q
    BY DEF WholeInv, StaticInv, YoungInv, CapsuleOf
  <2>2. CASE d # c
    BY <1>6, <1>10, <2>1, <2>2
  <2>3. CASE d = c /\ type = "create"
    BY <1>6, <1>10, <1>20, <2>1, <2>3
  <2>4. CASE d = c /\ type # "create"
    BY <1>6, <1>10, <1>20, <2>1, <2>4
  <2> QED BY <2>2, <2>3, <2>4
<1>22. DemolishedInv'
  <2> SUFFICES ASSUME NEW d \in Capsules, Demolished(d)
               PROVE  /\ capsule'[d].status \in Doomed
                      /\ \A p \in Owner(d)' : op'[p].force \/ op'[p].intent
                      /\ Usable(d)' = {}
    BY <1>14 DEF DemolishedInv
  <2>1. /\ capsule[d].status \in Doomed /\ (\A p \in Owner(d) : op[p].force \/ op[p].intent)
        /\ Usable(d) = {}
    BY DEF WholeInv, StaticInv, DemolishedInv
  <2>2. CASE d = c
    <3>1. type = "destroy" /\ force
      BY <1>20, <2>1, <2>2 DEF Doomed
    <3> QED BY <1>6, <1>10, <1>12, <1>13, <1>20, <2>1, <2>2, <3>1 DEF Doomed
  <2>3. CASE d # c
    BY <1>6, <1>10, <1>12, <1>13, <2>1, <2>3
  <2> QED BY <2>2, <2>3
<1>23. SoundInv'
  <2> SUFFICES ASSUME NEW d \in Capsules, Sound(d)' PROVE Made(d)' /\ Settled(d)'
    BY DEF SoundInv
  <2>1. Sound(d)
    <3>1. CASE d # c
      BY <1>6, <1>10, <1>12, <3>1 DEF Sound
    <3>2. CASE d = c
      <4>1. capsule[c].status = "active"
        BY <1>6, <1>10, <1>12, <1>20, <3>2 DEF Sound
      <4> QED BY <3>2, <4>1 DEF Sound
    <3> QED BY <3>1, <3>2
  <2>2. Made(d) /\ Settled(d)
    BY <2>1 DEF WholeInv, StaticInv, SoundInv
  <2>3. "accepted" \notin Terminal
    BY DEF Terminal
  <2> QED BY <1>6, <1>7, <1>11, <2>2, <2>3 DEF Made, Settled, CapsuleOf
<1>24. CommittedInv'
  BY <1>5, <1>6, <1>7, <1>9, <1>11 DEF WholeInv, StaticInv, CommittedInv, AllCaptures
<1>25. TargetsInv'
  <2> SUFFICES ASSUME NEW d \in OpIds, op'[d].type = "destroy"
               PROVE  /\ HasPlan(d)' /\ op'[d].status \in Nonterminal =>
                           Targets(CapsuleOf(d))' \subseteq DOMAIN target[d]
                      /\ \A i \in DOMAIN target[d] : target[d][i] \in {"absent", "deleted"} =>
                           /\ op'[d].intent
                           /\ <<op'[d].capsule, i>> \notin exists
                           /\ ~MakePending(CapsuleOf(d), i)'
    BY <1>7 DEF TargetsInv, CapsuleOf
  <2>1. CASE d = o
    BY <1>5, <1>7, <2>1 DEF HasPlan, NoTargets
  <2>2. CASE d # o
    <3>1. op'[d] = op[d]
      BY <1>6, <2>2
    <3>2. /\ HasPlan(d) /\ op[d].status \in Nonterminal => Targets(CapsuleOf(d)) \subseteq DOMAIN target[d]
          /\ \A i \in DOMAIN target[d] : target[d][i] \in {"absent", "deleted"} =>
               /\ op[d].intent /\ <<CapsuleOf(d), i>> \notin exists /\ ~MakePending(CapsuleOf(d), i)
      BY <3>1 DEF WholeInv, StaticInv, TargetsInv
    <3>3. ASSUME op[d].status \in Nonterminal PROVE Targets(CapsuleOf(d))' \subseteq Targets(CapsuleOf(d))
      <4>1. PICK b \in Capsules : CapsuleOf(d) = b
        BY <3>3, OwnerKnows
      <4>2. b # c
        BY <1>4, <3>3, <4>1, OwnerKnows
      <4>3. CapsuleOf(d)' = b
        BY <3>1, <4>1 DEF CapsuleOf
      <4>4. \A i \in UNION {Captured(p) : p \in OpIds} : i.op \in OpIds
        BY ItemsDiffer
      <4>5. Targets(b)' \subseteq Targets(b)
        BY <1>6, <1>11, <4>2, <4>4 DEF Targets, CapsuleOf
      <4>6. Targets(CapsuleOf(d))' = Targets(b)'
        BY <4>3 DEF Targets
      <4> QED BY <4>1, <4>5, <4>6
    <3>4. \A i : MakePending(CapsuleOf(d), i)' <=> MakePending(CapsuleOf(d), i)
      BY <1>7, <3>1 DEF MakePending, Object, CapsuleOf
    <3> QED BY <1>7, <3>1, <3>2, <3>3, <3>4 DEF HasPlan, CapsuleOf
  <2> QED BY <2>1, <2>2
<1>26. BeforeInv'
  <2> SUFFICES ASSUME NEW d \in Capsules, NEW p \in Owner(d)',
                      op'[p].type # "create" /\ ~(op'[p].type = "destroy" /\ op'[p].force)
               PROVE  /\ history'.before[d].capsule = Prior(p)'
                      /\ ~(op'[p].type = "destroy" /\ op'[p].intent) =>
                           history'.before[d].objects
                             = {x \in exists : x[1] = d /\ x[2] # Route /\ x[2] \notin Captured(p)}
                      /\ ~(op'[p].type = "destroy" /\ HasPlan(p)') =>
                           history'.before[d].usable = Usable(d)'
    BY <1>7 DEF BeforeInv
  <2>1. CASE d # c
    <3>1. p \in Owner(d) /\ p \in OpIds \ {o} /\ op'[p] = op[p]
      BY <1>6, <1>12, <2>1
    <3>2. /\ history.before[d].capsule = Prior(p)
          /\ ~(op[p].type = "destroy" /\ op[p].intent) =>
               history.before[d].objects
                 = {x \in exists : x[1] = d /\ x[2] # Route /\ x[2] \notin Captured(p)}
          /\ ~(op[p].type = "destroy" /\ HasPlan(p)) => history.before[d].usable = Usable(d)
      BY <3>1 DEF WholeInv, StaticInv, BeforeInv
    <3> QED BY <1>7, <1>9, <1>13, <2>1, <3>1, <3>2 DEF Prior, HasPlan
  <2>2. CASE d = c
    <3>1. p = o /\ type # "create" /\ ~(type = "destroy" /\ force)
      BY <1>6, <1>12, <2>2
    <3>2. history'.before[c].capsule = capsule[c]
          /\ history'.before[c].objects = {x \in exists : x[1] = c /\ x[2] # Route}
          /\ history'.before[c].usable = Usable(c)
      BY <1>9 DEF Picture, Usable
    <3>3. capsule[c] = [status |-> "active", archived |-> type \in {"unarchive", "destroy"},
                        branch |-> "offline"]
      <4>1. CASE type = "snapshot_create"
        <5>1. (type \in {"unarchive", "destroy"}) = FALSE
          BY <4>1
        <5>2. capsule[c] = [status |-> "active", archived |-> FALSE, branch |-> "offline"]
          BY <1>1, <4>1 DEF Takes
        <5> QED BY <5>1, <5>2, Zenon
      <4>2. CASE type \in Archivals
        BY <1>1, <4>2 DEF Takes, Archivals
      <4>3. CASE type = "destroy"
        BY <1>1, <3>1, <4>3 DEF Takes
      <4> QED BY <3>1, <4>1, <4>2, <4>3 DEF Types, Archivals
    <3>4. Prior(o)' = capsule[c]
      BY <1>6, <3>3 DEF Prior
    <3>5. \A x \in exists : x[1] = c => x[2] \notin Captured(o)
      <4> SUFFICES ASSUME NEW x \in exists, x[1] = c, x[2] \in Captured(o) PROVE FALSE
        OBVIOUS
      <4>1. x = <<c, x[2]>>
        BY <1>3
      <4> QED BY <1>5, <4>1, NothingCaptured
    <3> QED BY <1>13, <2>2, <3>1, <3>2, <3>4, <3>5
  <2> QED BY <2>1, <2>2
<1>27. GoneLeavesNothing'
  <2>1. \A d : Leftovers(d)' = Leftovers(d)
    BY <1>7 DEF Leftovers, Object
  <2> QED BY <1>10, <1>20, <2>1 DEF WholeInv, StaticInv, GoneLeavesNothing
<1>28. ExecsInv'
  <2> SUFFICES ASSUME NEW p \in OpIds PROVE ExecFits(p, exec[p])'
    BY DEF ExecsInv
  <2>1. CASE p = o
    <3>1. NoItem \notin Managed
      BY ItemsDiffer
    <3> QED BY <1>8, <2>1, <3>1 DEF ExecFits, CreateFits, SnapshotFits, DestroyFits, Waits, DirtyFits,
             CaptureSteps
  <2>2. CASE p # o
    <3>1. ExecFits(p, exec[p]) /\ op'[p] = op[p] /\ exec'[p] = exec[p] /\ capture'[p] = capture[p]
      BY <1>6, <1>8, <1>11, <2>2 DEF WholeInv, ExecsInv
    <3>2. CASE op[p].status = "absent"
      BY <3>1, <3>2, FreshSaysNothing DEF ExecFits
    <3>3. CASE op[p].status # "absent"
      <4>1. PICK d \in Capsules : d = CapsuleOf(p)
        BY <3>3, Typed DEF AcceptedOnly, CapsuleOf
      <4>2. \A i : Holds(d, i)
        BY <1>15 DEF Rests
      <4> QED BY <1>7, <1>9, <1>13, <3>1, <4>1, <4>2, ExecRests
    <3> QED BY <3>2, <3>3
  <2> QED BY <2>1, <2>2
<1> QED
  BY <1>17, <1>18, <1>19, <1>21, <1>22, <1>23, <1>24, <1>25, <1>26, <1>27, <1>28 DEF StaticInv

-----------------------------------------------------------------------------
(* Everything no executor does: the provider lands or refuses a call, a       *)
(* branch nobody owns starts or stops, the runtime drifts, the Worker         *)
(* crashes, boots and serves.  No row of an object moves.                     *)
World ==
  /\ UNCHANGED <<op, rows, capture, snapshot, target>>
  /\ \A c \in Capsules : capsule'[c].status = capsule[c].status
  /\ pending' \subseteq pending
  /\ exists' \subseteq Capsules \X Items
  /\ \A x \in exists' \ exists :
       (x[2] = Route /\ capsule[x[1]].status = "active") \/ MakePending(x[1], x[2])
  /\ \A x \in exists \ exists' : x[2] = Route \/ DropPending(x[1], x[2])
  /\ history'.before = history.before
  /\ history'.drifts \in Nat /\ history'.drifts >= history.drifts
  /\ \A p \in history'.dirty \ history.dirty :
       /\ CapsuleOf(p) \in running
       /\ \E call \in pending : call.verb = "make" /\ call.op = p /\ call.item.kind = "snapshot"
  /\ \A c \in Capsules :
       \/ c \in running' <=> c \in running
       \/ Owner(c) = {} \/ Demolished(c) \/ history'.drifts > history.drifts

LEMMA WorldSame ==
  ASSUME World
  PROVE  /\ Grows /\ (\A p : CapsuleOf(p)' = CapsuleOf(p))
         /\ \A c : Owner(c)' = Owner(c) /\ Usable(c)' = Usable(c)
         /\ \A c : Demolished(c)' <=> Demolished(c)
         /\ \A c, i : MakePending(c, i)' => MakePending(c, i)
         /\ \A c, i : DropPending(c, i)' => DropPending(c, i)
<1>1. UNCHANGED op /\ UNCHANGED snapshot /\ pending' \subseteq pending
  BY DEF World
<1>2. Grows /\ \A p : CapsuleOf(p)' = CapsuleOf(p)
  BY <1>1 DEF Grows, CapsuleOf
<1>3. \A c : Owner(c)' = Owner(c) /\ Usable(c)' = Usable(c)
  BY <1>1 DEF Owner, NonterminalOps, Usable, CapsuleOf
<1>4. \A c : Demolished(c)' <=> Demolished(c)
  BY <1>1 DEF Demolished, CapsuleOf
<1>5. \A c, i : MakePending(c, i)' => MakePending(c, i)
  BY <1>1 DEF MakePending, Object
<1>6. \A c, i : DropPending(c, i)' => DropPending(c, i)
  BY <1>1 DEF DropPending, Object
<1> QED BY <1>2, <1>3, <1>4, <1>5, <1>6

LEMMA WorldObject ==
  ASSUME World, NEW m, NEW c \in Capsules, NEW i, i # Route, ObjectFits(m, c, i)
  PROVE  ObjectFits(m, c, i)'
<1>1. \A x \in exists' \ exists : x[2] = Route \/ MakePending(x[1], x[2])
  BY DEF World
<1>2. \A x \in exists \ exists' : x[2] = Route \/ DropPending(x[1], x[2])
  BY DEF World
<1>3. <<c, i>> \in exists' => <<c, i>> \in exists \/ MakePending(c, i)
  BY <1>1
<1>4. <<c, i>> \in exists => <<c, i>> \in exists' \/ DropPending(c, i)
  BY <1>2
<1> QED BY <1>3, <1>4, WorldSame DEF ObjectFits

LEMMA WorldObjects == ASSUME WholeInv, World PROVE ObjectsInv'
<1>1. UNCHANGED <<op, rows, capture>>
  BY DEF World
<1>2. ASSUME NEW c \in Capsules, NEW i \in Managed PROVE ObjectFits(rows[c][i], c, i)'
  <2>1. PICK m : m = rows[c][i]
    OBVIOUS
  <2>2. ObjectFits(m, c, i) /\ i # Route
    BY <2>1, ItemsDiffer DEF WholeInv, StaticInv, ObjectsInv
  <2>3. ObjectFits(m, c, i)'
    BY <2>2, WorldObject
  <2> QED BY <1>1, <2>1, <2>3
<1>3. ASSUME NEW p \in OpIds, NEW v \in Versioned, op[p].type = "snapshot_create"
      PROVE  ObjectFits(capture[p][v], CapsuleOf(p), Snapshot(v, p))'
  <2>1. op[p].status # "absent"
    BY <1>3, FreshSaysNothing
  <2>2. PICK c \in Capsules : c = CapsuleOf(p)
    BY <2>1, Typed DEF AcceptedOnly, CapsuleOf
  <2>3. PICK m : m = capture[p][v]
    OBVIOUS
  <2>4. ObjectFits(m, c, Snapshot(v, p)) /\ Snapshot(v, p) # Route
    BY <1>3, <2>2, <2>3, ItemsDiffer DEF WholeInv, StaticInv, ObjectsInv
  <2>5. ObjectFits(m, c, Snapshot(v, p))'
    BY <2>4, WorldObject
  <2>6. CapsuleOf(p)' = c /\ capture'[p][v] = m
    BY <1>1, <2>2, <2>3 DEF CapsuleOf
  <2> QED BY <2>5, <2>6
<1>4. \A p : op'[p].type = op[p].type
  BY <1>1
<1> QED BY <1>2, <1>3, <1>4 DEF ObjectsInv

(* Only the owner disturbs the objects of a capsule that is sound.            *)
LEMMA Undisturbed ==
  ASSUME WholeInv, NEW c \in Capsules, NEW o \in Owner(c), op[o].type # "create",
         ~(op[o].type = "destroy" /\ op[o].force), ~(op[o].type = "destroy" /\ op[o].intent),
         NEW i, i \notin Captured(o), i # Route
  PROVE  ~MakePending(c, i) /\ (<<c, i>> \in exists => ~DropPending(c, i))
<1>1. /\ o \in OpIds /\ op[o].status \in Nonterminal /\ CapsuleOf(o) = c
      /\ Owner(c) = {o} /\ op[o].type \in Types
  <2>1. o \in OpIds /\ op[o].status \in Nonterminal /\ CapsuleOf(o) = c
    BY DEF Owner, NonterminalOps
  <2> QED BY <2>1, OwnerKnows
<1>2. ~Demolished(c)
  BY <1>1, DemolishedOwner
<1>3. Sound(c)
  <2>1. op[o].type \in {"snapshot_create", "destroy"} \cup Archivals
    BY <1>1 DEF Types, Archivals
  <2>2. CASE op[o].type = "destroy"
    BY <2>2 DEF Sound
  <2>3. CASE op[o].type \in {"snapshot_create"} \cup Archivals
    <3>1. capsule[c].status \in {"active", "archiving", "unarchiving"}
      BY <1>1, <2>3, OwnedStatus
    <3> QED BY <3>1 DEF Sound
  <2> QED BY <2>1, <2>2, <2>3
<1>4. Made(c) /\ Settled(c)
  BY <1>3 DEF WholeInv, StaticInv, SoundInv
<1>5. ASSUME NEW p \in OpIds, CapsuleOf(p) = c, op[p].type = "snapshot_create", i \in Captured(p)
      PROVE  capture[p][i.name] \in {"planned", "created", "deleted", "missing"}
             /\ ObjectFits(capture[p][i.name], c, i)
  <2>1. p # o /\ i.name \in Versioned /\ i = Snapshot(i.name, p)
    BY <1>5, ItemsDiffer
  <2>2. op[p].status \notin Nonterminal
    BY <1>1, <1>5, <2>1 DEF Owner, NonterminalOps
  <2>3. op[p].status # "absent"
    BY <1>5, FreshSaysNothing
  <2>4. op[p] \in OpType
    BY Typed DEF RowsTyped
  <2>5. op[p].status \in Terminal
    BY <2>2, <2>3, <2>4, StatusesDiffer
  <2> QED BY <1>4, <1>5, <2>1, <2>5 DEF Settled, WholeInv, StaticInv, ObjectsInv
<1>6. ASSUME i \in Managed PROVE rows[c][i] = "created" /\ ObjectFits(rows[c][i], c, i)
  BY <1>4, <1>6 DEF Made, WholeInv, StaticInv, ObjectsInv
<1>7. ASSUME NEW call \in pending, call.capsule = c, call.item = i, call.verb # "stop"
      PROVE  \/ i \in Managed
             \/ \E p \in OpIds : CapsuleOf(p) = c /\ op[p].type = "snapshot_create" /\ i \in Captured(p)
  <2>1. CallFits(call) /\ call.op \in OpIds /\ CapsuleOf(call.op) = c
    BY <1>7, PendingKnows
  <2>2. ~(op[call.op].type = "destroy" /\ op[call.op].intent)
    BY <1>2, <2>1 DEF Demolished
  <2> QED BY <1>7, <2>1, <2>2 DEF CallFits
<1>8. ASSUME MakePending(c, i) PROVE FALSE
  <2>1. PICK call \in pending : call.verb = "make" /\ call.capsule = c /\ call.item = i
    BY <1>8, PendingMakes
  <2> QED BY <1>5, <1>6, <1>7, <1>8, <2>1 DEF ObjectFits
<1>9. ASSUME <<c, i>> \in exists, DropPending(c, i) PROVE FALSE
  <2>1. PICK call \in pending : call.verb = "drop" /\ call.capsule = c /\ call.item = i
    BY <1>9, PendingMakes
  <2> QED BY <1>2, <1>5, <1>6, <1>7, <1>9, <2>1 DEF ObjectFits
<1> QED BY <1>8, <1>9

LEMMA WorldGone == ASSUME WholeInv, World PROVE GoneLeavesNothing'
<1> SUFFICES ASSUME NEW c \in Capsules, capsule[c].status \in {"creation_failed", "destroyed"}
             PROVE  Leftovers(c)' = {}
  BY DEF World, GoneLeavesNothing
<1>1. Leftovers(c) = {}
  BY DEF WholeInv, StaticInv, GoneLeavesNothing
<1>2. \A x \in exists : x[1] # c
  BY <1>1 DEF Leftovers
<1>3. \A call \in pending : ~(call.verb = "make" /\ call.capsule = c)
  BY <1>1 DEF Leftovers
<1>4. \A i : ~MakePending(c, i)
  BY <1>3, PendingMakes
<1>5. \A x \in exists' \ exists : x[1] # c
  BY <1>4 DEF World
<1>6. pending' \subseteq pending
  BY DEF World
<1> QED BY <1>2, <1>3, <1>5, <1>6 DEF Leftovers

LEMMA WorldBefore == ASSUME WholeInv, World PROVE BeforeInv'
<1> SUFFICES ASSUME NEW c \in Capsules, NEW o \in Owner(c),
                    op[o].type # "create" /\ ~(op[o].type = "destroy" /\ op[o].force),
                    ~(op[o].type = "destroy" /\ op[o].intent)
             PROVE  {x \in exists' : x[1] = c /\ x[2] # Route /\ x[2] \notin Captured(o)}
                      = {x \in exists : x[1] = c /\ x[2] # Route /\ x[2] \notin Captured(o)}
  <2>1. UNCHANGED <<op, target>> /\ history'.before = history.before
    BY DEF World
  <2>2. \A c \in Capsules : \A o \in Owner(c) :
          op[o].type # "create" /\ ~(op[o].type = "destroy" /\ op[o].force) =>
            /\ history.before[c].capsule = Prior(o)
            /\ ~(op[o].type = "destroy" /\ op[o].intent) =>
                 history.before[c].objects
                   = {x \in exists : x[1] = c /\ x[2] # Route /\ x[2] \notin Captured(o)}
            /\ ~(op[o].type = "destroy" /\ HasPlan(o)) => history.before[c].usable = Usable(c)
    BY DEF WholeInv, StaticInv, BeforeInv
  <2>3. \A o : Prior(o)' = Prior(o) /\ (HasPlan(o)' <=> HasPlan(o))
    BY <2>1 DEF Prior, HasPlan
  <2> QED BY <2>1, <2>2, <2>3, WorldSame DEF BeforeInv
<1>1. exists \subseteq Capsules \X Items /\ exists' \subseteq Capsules \X Items
  BY Typed DEF ProviderTyped, World
<1>2. ASSUME NEW x \in exists', x[1] = c, x[2] # Route, x[2] \notin Captured(o) PROVE x \in exists
  <2>1. ~MakePending(c, x[2])
    BY <1>2, Undisturbed
  <2> QED BY <1>2, <2>1 DEF World
<1>3. ASSUME NEW x \in exists, x[1] = c, x[2] # Route, x[2] \notin Captured(o) PROVE x \in exists'
  <2>1. x = <<c, x[2]>>
    BY <1>1, <1>3
  <2>2. ~DropPending(c, x[2])
    BY <1>3, <2>1, Undisturbed
  <2> QED BY <1>3, <2>2 DEF World
<1> QED BY <1>2, <1>3

LEMMA WorldKeeps ==
  ASSUME WholeInv, World, \A p \in OpIds : op[p].status = "absent" => exec'[p] = Idle
  PROVE  StaticInv'
<1>1. /\ UNCHANGED <<op, rows, capture, snapshot, target>> /\ pending' \subseteq pending
      /\ exists' \subseteq Capsules \X Items
      /\ \A c \in Capsules : capsule'[c].status = capsule[c].status
  BY DEF World
<1>2. FreshInv'
  BY <1>1 DEF WholeInv, StaticInv, FreshInv
<1>3. CallsInv'
  BY <1>1, WorldSame, CallsKeep
<1>4. ASSUME NEW c, NEW i, MakePending(c, i) PROVE i # Route /\ ThingFits(c, i)
  <2>1. PICK call \in pending : call.verb = "make" /\ call.capsule = c /\ call.item = i
    BY <1>4, PendingMakes
  <2>2. call.op \in OpIds /\ CapsuleOf(call.op) = c
    BY <2>1, PendingKnows
  <2>3. i \in Managed \/ (op[call.op].type = "snapshot_create" /\ i \in Captured(call.op))
    BY <2>1, MakingKnows
  <2> QED BY <2>2, <2>3, ItemsDiffer DEF ThingFits
<1>5. ThingsInv'
  <2>1. \A x \in exists' : x \in exists \/ ThingFits(x[1], x[2])
    BY <1>4 DEF World, ThingFits
  <2>2. \A c, i : ThingFits(c, i)' <=> ThingFits(c, i)
    BY <1>1 DEF ThingFits, CapsuleOf
  <2> QED BY <2>1, <2>2, WorldSame, ThingsKeep
<1>6. YoungInv'
  <2> SUFFICES ASSUME NEW c \in Capsules, capsule[c].status \in {"absent", "provisioning"}
               PROVE  <<c, Route>> \notin exists'
    BY <1>1, WorldSame DEF WholeInv, StaticInv, YoungInv
  <2>1. <<c, Route>> \notin exists
    BY DEF WholeInv, StaticInv, YoungInv
  <2>2. ~MakePending(c, Route)
    BY <1>4
  <2> QED BY <2>1, <2>2 DEF World
<1>7. DemolishedInv'
  BY <1>1, WorldSame DEF WholeInv, StaticInv, DemolishedInv
<1>8. SoundInv'
  <2>1. \A c \in Capsules : (Sound(c)' <=> Sound(c)) /\ (Made(c)' <=> Made(c)) /\ (Settled(c)' <=> Settled(c))
    BY <1>1, WorldSame DEF Sound, Made, Settled
  <2> QED BY <2>1 DEF WholeInv, StaticInv, SoundInv
<1>9. ASSUME NEW p \in history'.dirty, p \notin history.dirty
      PROVE  /\ p \in OpIds /\ op[p].intent /\ op[p].type = "snapshot_create"
             /\ ~AllCaptures(p, {"created"})
  <2>1. PICK call \in pending : call.verb = "make" /\ call.op = p /\ call.item.kind = "snapshot"
    BY <1>9 DEF World
  <2>2. p \in OpIds /\ CallFits(call)
    BY <2>1, PendingKnows
  <2>3. call.item \notin Managed
    BY <2>1, ItemsDiffer
  <2>4. op[p].type = "snapshot_create" /\ call.item \in Captured(p)
        /\ capture[p][call.item.name] \in {"creating", "error"}
    BY <2>1, <2>3, MakingKnows
  <2>5. call.item.name \in Versioned
    BY <2>2, <2>4, ItemsDiffer
  <2> QED BY <2>1, <2>2, <2>4, <2>5 DEF CallFits, AllCaptures
<1>10. DirtyInv'
  BY <1>1, <1>9 DEF WholeInv, StaticInv, DirtyInv
<1>11. CommittedInv'
  <2> SUFFICES ASSUME NEW o \in OpIds, snapshot[o] # "none"
               PROVE  /\ op[o].type = "snapshot_create" /\ op[o].status = "completed"
                      /\ AllCaptures(o, {"created"})
                      /\ o \in history'.dirty => history'.drifts >= 2
    BY <1>1 DEF CommittedInv, AllCaptures
  <2>1. /\ op[o].type = "snapshot_create" /\ op[o].status = "completed"
        /\ AllCaptures(o, {"created"}) /\ (o \in history.dirty => history.drifts >= 2)
    BY DEF WholeInv, StaticInv, CommittedInv
  <2>2. history.drifts \in Nat /\ history'.drifts \in Nat /\ history'.drifts >= history.drifts
    BY Typed DEF HistoryType, World
  <2> QED BY <1>9, <2>1, <2>2
<1>12. TargetsInv'
  <2> SUFFICES ASSUME NEW d \in OpIds, op[d].type = "destroy"
               PROVE  /\ HasPlan(d) /\ op[d].status \in Nonterminal =>
                           Targets(CapsuleOf(d))' \subseteq DOMAIN target[d]
                      /\ \A i \in DOMAIN target[d] : target[d][i] \in {"absent", "deleted"} =>
                           /\ op[d].intent
                           /\ <<CapsuleOf(d), i>> \notin exists'
                           /\ ~MakePending(CapsuleOf(d), i)
    BY <1>1, WorldSame DEF TargetsInv, HasPlan, CapsuleOf
  <2>1. /\ HasPlan(d) /\ op[d].status \in Nonterminal =>
             Targets(CapsuleOf(d)) \subseteq DOMAIN target[d]
        /\ \A i \in DOMAIN target[d] : target[d][i] \in {"absent", "deleted"} =>
             op[d].intent /\ <<CapsuleOf(d), i>> \notin exists /\ ~MakePending(CapsuleOf(d), i)
    BY DEF WholeInv, StaticInv, TargetsInv
  <2>2. Targets(CapsuleOf(d))' = Targets(CapsuleOf(d))
    BY <1>1 DEF Targets, CapsuleOf
  <2>3. ASSUME NEW i \in DOMAIN target[d], target[d][i] \in {"absent", "deleted"}
        PROVE  <<CapsuleOf(d), i>> \notin exists'
    <3>1. PICK c : c = CapsuleOf(d)
      OBVIOUS
    <3>2. op[d].status # "absent"
      BY FreshSaysNothing
    <3>3. c \in Capsules /\ Demolished(c)
      BY <2>1, <2>3, <3>1, <3>2, Typed DEF Demolished, AcceptedOnly, CapsuleOf
    <3>4. capsule[c].status # "active"
      BY <3>3 DEF WholeInv, StaticInv, DemolishedInv, Doomed
    <3>5. <<c, i>> \notin exists /\ ~MakePending(c, i)
      BY <2>1, <2>3, <3>1
    <3>6. <<c, i>> \notin exists'
      BY <3>4, <3>5 DEF World
    <3> QED BY <3>1, <3>6
  <2> QED BY <2>1, <2>2, <2>3
<1> QED
  BY <1>2, <1>3, <1>5, <1>6, <1>7, <1>8, <1>10, <1>11, <1>12, WorldObjects, WorldBefore, WorldGone
     DEF StaticInv

(* The executors that wait for the provider belong to running operations.     *)
LEMMA WaitsOpen ==
  ASSUME WholeInv, NEW p \in OpIds, op[p].type \in {"create", "snapshot_create"},
         \/ exec[p].step \in CallSteps
         \/ op[p].type = "snapshot_create" /\ exec[p].step \in CaptureSteps
  PROVE  op[p].status \in Nonterminal /\ ~Demolished(CapsuleOf(p))
<1>1. exec[p].step # "none"
  BY DEF CallSteps, CaptureSteps
<1>2. Agrees(op[p], exec[p], Seen(p)) /\ ExecFits(p, exec[p])
  BY <1>1, AtStep DEF WholeInv, ExecsInv
<1>3. op[p].status = "running"
  <2>1. CASE exec[p].step \in CallSteps
    <3>1. exec[p].step \in ArmedSteps(op[p].type)
      BY <2>1 DEF ArmedSteps
    <3> QED BY <1>2, <3>1 DEF Agrees
  <2>2. CASE op[p].type = "snapshot_create" /\ exec[p].step = "begin"
    BY <1>2, <2>2 DEF ExecFits, SnapshotFits
  <2> QED BY <2>1, <2>2 DEF CaptureSteps, CallSteps
<1>4. op[p].status \in Nonterminal
  BY <1>3 DEF Nonterminal
<1> QED BY <1>4, DemolishedOwner

(* What an answer says of the object it is about.                            *)
Answered(p) ==
  LET e == exec[p]  c == CapsuleOf(p)  r == exec'[p].reply IN
  /\ exec'[p].step = e.step /\ exec'[p].item = e.item /\ exec'[p].scope = e.scope
  /\ \/ r = e.reply
     \/ /\ e.step \in {"await", "await_stop", "await_delete"}
        /\ op[p].type \in {"create", "snapshot_create"} => \A d, i : d = c /\ i = e.item =>
             /\ e.step = "await" /\ r = "ok" => <<d, i>> \in exists' /\ ~MakePending(d, i)'
             /\ e.step = "await_delete" /\ r \in {"ok", "missing"} => <<d, i>> \notin exists'

LEMMA WorldWorking ==
  ASSUME WholeInv, World, NEW p \in OpIds, op[p].type \in {"create", "snapshot_create"}, Answered(p),
         NEW c, c = CapsuleOf(p), NEW i, i = exec[p].item, i # Route, NEW m, ObjectFits(m, c, i),
         c \in Capsules, Working(c, i, exec[p], m)
  PROVE  Working(c, i, exec[p], m)'
<1>1. PICK e : e = exec[p]
  OBVIOUS
<1>2. PICK f : f = exec'[p]
  OBVIOUS
<1>3. /\ f.step = e.step
      /\ \/ f.reply = e.reply
         \/ /\ e.step = "await" /\ f.reply = "ok" => <<c, i>> \in exists' /\ ~MakePending(c, i)'
            /\ e.step = "await_delete" /\ f.reply \in {"ok", "missing"} => <<c, i>> \notin exists'
            /\ e.step \in {"await", "await_stop", "await_delete"}
  BY <1>1, <1>2 DEF Answered
<1>4. e.step \in {"await", "record"} => ~Demolished(c)
  BY <1>1, WaitsOpen DEF CallSteps
<1>5. <<c, i>> \in exists /\ m = "creating" /\ ~Demolished(c) => <<c, i>> \in exists'
  BY DEF ObjectFits, World
<1>6. <<c, i>> \notin exists /\ m = "deleting" => <<c, i>> \notin exists'
  BY DEF ObjectFits, World
<1>7. MakePending(c, i)' => MakePending(c, i)
  BY WorldSame
<1>8. /\ e.step \in {"call", "await", "record"} => m = "creating"
      /\ e.step = "record" \/ (e.step = "await" /\ e.reply = "ok") =>
           <<c, i>> \in exists /\ ~MakePending(c, i)
      /\ e.step \in {"delete", "await_delete"} => m = "deleting"
      /\ e.step = "await_delete" /\ e.reply \in {"ok", "missing"} => <<c, i>> \notin exists
  BY <1>1 DEF Working
<1>9. /\ f.step \in {"call", "await", "record"} => m = "creating"
      /\ f.step \in {"delete", "await_delete"} => m = "deleting"
  BY <1>3, <1>8
<1>10. f.step = "record" \/ (f.step = "await" /\ f.reply = "ok") =>
         <<c, i>> \in exists' /\ ~MakePending(c, i)'
  BY <1>3, <1>4, <1>5, <1>7, <1>8
<1>11. f.step = "await_delete" /\ f.reply \in {"ok", "missing"} => <<c, i>> \notin exists'
  BY <1>3, <1>6, <1>8
<1>12. Working(c, i, f, m)'
  BY <1>9, <1>10, <1>11 DEF Working
<1> QED BY <1>2, <1>12

LEMMA WorldDirty ==
  ASSUME WholeInv, World, NEW p \in OpIds, op[p].type = "snapshot_create", Answered(p)
  PROVE  DirtyFits(p, exec[p])'
<1>1. PICK c : c = CapsuleOf(p)
  OBVIOUS
<1>2. PICK e : e = exec[p]
  OBVIOUS
<1>3. exec'[p].step = e.step /\ UNCHANGED capture /\ CapsuleOf(p)' = c
  BY <1>1, <1>2, WorldSame DEF Answered, World
<1>4. DirtyFits(p, e)
  BY <1>2 DEF WholeInv, ExecsInv, ExecFits, SnapshotFits
<1>5. history.drifts \in Nat /\ history'.drifts \in Nat /\ history'.drifts >= history.drifts
  BY Typed DEF HistoryType, World
<1>6. ASSUME p \in history'.dirty, p \notin history.dirty
      PROVE  c \in running /\ ~AllCaptures(p, {"created"})
  <2>1. c \in running /\ \E call \in pending : call.verb = "make" /\ call.op = p /\ call.item.kind = "snapshot"
    BY <1>1, <1>6 DEF World
  <2>2. PICK call \in pending : call.verb = "make" /\ call.op = p /\ call.item.kind = "snapshot"
    BY <2>1
  <2>3. call.item \notin Managed
    BY <2>2, ItemsDiffer
  <2>4. call.item \in Captured(p) /\ capture[p][call.item.name] \in {"creating", "error"}
    BY <2>2, <2>3, MakingKnows
  <2>5. call.item.name \in Versioned
    BY <2>4, ItemsDiffer
  <2> QED BY <2>1, <2>4, <2>5 DEF AllCaptures
<1>7. ASSUME e.step \in CaptureSteps
      PROVE  /\ c \in running' => history'.drifts >= 1
             /\ p \in history'.dirty =>
                  history'.drifts >= 2 \/ (history'.drifts >= 1 /\ c \in running')
  <2>1. op[p].status \in Nonterminal /\ ~Demolished(c)
    BY <1>1, <1>2, <1>7, WaitsOpen
  <2>2. c \in Capsules /\ p \in Owner(c)
    BY <1>1, <2>1, OwnerKnows
  <2>3. (c \in running' <=> c \in running) \/ history'.drifts > history.drifts
    BY <2>1, <2>2 DEF World
  <2>4. /\ c \in running => history.drifts >= 1
        /\ p \in history.dirty => history.drifts >= 2 \/ (history.drifts >= 1 /\ c \in running)
    BY <1>1, <1>4, <1>7 DEF DirtyFits
  <2> QED BY <1>5, <1>6, <2>3, <2>4
<1>8. ASSUME e.step = "commit", AllCaptures(p, {"created"}), p \in history'.dirty
      PROVE  history'.drifts >= 2
  <2>1. p \in history.dirty
    BY <1>6, <1>8
  <2> QED BY <1>4, <1>5, <1>8, <2>1 DEF DirtyFits
<1>9. AllCaptures(p, {"created"})' <=> AllCaptures(p, {"created"})
  BY <1>3 DEF AllCaptures
<1> QED BY <1>3, <1>7, <1>8, <1>9 DEF DirtyFits

LEMMA WorldExec ==
  ASSUME WholeInv, World, NEW p \in OpIds, op[p].status # "absent", Answered(p)
  PROVE  ExecFits(p, exec[p])'
<1>1. PICK c \in Capsules : c = CapsuleOf(p)
  BY Typed DEF AcceptedOnly, CapsuleOf
<1>2. PICK e : e = exec[p]
  OBVIOUS
<1>3. PICK f : f = exec'[p]
  OBVIOUS
<1>4. /\ f.step = e.step /\ f.item = e.item /\ f.scope = e.scope
      /\ f.reply = e.reply \/ e.step \in {"await", "await_stop", "await_delete"}
      /\ UNCHANGED <<op, rows, capture>> /\ CapsuleOf(p)' = c /\ Usable(c)' = Usable(c)
  BY <1>1, <1>2, <1>3, WorldSame DEF Answered, World
<1>5. ExecFits(p, e)
  BY <1>2 DEF WholeInv, ExecsInv
<1>6. Waits(e) => Waits(f)
  BY <1>4 DEF Waits
<1>7. CASE op[p].type = "create"
  <2>1. CreateFits(p, e)
    BY <1>5, <1>7 DEF ExecFits
  <2>2. Waits(f) /\ (f.step \in {"await", "delete", "await_delete"} => f.item \in Managed)
    BY <1>4, <1>6, <2>1 DEF CreateFits
  <2>3. ASSUME e.item \in Managed PROVE Working(c, e.item, f, rows[c][e.item])'
    <3>1. PICK m : m = rows[c][e.item]
      OBVIOUS
    <3>2. Working(c, e.item, e, m) /\ ObjectFits(m, c, e.item) /\ e.item # Route
      BY <1>1, <2>1, <2>3, <3>1, ItemsDiffer DEF CreateFits, WholeInv, StaticInv, ObjectsInv
    <3>3. PICK i : i = e.item
      OBVIOUS
    <3>4. Working(c, i, exec[p], m)'
      BY <1>1, <1>2, <1>7, <3>2, <3>3, WorldWorking
    <3>5. Working(c, e.item, f, m)'
      BY <1>3, <3>3, <3>4
    <3>6. rows'[c][e.item] = m
      BY <1>4, <3>1
    <3> QED BY <3>5, <3>6
  <2>4. CreateFits(p, f)'
    BY <1>4, <2>2, <2>3 DEF CreateFits, Waits
  <2> QED BY <1>3, <1>4, <1>7, <2>4 DEF ExecFits
<1>8. CASE op[p].type = "snapshot_create"
  <2>1. SnapshotFits(p, e)
    BY <1>5, <1>8 DEF ExecFits
  <2>2. DirtyFits(p, f)'
    <3>1. DirtyFits(p, exec[p])'
      BY <1>8, WorldDirty
    <3> QED BY <1>3, <3>1
  <2>3. ASSUME e.step \in {"call", "await", "record", "delete", "await_delete"}
        PROVE  e.item \in Captured(p) /\ Working(c, e.item, f, capture[p][e.item.name])'
    <3>1. e.item \in Captured(p) /\ Working(c, e.item, e, capture[p][e.item.name])
      BY <1>1, <2>1, <2>3 DEF SnapshotFits
    <3>2. PICK m : m = capture[p][e.item.name]
      OBVIOUS
    <3>3. e.item # Route /\ e.item.name \in Versioned /\ e.item = Snapshot(e.item.name, p)
      BY <3>1, ItemsDiffer
    <3>4. ObjectFits(m, c, e.item)
      BY <1>1, <1>8, <3>2, <3>3 DEF WholeInv, StaticInv, ObjectsInv
    <3>5. PICK i : i = e.item
      OBVIOUS
    <3>6. Working(c, i, exec[p], m)'
      BY <1>1, <1>2, <1>8, <3>1, <3>2, <3>3, <3>4, <3>5, WorldWorking
    <3>7. Working(c, e.item, f, m)'
      BY <1>3, <3>5, <3>6
    <3>8. capture'[p][e.item.name] = m
      BY <1>4, <3>2
    <3> QED BY <3>1, <3>7, <3>8
  <2>4. /\ Waits(f)
        /\ f.step \in {"revoke", "verify", "begin", "commit"} => op[p].status = "running"
        /\ f.step \in {"revoke", "verify"} => ~op[p].intent
        /\ f.step \in {"compensate", "delete", "await_delete"} => f.scope \subseteq Captured(p)
    BY <1>4, <1>6, <2>1 DEF SnapshotFits
  <2>5. SnapshotFits(p, f)'
    <3>1. Captured(p)' = Captured(p)
      BY DEF Captured
    <3> QED BY <1>4, <2>2, <2>3, <2>4, <3>1 DEF SnapshotFits, Waits
  <2> QED BY <1>3, <1>4, <1>8, <2>5 DEF ExecFits
<1>9. CASE op[p].type = "destroy"
  <2>1. DestroyFits(p, f)'
    BY <1>1, <1>4, <1>5, <1>9 DEF ExecFits, DestroyFits
  <2> QED BY <1>3, <1>4, <1>9, <2>1 DEF ExecFits
<1>10. CASE op[p].type \notin {"create", "snapshot_create", "destroy"}
  BY <1>4, <1>10 DEF ExecFits
<1> QED BY <1>7, <1>8, <1>9, <1>10

LEMMA WorldWorks ==
  ASSUME WholeInv, World,
         \A p \in OpIds : IF op[p].status = "absent" THEN exec'[p] = Idle ELSE Answered(p)
  PROVE  StaticInv' /\ ExecsInv'
<1>1. StaticInv'
  BY WorldKeeps
<1>2. ASSUME NEW p \in OpIds PROVE ExecFits(p, exec[p])'
  <2>1. CASE op[p].status = "absent"
    <3>1. op'[p].type = "none"
      BY <2>1, FreshSaysNothing DEF World
    <3> QED BY <3>1 DEF ExecFits
  <2>2. CASE op[p].status # "absent"
    BY <2>2, WorldExec
  <2> QED BY <2>1, <2>2
<1> QED BY <1>1, <1>2 DEF ExecsInv

(* A step that leaves the executors alone.                                    *)
LEMMA SameAnswers ==
  ASSUME WholeInv, UNCHANGED exec
  PROVE  \A p \in OpIds : IF op[p].status = "absent" THEN exec'[p] = Idle ELSE Answered(p)
<1>1. \A p \in OpIds : op[p].status = "absent" => exec'[p] = Idle
  BY FreshSaysNothing
<1>2. \A p \in OpIds : Answered(p)
  BY DEF Answered
<1> QED BY <1>1, <1>2

LEMMA MakeIsUnique ==
  ASSUME WholeInv, NEW call \in pending, NEW other \in pending,
         call.verb = "make", other.verb = "make", Object(call) = Object(other)
  PROVE  call = other
<1>1. /\ call \in CallType /\ other \in CallType
      /\ call.op \in OpIds /\ CapsuleOf(call.op) = call.capsule
      /\ other.op \in OpIds /\ CapsuleOf(other.op) = other.capsule
  BY PendingKnows, Typed DEF ProviderTyped
<1>2. call.capsule = other.capsule /\ call.item = other.item
  BY DEF Object
<1>3. call.op = other.op
  <2>1. CASE call.item \in Managed
    <3>1. call.item \notin Captured(call.op) /\ other.item \notin Captured(other.op)
      BY <1>1, <1>2, <2>1, ItemsDiffer
    <3>2. op[call.op].type = "create" /\ op[other.op].type = "create"
      BY <3>1, MakingKnows
    <3>3. call.capsule \in Capsules
      BY PendingKnows
    <3> QED BY <1>1, <1>2, <3>2, <3>3 DEF WholeInv, StaticInv, YoungInv
  <2>2. CASE call.item \notin Managed
    <3>1. call.item \in Captured(call.op) /\ call.item \in Captured(other.op)
      BY <1>2, <2>2, MakingKnows
    <3> QED BY <1>1, <3>1, CapturedApart
  <2> QED BY <2>1, <2>2
<1> QED BY <1>1, <1>2, <1>3 DEF CallType

LEMMA LandIsWorld ==
  ASSUME WholeInv, NEW call \in pending, Land(call)
  PROVE  World
<1>1. /\ exists \subseteq Capsules \X Items /\ history \in HistoryType
      /\ call.capsule \in Capsules /\ call.item \in Items /\ call.op \in OpIds
      /\ call.verb \in {"make", "drop", "stop"} /\ CallFits(call) /\ call.capsule = CapsuleOf(call.op)
  BY PendingKnows, Typed DEF ProviderTyped
<1>2. /\ UNCHANGED <<op, capsule, rows, capture, snapshot, target>> /\ pending' \subseteq pending
  BY DEF Land, rowVars
<1>3. /\ call.verb = "make" => exists' = exists \cup {<<call.capsule, call.item>>}
      /\ call.verb = "drop" => exists' = exists \ {<<call.capsule, call.item>>}
      /\ call.verb = "stop" => exists' = exists
  BY <1>1 DEF Land, Object
<1>4. exists' \subseteq Capsules \X Items
  BY <1>1, <1>3
<1>5. \A x \in exists' \ exists : MakePending(x[1], x[2])
  BY <1>1, <1>3, PendingMakes
<1>6. \A x \in exists \ exists' : DropPending(x[1], x[2])
  BY <1>1, <1>3, PendingMakes
<1>7. /\ history'.before = history.before /\ history'.drifts = history.drifts /\ history.drifts \in Nat
      /\ \/ history'.dirty = history.dirty
         \/ /\ history'.dirty = history.dirty \cup {call.op}
            /\ call.verb = "make" /\ call.item.kind = "snapshot" /\ call.capsule \in running
  BY <1>1 DEF Land, HistoryType
<1>8. \A p \in history'.dirty \ history.dirty :
        /\ CapsuleOf(p) \in running
        /\ \E k \in pending : k.verb = "make" /\ k.op = p /\ k.item.kind = "snapshot"
  BY <1>1, <1>7
<1>9. \A c \in Capsules : (c \in running' <=> c \in running) \/ Demolished(c)
  <2>1. CASE call.verb # "stop"
    BY <2>1 DEF Land
  <2>2. CASE call.verb = "stop"
    <3>1. op[call.op].type = "destroy" /\ op[call.op].intent
      BY <1>1, <2>2 DEF CallFits
    <3>2. Demolished(call.capsule)
      BY <1>1, <3>1 DEF Demolished
    <3>3. running' = running \ {call.capsule}
      BY <2>2 DEF Land
    <3> QED BY <3>2, <3>3
  <2> QED BY <2>1, <2>2
<1> QED BY <1>2, <1>4, <1>5, <1>6, <1>7, <1>8, <1>9 DEF World

LEMMA LandAnswers ==
  ASSUME WholeInv, NEW call \in pending, Land(call)
  PROVE  \A p \in OpIds : IF op[p].status = "absent" THEN exec'[p] = Idle ELSE Answered(p)
<1>1. /\ call.capsule \in Capsules /\ call.item \in Items /\ call.op \in OpIds
      /\ call.verb \in {"make", "drop", "stop"} /\ CallFits(call) /\ call.capsule = CapsuleOf(call.op)
  BY PendingKnows
<1>2. exec \in [OpIds -> ExecType]
  BY Typed DEF ProcessTyped
<1>3. CASE ~Awaits(call.op, call.item)
  <2>1. UNCHANGED exec
    BY <1>3 DEF Land, Answer
  <2> QED BY <2>1, SameAnswers
<1>4. CASE Awaits(call.op, call.item)
  <2> DEFINE o == call.op
             r == IF call.verb = "drop" /\ Object(call) \notin exists THEN "missing" ELSE "ok"
  <2>1. exec' = [exec EXCEPT ![o].reply = r]
    BY <1>4 DEF Land, Answer
  <2>2. /\ exec'[o].step = exec[o].step /\ exec'[o].item = exec[o].item
        /\ exec'[o].scope = exec[o].scope /\ exec'[o].reply = r
        /\ \A p \in OpIds \ {o} : exec'[p] = exec[p]
    BY <1>1, <1>2, <2>1 DEF ExecType
  <2>3. exec[o].step \in {"await", "await_stop", "await_delete"} /\ exec[o].item = call.item
    BY <1>4 DEF Awaits
  <2>4. op[o].status # "absent"
    BY <1>1, PendingKnows
  <2>5. ASSUME NEW p \in OpIds \ {o}
        PROVE  IF op[p].status = "absent" THEN exec'[p] = Idle ELSE Answered(p)
    <3>1. op[p].status = "absent" => exec'[p] = Idle
      BY <2>2, FreshSaysNothing
    <3>2. Answered(p)
      BY <2>2 DEF Answered
    <3> QED BY <3>1, <3>2
  <2>6. ASSUME op[o].type \in {"create", "snapshot_create"}
        PROVE  /\ exec[o].step = "await" =>
                    /\ <<call.capsule, call.item>> \in exists'
                    /\ ~MakePending(call.capsule, call.item)'
               /\ exec[o].step = "await_delete" => <<call.capsule, call.item>> \notin exists'
    <3>1. PICK m : /\ exec[o].step = "await" => m = "creating"
                   /\ exec[o].step = "await_delete" => m = "deleting"
                   /\ ObjectFits(m, call.capsule, call.item)
      <4>1. ExecFits(o, exec[o])
        BY <1>1 DEF WholeInv, ExecsInv
      <4>2. CASE op[o].type = "create" /\ exec[o].step \in {"await", "await_delete"}
        <5>1. call.item \in Managed
              /\ Working(call.capsule, call.item, exec[o], rows[call.capsule][call.item])
          BY <1>1, <2>3, <4>1, <4>2 DEF ExecFits, CreateFits
        <5>2. ObjectFits(rows[call.capsule][call.item], call.capsule, call.item)
          BY <1>1, <5>1 DEF WholeInv, StaticInv, ObjectsInv
        <5> QED BY <4>2, <5>1, <5>2 DEF Working
      <4>3. CASE op[o].type = "snapshot_create" /\ exec[o].step \in {"await", "await_delete"}
        <5>1. call.item \in Captured(o)
              /\ Working(call.capsule, call.item, exec[o], capture[o][call.item.name])
          BY <1>1, <2>3, <4>1, <4>3 DEF ExecFits, SnapshotFits
        <5>2. call.item.name \in Versioned /\ call.item = Snapshot(call.item.name, o)
          BY <1>1, <5>1, ItemsDiffer
        <5>3. ObjectFits(capture[o][call.item.name], call.capsule, call.item)
          BY <1>1, <4>3, <5>2 DEF WholeInv, StaticInv, ObjectsInv
        <5> QED BY <4>3, <5>1, <5>3 DEF Working
      <4>4. CASE exec[o].step \notin {"await", "await_delete"}
        <5>1. call.item \in Managed \/ call.item \in Captured(o)
          BY <1>1, <2>6 DEF CallFits
        <5>2. CASE call.item \in Managed
          <6>1. ObjectFits(rows[call.capsule][call.item], call.capsule, call.item)
            BY <1>1, <5>2 DEF WholeInv, StaticInv, ObjectsInv
          <6> QED BY <4>4, <6>1
        <5>3. CASE call.item \in Captured(o) /\ call.item \notin Managed
          <6>1. op[o].type = "snapshot_create" /\ call.item.name \in Versioned
                /\ call.item = Snapshot(call.item.name, o)
            BY <1>1, <2>6, <5>3, ItemsDiffer DEF CallFits
          <6>2. ObjectFits(capture[o][call.item.name], call.capsule, call.item)
            BY <1>1, <6>1 DEF WholeInv, StaticInv, ObjectsInv
          <6> QED BY <4>4, <6>2
        <5> QED BY <5>1, <5>2, <5>3
      <4> QED BY <2>6, <4>2, <4>3, <4>4
    <3>2. exec[o].step \in {"await", "await_delete"} => ~Demolished(call.capsule)
      BY <1>1, <2>6, WaitsOpen DEF CallSteps
    <3>3. call.verb = "make" => MakePending(call.capsule, call.item)
      BY PendingMakes
    <3>4. call.verb = "drop" => DropPending(call.capsule, call.item)
      BY PendingMakes
    <3>5. call.verb # "stop"
      BY <1>1, <2>6 DEF CallFits
    <3>6. exec[o].step = "await" => call.verb = "make"
      BY <1>1, <3>1, <3>2, <3>4, <3>5 DEF ObjectFits
    <3>7. exec[o].step = "await_delete" => call.verb = "drop"
      BY <1>1, <3>1, <3>3, <3>5 DEF ObjectFits
    <3>8. call.verb = "make" => <<call.capsule, call.item>> \in exists'
      BY DEF Land, Object
    <3>9. call.verb = "drop" => <<call.capsule, call.item>> \notin exists'
      BY DEF Land, Object
    <3>10. ASSUME call.verb = "make" PROVE ~MakePending(call.capsule, call.item)'
      <4>1. pending' = pending \ {call}
        BY DEF Land
      <4> QED BY <3>10, <4>1, MakeIsUnique DEF MakePending, Object
    <3> QED BY <3>6, <3>7, <3>8, <3>9, <3>10
  <2>7. Answered(o)
    BY <1>1, <2>2, <2>3, <2>6 DEF Answered
  <2> QED BY <2>4, <2>5, <2>7
<1> QED BY <1>3, <1>4

LEMMA RefuseIsWorld ==
  ASSUME WholeInv, NEW call \in pending, Refuse(call)
  PROVE  /\ World
         /\ \A p \in OpIds : IF op[p].status = "absent" THEN exec'[p] = Idle ELSE Answered(p)
<1>1. call.op \in OpIds /\ op[call.op].status # "absent"
  BY PendingKnows
<1>2. exec \in [OpIds -> ExecType] /\ exists \subseteq Capsules \X Items /\ history \in HistoryType
  BY Typed DEF ProcessTyped, ProviderTyped
<1>3. World
  BY <1>2 DEF Refuse, rowVars, World, HistoryType
<1>4. ASSUME NEW p \in OpIds
      PROVE  IF op[p].status = "absent" THEN exec'[p] = Idle ELSE Answered(p)
  <2>1. CASE ~Awaits(call.op, call.item)
    <3>1. UNCHANGED exec
      BY <2>1 DEF Refuse, Answer
    <3> QED BY <3>1, SameAnswers
  <2>2. CASE Awaits(call.op, call.item)
    <3>1. exec' = [exec EXCEPT ![call.op].reply = "refused"]
      BY <2>2 DEF Refuse, Answer
    <3>2. /\ exec'[call.op].step = exec[call.op].step /\ exec'[call.op].item = exec[call.op].item
          /\ exec'[call.op].scope = exec[call.op].scope /\ exec'[call.op].reply = "refused"
          /\ \A q \in OpIds \ {call.op} : exec'[q] = exec[q]
      BY <1>1, <1>2, <3>1 DEF ExecType
    <3>3. CASE p = call.op
      <4>1. Answered(p)
        BY <2>2, <3>2, <3>3 DEF Answered, Awaits
      <4> QED BY <1>1, <3>3, <4>1
    <3>4. CASE p # call.op
      <4>1. op[p].status = "absent" => exec'[p] = Idle
        BY <3>2, <3>4, FreshSaysNothing
      <4>2. Answered(p)
        BY <3>2, <3>4 DEF Answered
      <4> QED BY <4>1, <4>2
    <3> QED BY <3>3, <3>4
  <2> QED BY <2>1, <2>2
<1> QED BY <1>3, <1>4

LEMMA BranchIsWorld ==
  ASSUME WholeInv, NEW c \in Capsules, BranchStarts(c) \/ BranchStops(c) \/ RuntimeDrifts(c)
  PROVE  World /\ UNCHANGED exec
<1>1. /\ exists \subseteq Capsules \X Items /\ history \in HistoryType
      /\ capsule \in [Capsules -> CapsuleType] /\ Route \in Items
  BY Typed, ItemsContain DEF ProviderTyped, RowsTyped
<1>2. history.drifts \in Nat
  BY <1>1 DEF HistoryType
<1>3. CASE BranchStarts(c)
  <2>1. /\ Owner(c) = {} /\ capsule[c].status = "active" /\ capsule[c] \in CapsuleType
        /\ capsule' = [capsule EXCEPT ![c].branch = "online"]
    BY <1>1, <1>3 DEF BranchStarts, Unattended
  <2>2. \A d \in Capsules : capsule'[d].status = capsule[d].status
    BY <1>1, <2>1 DEF CapsuleType
  <2>3. /\ UNCHANGED <<op, rows, capture, snapshot, target, exec, pending, history>>
        /\ exists' = exists \cup {<<c, Route>>} /\ running' = running \cup {c}
    BY <1>3 DEF BranchStarts
  <2> QED BY <1>1, <1>2, <2>1, <2>2, <2>3 DEF World
<1>4. CASE BranchStops(c)
  <2>1. /\ Owner(c) = {} /\ capsule[c] \in CapsuleType
        /\ capsule' = [capsule EXCEPT ![c].branch = "offline"]
    BY <1>1, <1>4 DEF BranchStops, Unattended
  <2>2. \A d \in Capsules : capsule'[d].status = capsule[d].status
    BY <1>1, <2>1 DEF CapsuleType
  <2>3. /\ UNCHANGED <<op, rows, capture, snapshot, target, exec, pending, history>>
        /\ exists' = exists \ {<<c, Route>>} /\ running' = running \ {c}
    BY <1>4 DEF BranchStops
  <2> QED BY <1>1, <1>2, <2>1, <2>2, <2>3 DEF World
<1>5. CASE RuntimeDrifts(c)
  <2>1. UNCHANGED <<op, rows, capture, snapshot, target, exec, pending, exists, capsule>>
    BY <1>5 DEF RuntimeDrifts, rowVars
  <2>2. /\ history'.before = history.before /\ history'.dirty = history.dirty
        /\ history'.drifts = history.drifts + 1
    BY <1>1, <1>5 DEF RuntimeDrifts, HistoryType
  <2>3. history'.drifts \in Nat /\ history'.drifts > history.drifts /\ history'.drifts >= history.drifts
    BY <1>2, <2>2
  <2> QED BY <1>1, <2>1, <2>2, <2>3 DEF World
<1> QED BY <1>3, <1>4, <1>5

LEMMA RestIsWorld ==
  ASSUME WholeInv, UNCHANGED <<rowVars, providerVars, history>>
  PROVE  World
<1>1. exists \subseteq Capsules \X Items /\ history.drifts \in Nat
  BY Typed DEF ProviderTyped, HistoryType
<1> QED BY <1>1 DEF World, rowVars, providerVars

LEMMA CrashWorks == ASSUME WholeInv, Crash PROVE StaticInv' /\ ExecsInv'
<1>1. World
  BY RestIsWorld DEF Crash
<1>2. \A p \in OpIds : exec'[p] = Idle
  BY DEF Crash
<1>3. StaticInv'
  BY <1>1, <1>2, WorldKeeps
<1>4. Idle.step = "none" /\ Idle.reply = "none" /\ Idle.item = NoItem /\ NoItem \notin Managed
  BY ItemsDiffer DEF Idle
<1>5. \A p \in OpIds : ExecFits(p, exec[p])'
  BY <1>2, <1>4 DEF ExecFits, CreateFits, SnapshotFits, DestroyFits, Waits, DirtyFits, CaptureSteps
<1> QED BY <1>3, <1>5 DEF ExecsInv

LEMMA OthersWork ==
  ASSUME WholeInv,
         \/ Provider
         \/ \E c \in Capsules : BranchStarts(c) \/ BranchStops(c) \/ RuntimeDrifts(c)
         \/ Crash \/ Boot \/ Serve
         \/ UNCHANGED vars
  PROVE  StaticInv' /\ ExecsInv'
<1>1. CASE Provider
  <2>1. PICK call \in pending : Land(call) \/ Refuse(call)
    BY <1>1 DEF Provider
  <2>2. CASE Land(call)
    BY <2>2, LandIsWorld, LandAnswers, WorldWorks
  <2>3. CASE Refuse(call)
    BY <2>3, RefuseIsWorld, WorldWorks
  <2> QED BY <2>1, <2>2, <2>3
<1>2. CASE \E c \in Capsules : BranchStarts(c) \/ BranchStops(c) \/ RuntimeDrifts(c)
  BY <1>2, BranchIsWorld, SameAnswers, WorldWorks
<1>3. CASE Crash
  BY <1>3, CrashWorks
<1>4. CASE Boot \/ Serve \/ UNCHANGED vars
  <2>1. UNCHANGED <<rowVars, providerVars, history>> /\ UNCHANGED exec
    BY <1>4 DEF Boot, Serve, vars
  <2> QED BY <2>1, RestIsWorld, SameAnswers, WorldWorks
<1> QED BY <1>1, <1>2, <1>3, <1>4

-----------------------------------------------------------------------------
LEMMA NextWhole == WholeInv /\ [Next]_vars => WholeInv'
<1> SUFFICES ASSUME WholeInv, [Next]_vars PROVE WholeInv'
  OBVIOUS
<1>1. LedgerInv' /\ OwnershipInv'
  BY NextLedger, NextOwnership DEF WholeInv
<1>2. CASE \E o \in OpIds, c \in Capsules : Accept(o, c)
  BY <1>1, <1>2, AcceptWorks DEF WholeInv
<1>3. CASE \E o \in OpIds : Execute(o) \/ ClassifyAbandoned(o)
  BY <1>1, <1>3, ExecuteWorks DEF WholeInv
<1>4. CASE \/ Provider
           \/ \E c \in Capsules : BranchStarts(c) \/ BranchStops(c) \/ RuntimeDrifts(c)
           \/ Crash \/ Boot \/ Serve
           \/ UNCHANGED vars
  BY <1>1, <1>4, OthersWork DEF WholeInv
<1> QED BY <1>2, <1>3, <1>4 DEF Next

(* The rows, the provider, the calls on their way and the executors agree     *)
(* about every object of a capsule, through every interleaving of the         *)
(* operations, the crashes and what the provider answers.                    *)
THEOREM CapsuleWhole == Spec => []WholeInv
<1> QED BY InitWhole, NextWhole, PTL DEF Spec

(* "creation_failed" and "destroyed" are said of a capsule only when nothing   *)
(* of it exists and no call can still make anything (create/policy/failure.ts). *)
THEOREM CapsuleGoneLeavesNothing == Spec => []GoneLeavesNothing
<1>1. WholeInv => GoneLeavesNothing
  BY DEF WholeInv, StaticInv
<1> QED BY <1>1, CapsuleWhole, PTL

(* An active capsule has its instance and its volumes, and nothing still on    *)
(* its way deletes one, whatever captures and destroys failed before.         *)
THEOREM CapsuleActiveIsWhole == Spec => []ActiveIsWhole
<1>1. ASSUME WholeInv PROVE ActiveIsWhole
  <2> SUFFICES ASSUME NEW c \in Capsules, capsule[c].status \in {"active", "archiving", "unarchiving"},
                      NEW i \in Managed
               PROVE  <<c, i>> \in exists /\ ~DropPending(c, i)
    BY DEF ActiveIsWhole, DropPending
  <2>1. rows[c][i] = "created"
    BY <1>1 DEF WholeInv, StaticInv, SoundInv, Sound, Made
  <2>2. ~Demolished(c)
    BY <1>1 DEF WholeInv, StaticInv, DemolishedInv, Doomed
  <2>3. ObjectFits(rows[c][i], c, i)
    BY <1>1 DEF WholeInv, StaticInv, ObjectsInv
  <2> QED BY <2>1, <2>2, <2>3 DEF ObjectFits
<1> QED BY <1>1, CapsuleWhole, PTL

(* Every capture of a usable snapshot exists, and nothing on its way deletes   *)
(* one: a compensation drops only what its own rows made, and a destroy        *)
(* retires the snapshots before it commits to its intent.                     *)
THEOREM CapsuleSnapshotsAreBacked == Spec => []SnapshotsAreBacked
<1>1. ASSUME WholeInv PROVE SnapshotsAreBacked
  <2> SUFFICES ASSUME NEW c \in Capsules, NEW o \in Usable(c), NEW i \in Captured(o)
               PROVE  <<c, i>> \in exists /\ ~DropPending(c, i)
    BY DEF SnapshotsAreBacked, DropPending
  <2>1. o \in OpIds /\ snapshot[o] # "none" /\ CapsuleOf(o) = c
    BY DEF Usable
  <2>2. op[o].type = "snapshot_create" /\ AllCaptures(o, {"created"})
    BY <1>1, <2>1 DEF WholeInv, StaticInv, CommittedInv
  <2>3. i.name \in Versioned /\ i = Snapshot(i.name, o)
    BY <2>1, ItemsDiffer
  <2>4. capture[o][i.name] = "created"
    BY <2>2, <2>3 DEF AllCaptures
  <2>5. ObjectFits(capture[o][i.name], c, i)
    BY <1>1, <2>1, <2>2, <2>3 DEF WholeInv, StaticInv, ObjectsInv
  <2>6. ~Demolished(c)
    BY <1>1 DEF WholeInv, StaticInv, DemolishedInv
  <2> QED BY <2>4, <2>5, <2>6 DEF ObjectFits
<1> QED BY <1>1, CapsuleWhole, PTL

(* A volume captured while the instance ran is only in a committed snapshot    *)
(* when the runtime drifted twice, on and off between the two readings.        *)
THEOREM CapsuleSnapshotIsQuiet == Spec => []SnapshotIsQuiet
<1>1. WholeInv => SnapshotIsQuiet
  BY DEF WholeInv, StaticInv, CommittedInv, SnapshotIsQuiet
<1> QED BY <1>1, CapsuleWhole, PTL

-----------------------------------------------------------------------------
(* Which steps say "failed", and what they have seen.                        *)
Undoing(o) ==
  /\ op[o].status \in Nonterminal
  /\ \/ /\ op[o].type = "snapshot_create" /\ SnapshotSettles(o, TRUE)
        /\ AllCaptures(o, {"planned", "deleted", "missing"})
     \/ op[o].type \in Archivals /\ ArchivalSettles(o) /\ ProviderFree(o)
     \/ op[o].type = "destroy" /\ DestroySettles(o) /\ Restores(o)
Fails(o) == \A q \in OpIds : FailsNow(q) => q = o /\ (op[o].type = "create" \/ Undoing(o))

LEMMA StatusFails ==
  ASSUME WholeInv, NEW o \in OpIds, NEW status, SetStatus(o, status),
         status = "failed" => op[o].type = "create" \/ Undoing(o)
  PROVE  Fails(o)
<1>1. op \in [OpIds -> OpType]
  BY Typed DEF RowsTyped
<1>2. op'[o].status = status /\ \A q \in OpIds \ {o} : op'[q] = op[q]
  BY <1>1 DEF SetStatus, OpType
<1> QED BY <1>2 DEF Fails, FailsNow

LEMMA ClaimFails == ASSUME WholeInv, NEW o \in OpIds, ClaimRow(o) PROVE Fails(o)
<1>1. op \in [OpIds -> OpType]
  BY Typed DEF RowsTyped
<1>2. op'[o].status = "running" /\ \A q \in OpIds \ {o} : op'[q] = op[q]
  BY <1>1 DEF ClaimRow, OpType
<1> QED BY <1>2 DEF Fails, FailsNow

LEMMA IntentFails ==
  ASSUME WholeInv, NEW o \in OpIds, op' = [op EXCEPT ![o].intent = TRUE] PROVE Fails(o)
<1>1. op \in [OpIds -> OpType]
  BY Typed DEF RowsTyped
<1>2. op'[o].status = op[o].status /\ \A q \in OpIds \ {o} : op'[q] = op[q]
  BY <1>1 DEF OpType
<1> QED BY <1>2 DEF Fails, FailsNow

LEMMA SameFails == ASSUME NEW o, UNCHANGED op PROVE Fails(o)
  BY DEF Fails, FailsNow

LEMMA CreateFails == ASSUME WholeInv, NEW o \in OpIds, CreateStep(o) PROVE Fails(o)
<1>1. op[o].type = "create"
  BY DEF CreateStep, CreateClaim, CreateMaterialize, CreateCommitIntent, CreateBegin, CreateCall,
       CreateReturns, CreateRecord, CreateThrows, CreateItemFails, CreateAttempt, CreateComplete,
       CompensateBegin, CompensateCall, CompensateReturns, CompensateFails, CompensateFile,
       CompensationEnds, CreateFail, At
<1>2. CASE UNCHANGED op
  BY <1>2, SameFails
<1>3. CASE CreateClaim(o)
  BY <1>3, ClaimFails DEF CreateClaim
<1>4. CASE CreateCommitIntent(o)
  BY <1>4, IntentFails DEF CreateCommitIntent
<1>5. CASE CreateComplete(o)
  BY <1>1, <1>5, StatusFails DEF CreateComplete
<1>6. CASE CreateFail(o)
  <2>1. UNCHANGED op \/ \E status : SetStatus(o, status)
    BY <1>6 DEF CreateFail, Settles, rowVars
  <2> QED BY <1>1, <2>1, SameFails, StatusFails
<1>7. CASE CreateMaterialize(o) \/ CreateReturns(o) \/ CreateRecord(o) \/ CreateThrows(o)
        \/ CreateItemFails(o) \/ CreateAttempt(o) \/ CreateCall(o)
  BY <1>2, <1>7 DEF CreateMaterialize, CreateReturns, CreateRecord, CreateThrows,
       CreateItemFails, CreateAttempt, CreateCall, Submit, rowVars
<1>8. ASSUME NEW i, CreateBegin(o, i) \/ CompensateBegin(o, i) \/ CompensateFile(o, i)
      PROVE  Fails(o)
  BY <1>8, SameFails DEF CreateBegin, CompensateBegin, CompensateFile
<1>9. CASE CompensateCall(o) \/ CompensateReturns(o) \/ CompensateFails(o) \/ CompensationEnds(o)
  BY <1>2, <1>9 DEF CompensateCall, CompensateReturns, CompensateFails, CompensationEnds,
       Submit, rowVars
<1> QED BY <1>3, <1>4, <1>5, <1>6, <1>7, <1>8, <1>9 DEF CreateStep

LEMMA SnapshotSettlingFails ==
  ASSUME WholeInv, NEW o \in OpIds, op[o].type = "snapshot_create", op[o].status \in Nonterminal,
         NEW safe \in BOOLEAN, SnapshotSettles(o, safe),
         safe => AllCaptures(o, {"planned", "deleted", "missing"})
  PROVE  Fails(o)
<1>1. CASE safe
  <2>1. Undoing(o)
    <3>1. safe = TRUE
      BY <1>1
    <3>2. SnapshotSettles(o, TRUE)
      BY <3>1
    <3> QED BY <1>1, <3>2 DEF Undoing
  <2>2. \E status : SetStatus(o, status)
    BY DEF SnapshotSettles
  <2> QED BY <2>1, <2>2, StatusFails
<1>2. CASE ~safe
  <2>1. SetStatus(o, "cleanup_required")
    BY <1>2 DEF SnapshotSettles
  <2> QED BY <2>1, StatusFails
<1> QED BY <1>1, <1>2

LEMMA SnapshotFails == ASSUME WholeInv, NEW o \in OpIds, SnapshotStep(o) PROVE Fails(o)
<1>1. CASE UNCHANGED op
  BY <1>1, SameFails
<1>2. CASE SnapshotClaim(o)
  BY <1>2, ClaimFails DEF SnapshotClaim
<1>3. ASSUME NEW v \in Versioned, SnapshotBegin(o, v) PROVE Fails(o)
  BY <1>3, IntentFails DEF SnapshotBegin
<1>4. CASE SnapshotCommit(o)
  BY <1>4, StatusFails DEF SnapshotCommit
<1>5. CASE SnapshotFail(o)
  <2>1. op[o].type = "snapshot_create"
    BY <1>5 DEF SnapshotFail, At
  <2>2. UNCHANGED op \/ (op[o].status \in Nonterminal /\ SnapshotSettles(o, SnapshotIsSafe(o)))
    BY <1>5 DEF SnapshotFail, rowVars
  <2> QED BY <1>1, <2>1, <2>2, SafeIsUndone, SnapshotSettlingFails
<1>6. CASE SnapshotThrows(o) \/ SnapshotRevokes(o) \/ SnapshotVerifies(o) \/ SnapshotReturns(o)
        \/ SnapshotFinalizes(o) \/ UndoBegins(o) \/ SnapshotRechecks(o) \/ UndoEnds(o)
  BY <1>1, <1>6 DEF SnapshotThrows, SnapshotRevokes, SnapshotVerifies, SnapshotReturns,
       SnapshotFinalizes, UndoBegins, SnapshotRechecks, UndoEnds, rowVars
<1>7. CASE SnapshotCall(o) \/ UndoCall(o)
  BY <1>1, <1>7 DEF SnapshotCall, UndoCall, Submit, rowVars
<1>8. CASE SnapshotCallFails(o) \/ SnapshotRecord(o) \/ UndoReturns(o) \/ UndoFails(o)
  BY <1>1, <1>8 DEF SnapshotCallFails, SnapshotRecord, UndoReturns, UndoFails
<1>9. ASSUME NEW i, UndoPasses(o, i) \/ UndoBegin(o, i) PROVE Fails(o)
  BY <1>9, SameFails DEF UndoPasses, UndoBegin, rowVars
<1> QED BY <1>2, <1>3, <1>4, <1>5, <1>6, <1>7, <1>8, <1>9 DEF SnapshotStep

LEMMA ArchivalSettlingFails ==
  ASSUME WholeInv, NEW o \in OpIds, op[o].type \in Archivals, op[o].status \in Nonterminal,
         ArchivalSettles(o)
  PROVE  Fails(o)
<1>1. CASE ProviderFree(o)
  <2>1. Undoing(o) /\ \E status : SetStatus(o, status)
    BY <1>1 DEF Undoing, ArchivalSettles
  <2> QED BY <2>1, StatusFails
<1>2. CASE ~ProviderFree(o)
  <2>1. SetStatus(o, "cleanup_required")
    BY <1>2 DEF ArchivalSettles
  <2> QED BY <2>1, StatusFails
<1> QED BY <1>1, <1>2

LEMMA DestroySettlingFails ==
  ASSUME WholeInv, NEW o \in OpIds, op[o].type = "destroy", op[o].status \in Nonterminal,
         DestroySettles(o)
  PROVE  Fails(o)
<1>1. CASE Restores(o)
  <2>1. Undoing(o) /\ \E status : SetStatus(o, status)
    BY <1>1 DEF Undoing, DestroySettles
  <2> QED BY <2>1, StatusFails
<1>2. CASE ~Restores(o)
  <2>1. SetStatus(o, "cleanup_required")
    BY <1>2 DEF DestroySettles
  <2> QED BY <2>1, StatusFails
<1> QED BY <1>1, <1>2

LEMMA ArchivalFails == ASSUME WholeInv, NEW o \in OpIds, ArchivalStep(o) PROVE Fails(o)
<1>1. CASE ArchivalThrows(o)
  BY <1>1, SameFails DEF ArchivalThrows, rowVars
<1>2. CASE ArchivalClaim(o)
  BY <1>2, ClaimFails DEF ArchivalClaim
<1>3. CASE ArchivalComplete(o)
  BY <1>3, StatusFails DEF ArchivalComplete
<1>4. CASE ArchivalFail(o)
  <2>1. op[o].type \in Archivals
    BY <1>4 DEF ArchivalFail, Archiving
  <2>2. UNCHANGED op \/ (op[o].status \in Nonterminal /\ ArchivalSettles(o))
    BY <1>4 DEF ArchivalFail, rowVars
  <2> QED BY <2>1, <2>2, SameFails, ArchivalSettlingFails
<1> QED BY <1>1, <1>2, <1>3, <1>4 DEF ArchivalStep

LEMMA DestroyFails == ASSUME WholeInv, NEW o \in OpIds, DestroyStep(o) PROVE Fails(o)
<1>1. CASE UNCHANGED op
  BY <1>1, SameFails
<1>2. CASE DestroyClaim(o)
  BY <1>2, ClaimFails DEF DestroyClaim
<1>3. CASE DestroyFence(o)
  BY <1>3, IntentFails DEF DestroyFence
<1>4. CASE DestroyComplete(o)
  BY <1>4, StatusFails DEF DestroyComplete
<1>5. CASE DestroyFail(o)
  <2>1. op[o].type = "destroy"
    BY <1>5 DEF DestroyFail, At
  <2>2. UNCHANGED op \/ (op[o].status \in Nonterminal /\ DestroySettles(o))
    BY <1>5 DEF DestroyFail, rowVars
  <2> QED BY <1>1, <2>1, <2>2, DestroySettlingFails
<1>6. CASE DestroyThrows(o) \/ DestroyPlan(o) \/ DestroyRetire(o) \/ DestroyRevokes(o)
        \/ DestroyIntent(o) \/ DestroyDeleted(o) \/ DestroySettle(o)
  BY <1>1, <1>6 DEF DestroyThrows, DestroyPlan, DestroyRetire, DestroyRevokes, DestroyIntent,
       DestroyDeleted, DestroySettle, rowVars
<1>7. CASE DestroyStop(o) \/ DestroyDrop(o)
  BY <1>1, <1>7 DEF DestroyStop, DestroyDrop, Submit, rowVars
<1>8. ASSUME NEW i, DestroyFindsAbsent(o, i) \/ DestroyFindsPresent(o, i) \/ DestroyCannotRead(o, i)
      PROVE  Fails(o)
  BY <1>8, SameFails DEF DestroyFindsAbsent, DestroyFindsPresent, DestroyCannotRead, rowVars
<1> QED BY <1>2, <1>3, <1>4, <1>5, <1>6, <1>7, <1>8 DEF DestroyStep

LEMMA AbandonedFails == ASSUME WholeInv, NEW o \in OpIds, ClassifyAbandoned(o) PROVE Fails(o)
<1>1. CASE AbandonedCreate(o)
  <2>1. op[o].type = "create" /\ \E status : SetStatus(o, status)
    BY <1>1 DEF AbandonedCreate, Listed, Settles
  <2> QED BY <2>1, StatusFails
<1>2. CASE AbandonedSnapshot(o)
  BY <1>2, SafeIsUndone, SnapshotSettlingFails DEF AbandonedSnapshot, Listed
<1>3. CASE AbandonedArchival(o)
  BY <1>3, ArchivalSettlingFails DEF AbandonedArchival, Listed
<1>4. CASE AbandonedDestroy(o)
  BY <1>4, DestroySettlingFails DEF AbandonedDestroy, Listed
<1> QED BY <1>1, <1>2, <1>3, <1>4 DEF ClassifyAbandoned

(* What is proved undone is back as it was accepted.                         *)
LEMMA UndoneIsBack ==
  ASSUME WholeInv, NEW o \in OpIds, Undoing(o), NEW c, CapsuleOf(o) = c
  PROVE  Picture(c)' = history.before[c]
<1>1. /\ op[o].status \in Nonterminal /\ c \in Capsules /\ o \in Owner(c)
      /\ Owned(op[o].type, c)
  BY OwnerKnows DEF Undoing
<1>2. /\ UNCHANGED <<snapshot, exists>>
      /\ \E status : SetStatus(o, status)
  BY DEF Undoing, SnapshotSettles, ArchivalSettles, DestroySettles, providerVars
<1>3. /\ capsule[c] \in CapsuleType /\ capsule \in [Capsules -> CapsuleType]
      /\ op \in [OpIds -> OpType] /\ history.before[c] \in PictureType
      /\ exists \subseteq Capsules \X Items
  BY <1>1, Typed DEF RowsTyped, HistoryType, ProviderTyped
<1>4. /\ op[o].type \in {"snapshot_create", "destroy"} \cup Archivals
      /\ op[o].type = "destroy" => ~op[o].force /\ ~op[o].intent /\ ~HasPlan(o)
  BY DEF Undoing, Restores, Archivals
<1>5. op[o].type # "create"
  BY <1>4 DEF Archivals
<1>6. /\ history.before[c].capsule = Prior(o)
      /\ history.before[c].objects
           = {x \in exists : x[1] = c /\ x[2] # Route /\ x[2] \notin Captured(o)}
      /\ history.before[c].usable = Usable(c)
  BY <1>1, <1>4, <1>5 DEF WholeInv, StaticInv, BeforeInv
<1>7. capsule'[c] = Prior(o)
  <2>1. PICK k : k = capsule[c]
    OBVIOUS
  <2>2. CASE op[o].type = "snapshot_create"
    <3>1. k = [status |-> "active", archived |-> FALSE, branch |-> "snapshotting"]
      BY <1>1, <2>1, <2>2 DEF Owned, Archivals
    <3>2. SnapshotSettles(o, TRUE)
      BY <2>2 DEF Undoing, Archivals
    <3>3. capsule' = [capsule EXCEPT ![c] = [k EXCEPT !.branch = "offline"]]
      BY <2>1, <3>2 DEF SnapshotSettles
    <3>4. capsule'[c] = [status |-> "active", archived |-> FALSE, branch |-> "offline"]
      BY <1>1, <1>3, <3>1, <3>3
    <3>5. (op[o].type \in {"unarchive", "destroy"}) = FALSE
      BY <2>2
    <3> QED BY <3>4, <3>5 DEF Prior
  <2>3. CASE op[o].type \in Archivals
    <3>1. ProviderFree(o) /\ ArchivalSettles(o)
      BY <2>3 DEF Undoing, Archivals
    <3>2. k = [status |-> Fence(op[o].type), archived |-> op[o].type = "unarchive", branch |-> "offline"]
      BY <2>1, <3>1 DEF ProviderFree
    <3>3. capsule' = [capsule EXCEPT ![c] = [k EXCEPT !.status = "active"]]
      <4>1. PICK s : s = CASE ProviderFree(o) -> "active"
                           [] k.status = "destroyed" -> k.status
                           [] OTHER -> "cleanup_required"
        OBVIOUS
      <4>2. k.status # "destroyed"
        BY <3>2 DEF Fence
      <4>3. s = "active"
        BY <3>1, <4>1, <4>2
      <4>4. capsule' = [capsule EXCEPT ![c] = [k EXCEPT !.status = s]]
        BY <2>1, <3>1, <4>1 DEF ArchivalSettles
      <4> QED BY <4>3, <4>4
    <3>4. capsule'[c] = [status |-> "active", archived |-> op[o].type = "unarchive", branch |-> "offline"]
      BY <1>1, <1>3, <3>2, <3>3
    <3>5. (op[o].type \in {"unarchive", "destroy"}) = (op[o].type = "unarchive")
      BY <2>3 DEF Archivals
    <3> QED BY <3>4, <3>5 DEF Prior
  <2>4. CASE op[o].type = "destroy"
    <3>1. Restores(o) /\ DestroySettles(o)
      BY <2>4 DEF Undoing, Archivals
    <3>2. k = [status |-> "destroying", archived |-> TRUE, branch |-> "destroying"]
      BY <2>1, <3>1 DEF Restores
    <3>3. capsule' = [capsule EXCEPT ![c] = [k EXCEPT !.status = "active", !.branch = "offline"]]
      BY <2>1, <3>1 DEF DestroySettles
    <3>4. capsule'[c] = [status |-> "active", archived |-> TRUE, branch |-> "offline"]
      BY <1>1, <1>3, <3>2, <3>3
    <3>5. (op[o].type \in {"unarchive", "destroy"}) = TRUE
      BY <2>4
    <3> QED BY <3>4, <3>5 DEF Prior
  <2> QED BY <1>4, <2>2, <2>3, <2>4
<1>8. ASSUME NEW i \in Captured(o) PROVE <<c, i>> \notin exists
  <2>1. CASE op[o].type = "snapshot_create"
    <3>1. i.name \in Versioned /\ i = Snapshot(i.name, o)
      BY ItemsDiffer
    <3>2. capture[o][i.name] \in {"planned", "deleted", "missing"}
      BY <2>1, <3>1 DEF Undoing, AllCaptures, Archivals
    <3>3. ObjectFits(capture[o][i.name], c, i)
      BY <2>1, <3>1 DEF WholeInv, StaticInv, ObjectsInv
    <3> QED BY <3>2, <3>3 DEF ObjectFits
  <2>2. CASE op[o].type # "snapshot_create"
    BY <1>1, <2>2, NothingCaptured
  <2> QED BY <2>1, <2>2
<1>9. {x \in exists : x[1] = c /\ x[2] # Route /\ x[2] \notin Captured(o)}
        = {x \in exists : x[1] = c /\ x[2] # Route}
  <2>1. \A x \in exists : x[1] = c => x = <<c, x[2]>>
    BY <1>3
  <2> QED BY <1>8, <2>1
<1>10. \A p \in OpIds : op'[p].capsule = op[p].capsule
  BY <1>2, <1>3 DEF SetStatus, OpType
<1>11. {p \in OpIds : snapshot'[p] = "committed" /\ op'[p].capsule = c} = Usable(c)
  BY <1>2, <1>10 DEF Usable, CapsuleOf
<1>12. Picture(c)' = [capsule |-> Prior(o), objects |-> {x \in exists : x[1] = c /\ x[2] # Route},
                      usable |-> Usable(c)]
  BY <1>2, <1>7, <1>11 DEF Picture, CapsuleOf
<1>13. history.before[c] = [capsule |-> history.before[c].capsule, objects |-> history.before[c].objects,
                            usable |-> history.before[c].usable]
  BY <1>3 DEF PictureType
<1> QED BY <1>6, <1>9, <1>12, <1>13, Zenon

LEMMA NextFails ==
  ASSUME WholeInv, [Next]_vars, NEW q \in OpIds, FailsNow(q), op[q].type # "create"
  PROVE  Undoing(q)
<1>1. CASE \E o \in OpIds, c \in Capsules : Accept(o, c)
  <2>1. PICK o \in OpIds, c \in Capsules : Accept(o, c)
    BY <1>1
  <2>2. PICK type \in Types, force \in BOOLEAN : \E k : Takes(o, c, type, force, k)
    BY <2>1, AcceptTakes
  <2>3. Insert(o, type, c, force)
    BY <2>2 DEF Takes
  <2>4. op \in [OpIds -> OpType]
    BY Typed DEF RowsTyped
  <2>5. op'[o].status = "accepted" /\ \A p \in OpIds \ {o} : op'[p] = op[p]
    BY <2>3, <2>4 DEF Insert
  <2> QED BY <2>5 DEF FailsNow
<1>2. CASE \E o \in OpIds : Execute(o) \/ ClassifyAbandoned(o)
  <2>1. PICK o \in OpIds : Execute(o) \/ ClassifyAbandoned(o)
    BY <1>2
  <2>2. Fails(o)
    BY <2>1, CreateFails, SnapshotFails, ArchivalFails, DestroyFails, AbandonedFails DEF Execute
  <2> QED BY <2>2 DEF Fails
<1>3. CASE \/ Provider
           \/ \E c \in Capsules : BranchStarts(c) \/ BranchStops(c) \/ RuntimeDrifts(c)
           \/ Crash \/ Boot \/ Serve
           \/ UNCHANGED vars
  <2>1. UNCHANGED op
    BY <1>3, OthersKeep DEF WholeInv, Stays
  <2> QED BY <2>1 DEF FailsNow
<1> QED BY <1>1, <1>2, <1>3 DEF Next

(* "failed" puts the user back: when a capture, an archival or a destroy says   *)
(* so, the capsule, its objects and its usable snapshots are as they were when *)
(* it was accepted, whatever the provider did in between.                      *)
THEOREM CapsuleFailedRestores == Spec => FailedRestores
<1>1. ASSUME WholeInv, [Next]_vars, NEW o \in OpIds, FailsNow(o), op[o].type # "create"
      PROVE  Picture(CapsuleOf(o))' = history.before[CapsuleOf(o)]
  <2>1. Undoing(o)
    BY <1>1, NextFails
  <2>2. PICK c : c = CapsuleOf(o)
    OBVIOUS
  <2>3. CapsuleOf(o)' = c
    <3>1. op \in [OpIds -> OpType] /\ \E status : SetStatus(o, status)
      BY <1>1, <2>1, Typed DEF RowsTyped, Undoing, SnapshotSettles, ArchivalSettles, DestroySettles
    <3> QED BY <2>2, <3>1 DEF SetStatus, OpType, CapsuleOf
  <2>4. Picture(c)' = history.before[c]
    BY <1>1, <2>1, <2>2, UndoneIsBack
  <2>5. Picture(CapsuleOf(o))' = Picture(c)'
    BY <2>3 DEF Picture
  <2> QED BY <2>2, <2>4, <2>5
<1>2. WholeInv /\ [Next]_vars =>
        [\A o \in OpIds : FailsNow(o) /\ op[o].type # "create" =>
           Picture(CapsuleOf(o))' = history.before[CapsuleOf(o)]]_vars
  BY <1>1
<1> QED BY <1>2, CapsuleWhole, PTL DEF Spec, FailedRestores
==============================================================================
