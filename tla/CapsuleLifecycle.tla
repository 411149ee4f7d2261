--------------------------- MODULE CapsuleLifecycle ---------------------------
(***************************************************************************)
(* The capsule operations that make, capture, shelve and destroy a whole     *)
(* capsule, on the same rows and the same provider, across restarts of the   *)
(* Worker process.                                                          *)
(***************************************************************************)
EXTENDS CapsuleCreate, CapsuleSnapshot, CapsuleArchival, CapsuleDestroy

Accept(o, c) ==
  \/ AcceptCreate(o, c)
  \/ AcceptSnapshot(o, c)
  \/ \E type \in Archivals : AcceptArchival(o, c, type)
  \/ \E force \in BOOLEAN : AcceptDestroy(o, c, force)

Execute(o) == CreateStep(o) \/ SnapshotStep(o) \/ ArchivalStep(o) \/ DestroyStep(o)

ClassifyAbandoned(o) ==
  AbandonedCreate(o) \/ AbandonedSnapshot(o) \/ AbandonedArchival(o) \/ AbandonedDestroy(o)

Provider == \E call \in pending : Land(call) \/ Refuse(call)

Next ==
  \/ \E o \in OpIds, c \in Capsules : Accept(o, c)
  \/ \E o \in OpIds : Execute(o) \/ ClassifyAbandoned(o)
  \/ Provider
  \/ \E c \in Capsules : BranchStarts(c) \/ BranchStops(c) \/ RuntimeDrifts(c)
  \/ Crash \/ Boot \/ Serve

Spec == Init /\ [][Next]_vars

(* The event loop runs every executor: each of its awaits ends, by an answer, *)
(* an error or a deadline.  Nothing is asked of the provider.                *)
FairSpec == Spec /\ \A o \in OpIds : WF_vars(Execute(o))

-----------------------------------------------------------------------------
TypeOK ==
  /\ op \in [OpIds -> OpType]
  /\ capsule \in [Capsules -> CapsuleType]
  /\ rows \in [Capsules -> [Inventory -> RowStatuses]]
  /\ capture \in [OpIds -> [Versioned -> RowStatuses]]
  /\ snapshot \in [OpIds -> {"none", "committed", "retired"}]
  /\ \A o \in OpIds : /\ DOMAIN target[o] \subseteq Items
                      /\ \A i \in DOMAIN target[o] : target[o][i] \in TargetStatuses
  /\ \A o \in OpIds : exec[o].item \in Items /\ exec[o].reply \in Replies
  /\ worker.phase \in {"serving", "down", "classifying"} /\ worker.todo \subseteq OpIds
  /\ exists \subseteq Capsules \X Items
  /\ running \subseteq Capsules

(* The status of a capsule says which operation owns it, and the operation   *)
(* that owns it left that status: no other one, and no later one, moved it.  *)
Owned(type, c) ==
  CASE type = "create" ->
         capsule[c] = [status |-> "provisioning", archived |-> FALSE, branch |-> "provisioning"]
    [] type = "snapshot_create" ->
         capsule[c] = [status |-> "active", archived |-> FALSE, branch |-> "snapshotting"]
    [] type \in Archivals ->
         capsule[c] = [status |-> Fence(type), archived |-> type = "unarchive",
                       branch |-> "offline"]
    [] type = "destroy" ->
         capsule[c].status = "destroying" /\ capsule[c].branch \in {"destroying", "destroyed"}
    [] OTHER -> FALSE
Resting(c) ==
  /\ capsule[c].status \in
       {"absent", "active", "creation_failed", "destroyed", "cleanup_required"}
  /\ capsule[c].branch # "snapshotting"
OwnershipIsMutual ==
  \A c \in Capsules :
    /\ \A o \in Owner(c) : Owned(op[o].type, c)
    /\ Owner(c) = {} => Resting(c)

(* "creation_failed" and "destroyed" tell the owner that nothing is left,     *)
(* whatever the creation and the captures left half done: no object exists,   *)
(* and no call can still make one (create/policy/failure.ts).                *)
Leftovers(c) ==
  {x \in exists : x[1] = c} \cup
  {Object(call) : call \in {d \in pending : d.verb = "make" /\ d.capsule = c}}
GoneLeavesNothing ==
  \A c \in Capsules : capsule[c].status \in {"creation_failed", "destroyed"} => Leftovers(c) = {}

(* An active capsule is whole: its instance and volumes exist, and no call    *)
(* that deletes one of them is on its way.                                  *)
ActiveIsWhole ==
  \A c \in Capsules : capsule[c].status \in {"active", "archiving", "unarchiving"} =>
    \A i \in Managed :
      /\ <<c, i>> \in exists
      /\ \A call \in pending : call.verb = "drop" => Object(call) # <<c, i>>

(* Every capture of a usable snapshot exists, whatever a compensation or a    *)
(* destroy removed.                                                         *)
SnapshotsAreBacked ==
  \A c \in Capsules : \A o \in Usable(c) : \A i \in Captured(o) :
    /\ <<c, i>> \in exists
    /\ \A call \in pending : call.verb = "drop" => Object(call) # <<c, i>>

(* No volume of a committed snapshot was captured while its instance ran,    *)
(* even if the instance starts by itself between the two times it is read.   *)
(* An instance that starts and stops again between them is not noticed.      *)
SnapshotIsQuiet ==
  \A o \in OpIds :
    snapshot[o] = "committed" /\ o \in history.dirty => history.drifts >= 2

(* "failed" puts the user back: a failed snapshot, archival or destroy       *)
(* leaves the capsule, its objects and its usable snapshots as they were     *)
(* when the operation was accepted.                                         *)
FailsNow(o) == op[o].status # "failed" /\ op'[o].status = "failed"
FailedRestores ==
  [][\A o \in OpIds : FailsNow(o) /\ op[o].type # "create" =>
       Picture(CapsuleOf(o))' = history.before[CapsuleOf(o)]]_vars

(* An executor ends, with its operation settled or left to the next startup, *)
(* however the provider and the database answer and whatever it has to undo.  *)
ExecutorsEnd == \A o \in OpIds : (exec[o] # Idle) ~> (exec[o] = Idle)

-----------------------------------------------------------------------------
(* The ledger's promise: every operation moves through its row as            *)
(* OperationLedger allows, and "failed" is never said of an operation whose   *)
(* mutations were not proved undone.  Replay is left out, so that every       *)
(* operation has a key of its own.                                          *)
Ledger == INSTANCE OperationLedger WITH
  Keys <- OpIds, NoEntry <- None,
  opStatus <- [o \in OpIds |-> op[o].status],
  entry <- [o \in OpIds |->
              IF op[o].status = "absent" THEN None ELSE [key |-> o, capsule |-> op[o].capsule]],
  intent <- {o \in OpIds : op[o].intent},
  touched <- history.touched,
  witnessed <- history.witnessed
LedgerSpec == Ledger!Spec
=============================================================================
