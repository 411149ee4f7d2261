----------------------------- MODULE CapsuleRows -----------------------------
(***************************************************************************)
(* The rows and the provider objects the capsule operations share: create,  *)
(* snapshot, archive, unarchive and destroy each live in a module of their   *)
(* own that extends this one, and CapsuleLifecycle composes them.            *)
(*                                                                           *)
(* A capsule has its root branch only: fork/submission.ts refuses every fork *)
(* before it writes a row.  Every capsule belongs to one owner, hence to one *)
(* Incus project.  The acceptance transactions are modelled without replay,  *)
(* which BranchOperation covers on the same ledger.                          *)
(***************************************************************************)
EXTENDS Naturals, FiniteSets

CONSTANTS
  Capsules,   \* capsules of one owner
  OpIds,      \* operation UUIDs, a bound on acceptances
  Volumes,    \* managed volumes of the Blueprint
  Versioned,  \* those a snapshot captures
  Files,      \* provisioning files of the Blueprint
  Backing,    \* the volume each file is written to, None for the instance
  None,       \* SQL NULL
  MaxBoots,   \* bound: Worker processes started after the first
  MaxDrift    \* bound: runtime changes that no operation asked for

ASSUME VolumeAssumption == Versioned \subseteq Volumes /\ None \notin Volumes
ASSUME FileAssumption == Backing \in [Files -> Volumes \cup {None}]
ASSUME NullAssumption == None \notin OpIds \cup Capsules
ASSUME BoundAssumption == MaxBoots \in Nat /\ MaxDrift \in Nat

VARIABLES
  op,        \* capsule_operations rows
  capsule,   \* capsules rows, each with its root branch
  rows,      \* capsule_branch_resources of each root branch
  capture,   \* capsule_snapshot_create_resources of each operation
  snapshot,  \* capsule_snapshots, by the operation that committed it
  target,    \* capsule_destroy_resources of each operation
  exec,      \* executors of the Worker process, one per operation
  worker,    \* the Worker process: its phase, boots and startup list
  exists,    \* provider: objects that exist
  pending,   \* provider: calls submitted whose effect has not landed
  running,   \* provider: capsules whose instance runs
  history    \* what no row records: see InitialHistory

rowVars == <<op, capsule, rows, capture, snapshot, target>>
providerVars == <<exists, pending, running>>
vars == <<rowVars, exec, worker, providerVars, history>>

-----------------------------------------------------------------------------
(* Items: what a row, a target or a provider call is about.                 *)

Item(kind, name, o) == [kind |-> kind, name |-> name, op |-> o]
NoItem == Item("none", None, None)
Project == Item("project", None, None)
BindMount == Item("bind", None, None)
Instance == Item("instance", None, None)
Volume(v) == Item("volume", v, None)
File(f) == Item("file", f, None)
Snapshot(v, o) == Item("snapshot", v, o)
Route == Item("route", None, None)

Managed == {Volume(v) : v \in Volumes} \cup {Instance}
Inventory == {Project, BindMount} \cup Managed \cup {File(f) : f \in Files}
Captured(o) == {Snapshot(v, o) : v \in Versioned}
Items == Inventory \cup {Route, NoItem} \cup UNION {Captured(o) : o \in OpIds}
BackingOf(i) == IF Backing[i.name] = None THEN Instance ELSE Volume(Backing[i.name])

RowStatuses ==
  {"none", "planned", "creating", "created", "adopted", "error", "deleting",
   "deleted", "missing"}
TargetStatuses == {"planned", "absent", "deleting", "deleted", "unresolved"}
Unmade == [i \in Inventory |-> "none"]
NoTargets == [i \in {} |-> "planned"]

-----------------------------------------------------------------------------
(* Operations and capsules.                                                 *)

Types == {"create", "snapshot_create", "archive", "unarchive", "destroy"}
Nonterminal == {"accepted", "running"}
Terminal == {"completed", "failed", "cleanup_required"}
NoOp == [type |-> "none", status |-> "absent", capsule |-> None,
         intent |-> FALSE, force |-> FALSE]
OpType == [type : Types \cup {"none"}, status : {"absent"} \cup Nonterminal \cup Terminal,
           capsule : Capsules \cup {None}, intent : BOOLEAN, force : BOOLEAN]

NoCapsule == [status |-> "absent", archived |-> FALSE, branch |-> "absent"]
CapsuleStatuses ==
  {"absent", "provisioning", "active", "creation_failed", "archiving", "unarchiving",
   "destroying", "destroyed", "cleanup_required"}
BranchStatuses ==
  {"absent", "provisioning", "offline", "online", "snapshotting", "destroying",
   "destroyed", "cleanup_required"}
CapsuleType == [status : CapsuleStatuses, archived : BOOLEAN, branch : BranchStatuses]

CapsuleOf(o) == op[o].capsule
NonterminalOps == {o \in OpIds : op[o].status \in Nonterminal}
Owner(c) == {o \in NonterminalOps : CapsuleOf(o) = c}
Usable(c) == {o \in OpIds : snapshot[o] = "committed" /\ CapsuleOf(o) = c}

(* One record per executor: the step it is at, the item in hand, the answer  *)
(* to the call it waits for, the items its compensation or its loop still    *)
(* covers, the items it removed, and the flags of its execution state.  An   *)
(* acknowledged completion ends it: what throws afterwards is only logged.   *)
Idle == [step |-> "none", item |-> NoItem, reply |-> "none", scope |-> {},
         gone |-> {}, flags |-> {}]
Started == [Idle EXCEPT !.step = "claim"]
Replies == {"none", "ok", "refused", "missing"}

At(o, type, step) == op[o].type = type /\ exec[o].step = step
Becomes(o, e) == exec' = [exec EXCEPT ![o] = e]
Goto(o, step) == Becomes(o, [exec[o] EXCEPT !.step = step])
Flagged(o, flag) == flag \in exec[o].flags

(* What the provider and the rows show of a capsule between operations.     *)
Picture(c) ==
  [capsule |-> capsule[c],
   objects |-> {x \in exists : x[1] = c /\ x[2] # Route},
   usable |-> {o \in OpIds : snapshot[o] = "committed" /\ CapsuleOf(o) = c}]

InitialHistory ==
  [before |-> [c \in Capsules |-> Picture(c)],  \* at the last acceptance
   touched |-> {},    \* operations that submitted a provider mutation
   witnessed |-> {},  \* operations that proved their own effects undone
   dirty |-> {},      \* captures that ran while the instance did
   drifts |-> 0]      \* runtime changes no operation asked for

Init ==
  /\ op = [o \in OpIds |-> NoOp]
  /\ capsule = [c \in Capsules |-> NoCapsule]
  /\ rows = [c \in Capsules |-> Unmade]
  /\ capture = [o \in OpIds |-> [v \in Versioned |-> "none"]]
  /\ snapshot = [o \in OpIds |-> "none"]
  /\ target = [o \in OpIds |-> NoTargets]
  /\ exec = [o \in OpIds |-> Idle]
  /\ worker = [phase |-> "serving", boots |-> 0, todo |-> {}]
  /\ exists = {} /\ pending = {} /\ running = {}
  /\ history = InitialHistory

(* The insert every acceptance transaction ends with.  The partial unique   *)
(* index refuses a second nonterminal operation of the capsule.  A handler   *)
(* whose commit was not acknowledged schedules no executor.                 *)
(* The database generates the id.                                           *)
(* Mutant: the unique index is missing. *)
UnownedEver(c) == TRUE
Unowned(c) == Owner(c) = {}
FreshId == CHOOSE o \in OpIds : op[o].status = "absent"
Insert(o, type, c, force) ==
  /\ worker.phase = "serving"
  /\ op[o].status = "absent" /\ o = FreshId
  /\ Unowned(c)
  /\ op' = [op EXCEPT ![o] = [type |-> type, status |-> "accepted", capsule |-> c,
                              intent |-> FALSE, force |-> force]]
  /\ history' = [history EXCEPT !.before[c] = Picture(c)]
  /\ Becomes(o, Started) \/ UNCHANGED exec
  /\ UNCHANGED <<rows, snapshot, target, worker, providerVars>>

(* repository.claim of every type: an accepted row without provider intent. *)
ClaimRow(o) ==
  /\ op[o].status = "accepted" /\ ~op[o].intent
  /\ op' = [op EXCEPT ![o].status = "running"]

SetStatus(o, status) == op' = [op EXCEPT ![o].status = status]

-----------------------------------------------------------------------------
(* Provider calls, as the executors see them: submit, then wait for the     *)
(* operation to end or for the deadline, which throws while the call goes on.*)

Call(o, verb, item) == [verb |-> verb, capsule |-> CapsuleOf(o), item |-> item, op |-> o]

Submit(o, verb, item) ==
  /\ pending' = pending \cup {Call(o, verb, item)}
  /\ history' = [history EXCEPT !.touched = @ \cup {o}]
  /\ UNCHANGED <<rowVars, worker, exists, running>>

Awaits(o, item) ==
  exec[o].step \in {"await", "await_stop", "await_delete"} /\ exec[o].item = item
Answer(call, reply) ==
  IF Awaits(call.op, call.item)
  THEN exec' = [exec EXCEPT ![call.op].reply = reply]
  ELSE UNCHANGED exec

Object(call) == <<call.capsule, call.item>>
HasSnapshots(c, i) ==
  i.kind = "volume" /\ \E x \in exists : x[1] = c /\ x[2].kind = "snapshot" /\ x[2].name = i.name

(* An object is made once, a snapshot only of a volume that exists; a       *)
(* running instance and a volume with snapshots are not deleted.             *)
Possible(call) ==
  CASE call.verb = "make" ->
         /\ Object(call) \notin exists
         /\ call.item.kind = "snapshot" => <<call.capsule, Volume(call.item.name)>> \in exists
    [] call.verb = "drop" ->
         /\ call.item = Instance => call.capsule \notin running
         /\ ~HasSnapshots(call.capsule, call.item)
    [] OTHER -> TRUE

Land(call) ==
  /\ call \in pending
  /\ Possible(call)
  /\ pending' = pending \ {call}
  /\ exists' = CASE call.verb = "make" -> exists \cup {Object(call)}
                 [] call.verb = "drop" -> exists \ {Object(call)}
                 [] OTHER -> exists
  /\ running' = IF call.verb = "stop" THEN running \ {call.capsule} ELSE running
  /\ Answer(call, IF call.verb = "drop" /\ Object(call) \notin exists THEN "missing" ELSE "ok")
  /\ history' = IF call.verb = "make" /\ call.item.kind = "snapshot" /\ call.capsule \in running
                THEN [history EXCEPT !.dirty = @ \cup {call.op}] ELSE history
  /\ UNCHANGED <<rowVars, worker>>

Refuse(call) ==
  /\ call \in pending
  /\ pending' = pending \ {call}
  /\ Answer(call, "refused")
  /\ UNCHANGED <<rowVars, worker, exists, running, history>>

(* assertIdle lists the operations of the owner's whole project; the route   *)
(* table is another service.                                                 *)
(* Mutant: an absent object is taken for one that will stay absent. *)
AlwaysIdle == TRUE
ProjectIdle == \A call \in pending : call.item = Route

-----------------------------------------------------------------------------
(* What else happens to a capsule that no operation owns: its branch is     *)
(* started and stopped (BranchOperation), with its preview route.            *)

Unattended(c) ==
  /\ worker.phase = "serving" /\ Owner(c) = {}
  /\ capsule[c].status = "active" /\ ~capsule[c].archived

BranchStarts(c) ==
  /\ Unattended(c) /\ capsule[c].branch = "offline"
  /\ capsule' = [capsule EXCEPT ![c].branch = "online"]
  /\ running' = running \cup {c}
  /\ exists' = exists \cup {<<c, Route>>}
  /\ UNCHANGED <<op, rows, capture, snapshot, target, exec, worker, pending, history>>

BranchStops(c) ==
  /\ Unattended(c) /\ capsule[c].branch = "online"
  /\ capsule' = [capsule EXCEPT ![c].branch = "offline"]
  /\ running' = running \ {c}
  /\ exists' = exists \ {<<c, Route>>}
  /\ UNCHANGED <<op, rows, capture, snapshot, target, exec, worker, pending, history>>

(* A start that outlived its deadline takes effect, or the guest shuts down: *)
(* nothing starts an instance before its create has ended.                   *)
RuntimeDrifts(c) ==
  /\ history.drifts < MaxDrift /\ capsule[c].status # "provisioning"
  /\ <<c, Instance>> \in exists
  /\ running' = IF c \in running THEN running \ {c} ELSE running \cup {c}
  /\ history' = [history EXCEPT !.drifts = @ + 1]
  /\ UNCHANGED <<rowVars, exec, worker, exists, pending>>

-----------------------------------------------------------------------------
(* The Worker process: what it loses in a crash, and what startup lists.     *)

Crash ==
  /\ worker.phase # "down" /\ worker.boots < MaxBoots
  /\ worker' = [worker EXCEPT !.phase = "down", !.todo = {}]
  /\ exec' = [o \in OpIds |-> Idle]
  /\ UNCHANGED <<rowVars, providerVars, history>>

Boot ==
  /\ worker.phase = "down" /\ worker.boots < MaxBoots
  /\ worker' = [phase |-> "classifying", boots |-> worker.boots + 1, todo |-> NonterminalOps]
  /\ UNCHANGED <<rowVars, exec, providerVars, history>>

Serve ==
  /\ worker.phase = "classifying" /\ worker.todo = {}
  /\ worker' = [worker EXCEPT !.phase = "serving"]
  /\ UNCHANGED <<rowVars, exec, providerVars, history>>

(* A row that became terminal since it was listed is left alone; with one    *)
(* Worker process none does.                                                *)
Listed(o, type) ==
  /\ worker.phase = "classifying" /\ o \in worker.todo
  /\ op[o].type = type /\ op[o].status \in Nonterminal
  /\ worker' = [worker EXCEPT !.todo = @ \ {o}]
  /\ UNCHANGED exec
=============================================================================
