---------------------------- MODULE CapsuleCreate ----------------------------
(***************************************************************************)
(* Create: accept a capsule, make what its Blueprint plans, and either      *)
(* finish or delete what this process knows it made (operations/create).     *)
(***************************************************************************)
EXTENDS CapsuleRows

AcceptCreate(o, c) ==
  /\ capsule[c] = NoCapsule
  /\ Insert(o, "create", c, FALSE)
  /\ capsule' = [capsule EXCEPT ![c] =
                   [status |-> "provisioning", archived |-> FALSE, branch |-> "provisioning"]]
  /\ UNCHANGED capture

(* The rows every create transaction locks and checks.                      *)
Provisioning(o) ==
  capsule[CapsuleOf(o)] = [status |-> "provisioning", archived |-> FALSE, branch |-> "provisioning"]
Materialized(o) == \A i \in Inventory : rows[CapsuleOf(o)][i] # "none"
Absent(o) == \A i \in Inventory : rows[CapsuleOf(o)][i] = "none"
Untouched(o) == \A i \in Inventory : rows[CapsuleOf(o)][i] = "planned"
Row(o, i) == rows[CapsuleOf(o)][i]
SetRow(o, i, status) == rows' = [rows EXCEPT ![CapsuleOf(o)][i] = status]

(* execution.ts lockInput: before the provider intent.                      *)
PreProvider(o, status) == Provisioning(o) /\ op[o].status = status /\ ~op[o].intent
(* store.ts lockCreate: a fenced running create.                            *)
Fenced(o) == Provisioning(o) /\ op[o].status = "running" /\ op[o].intent /\ Materialized(o)

(* The catch block: compensate only what is known to be committed as intent *)
(* and not yet possibly completed, then classify.                           *)
MayCompensate(e) == "intent" \in e.flags /\ "attempted" \notin e.flags
CreateCaught(e) ==
  [e EXCEPT !.step = IF MayCompensate(e) THEN "compensate" ELSE "classify",
            !.item = NoItem, !.reply = "none"]

(* A transaction that commits is acknowledged, or throws all the same.      *)
Acknowledged(o, e) == Becomes(o, e) \/ Becomes(o, CreateCaught(exec[o]))

CreateThrows(o) ==
  /\ op[o].type = "create"
  /\ exec[o].step \in {"claim", "materialize", "intent", "begin", "complete"}
  /\ Becomes(o, CreateCaught(exec[o]))
  /\ UNCHANGED <<rowVars, worker, providerVars, history>>

CreateClaim(o) ==
  /\ At(o, "create", "claim") /\ PreProvider(o, "accepted")
  /\ ClaimRow(o)
  /\ Acknowledged(o, [exec[o] EXCEPT !.step = "materialize"])
  /\ UNCHANGED <<capsule, rows, capture, snapshot, target, worker, providerVars, history>>

(* The planned inventory and its digest, after the SSH fence of the branch   *)
(* was initialised.                                                         *)
CreateMaterialize(o) ==
  /\ At(o, "create", "materialize") /\ PreProvider(o, "running") /\ Absent(o)
  /\ rows' = [rows EXCEPT ![CapsuleOf(o)] = [i \in Inventory |-> "planned"]]
  /\ Acknowledged(o, [exec[o] EXCEPT !.step = "intent"])
  /\ UNCHANGED <<op, capsule, capture, snapshot, target, worker, providerVars, history>>

CreateCommitIntent(o) ==
  /\ At(o, "create", "intent") /\ PreProvider(o, "running") /\ Untouched(o)
  /\ op' = [op EXCEPT ![o].intent = TRUE]
  /\ Acknowledged(o, [exec[o] EXCEPT !.step = "begin", !.flags = @ \cup {"intent"}])
  /\ UNCHANGED <<capsule, rows, capture, snapshot, target, worker, providerVars, history>>

(* The fixed order: namespace, binds, volumes, instance, files.             *)
Rank(i) ==
  CASE i.kind = "project" -> 0 [] i.kind = "bind" -> 1 [] i.kind = "volume" -> 2
    [] i.kind = "instance" -> 3 [] OTHER -> 4
Planned(o) == {i \in Inventory : Row(o, i) = "planned"}
Due(o) == {i \in Planned(o) : \A j \in Planned(o) : Rank(i) <= Rank(j)}

(* resources.begin, outside the try block of its step: when it throws, the   *)
(* provider was not asked, and nothing is uncertain.  A file counts as       *)
(* derived from here on.  A bind mount is adopted without a provider call.  *)
CreateBegin(o, i) ==
  LET adopt == i = BindMount IN
  /\ At(o, "create", "begin") /\ Fenced(o) /\ i \in Due(o)
  /\ SetRow(o, i, IF adopt THEN "adopted" ELSE "creating")
  /\ Acknowledged(o, IF adopt THEN exec[o]
                     ELSE [exec[o] EXCEPT !.step = "call", !.item = i,
                             !.scope = IF i.kind = "file" THEN @ \cup {i} ELSE @])
  /\ UNCHANGED <<op, capsule, capture, snapshot, target, worker, providerVars, history>>

(* Instances and volumes are asynchronous Incus operations; the namespace is *)
(* shared by the owner's capsules and made idempotently, and a file is       *)
(* written into an object: neither is an object of the capsule.              *)
CreateCall(o) ==
  /\ At(o, "create", "call")
  /\ IF exec[o].item \in Managed
     THEN Submit(o, "make", exec[o].item) /\ Goto(o, "await")
     ELSE /\ Goto(o, "record")
          /\ history' = [history EXCEPT !.touched = @ \cup {o}]
          /\ UNCHANGED <<rowVars, worker, providerVars>>

CreateReturns(o) ==
  /\ At(o, "create", "await") /\ exec[o].reply = "ok"
  /\ Becomes(o, [exec[o] EXCEPT !.step = "record", !.reply = "none"])
  /\ UNCHANGED <<rowVars, worker, providerVars, history>>

(* A failure between the call and the acknowledged outcome.  Except for a    *)
(* file, whose fate is that of its backing object, ownership is uncertain.   *)
Uncertain(e) == IF e.item.kind = "file" THEN e ELSE [e EXCEPT !.flags = @ \cup {"uncertain"}]

CreateRecord(o) ==
  LET i == exec[o].item IN
  /\ At(o, "create", "record") /\ Fenced(o) /\ Row(o, i) = "creating"
  /\ SetRow(o, i, IF i = Project THEN "adopted" ELSE "created")
  /\ \/ Becomes(o, [exec[o] EXCEPT !.step = "begin", !.item = NoItem,
                      !.scope = IF i \in Managed THEN @ \cup {i} ELSE @])
     \/ Becomes(o, CreateCaught(Uncertain(exec[o])))
  /\ UNCHANGED <<op, capsule, capture, snapshot, target, worker, providerVars, history>>

(* recordFailure is best effort.                                            *)
CreateItemFails(o) ==
  LET i == exec[o].item IN
  /\ op[o].type = "create" /\ exec[o].step \in {"call", "await", "record"}
  /\ \/ Fenced(o) /\ Row(o, i) = "creating" /\ SetRow(o, i, "error")
     \/ UNCHANGED rows
  /\ Becomes(o, CreateCaught(Uncertain(exec[o])))
  /\ UNCHANGED <<op, capsule, capture, snapshot, target, worker, providerVars, history>>

(* Every item is in its final status: the whole aggregate becomes active.   *)
Finished(o) ==
  \A i \in Inventory : Row(o, i) = IF i \in {Project, BindMount} THEN "adopted" ELSE "created"

CreateAttempt(o) ==
  /\ At(o, "create", "begin") /\ Planned(o) = {}
  /\ Becomes(o, [exec[o] EXCEPT !.step = "complete", !.flags = @ \cup {"attempted"}])
  /\ UNCHANGED <<rowVars, worker, providerVars, history>>

CreateComplete(o) ==
  /\ At(o, "create", "complete") /\ Fenced(o) /\ Finished(o)
  /\ SetStatus(o, "completed")
  /\ capsule' = [capsule EXCEPT ![CapsuleOf(o)] =
                   [status |-> "active", archived |-> FALSE, branch |-> "offline"]]
  /\ Acknowledged(o, Idle)
  /\ UNCHANGED <<rows, capture, snapshot, target, worker, providerVars, history>>

-----------------------------------------------------------------------------
(* Compensation: the objects this process recorded as made, newest first;    *)
(* a failed one is reported and the loop goes on.                            *)

Direct(o) == exec[o].scope \cap Managed
Newest(o) == {i \in Direct(o) : \A j \in Direct(o) : Rank(j) <= Rank(i)}
(* Mutant: an object stays on the list until it is known to be gone. *)
DropsNothing(e, i) == [e EXCEPT !.item = NoItem, !.reply = "none", !.step = "compensate"]
Drops(e, i) == [e EXCEPT !.item = NoItem, !.reply = "none", !.step = "compensate",
                         !.scope = @ \ {i}]
Stuck(e) == [e EXCEPT !.flags = @ \cup {"stuck"}]

CompensateBegin(o, i) ==
  /\ At(o, "create", "compensate") /\ i \in Newest(o)
  /\ \/ /\ Fenced(o) /\ Row(o, i) = "created"
        /\ SetRow(o, i, "deleting")
        /\ \/ Becomes(o, [exec[o] EXCEPT !.step = "delete", !.item = i])
           \/ Becomes(o, Stuck(Drops(exec[o], i)))
     \/ UNCHANGED rows /\ Becomes(o, Stuck(Drops(exec[o], i)))
  /\ UNCHANGED <<op, capsule, capture, snapshot, target, worker, providerVars, history>>

CompensateCall(o) ==
  /\ At(o, "create", "delete")
  /\ Submit(o, "drop", exec[o].item)
  /\ Goto(o, "await_delete")

CompensateReturns(o) ==
  LET i == exec[o].item IN
  /\ At(o, "create", "await_delete") /\ exec[o].reply \in {"ok", "missing"}
  /\ Fenced(o) /\ Row(o, i) = "deleting"
  /\ SetRow(o, i, IF exec[o].reply = "ok" THEN "deleted" ELSE "missing")
  /\ \/ Becomes(o, [Drops(exec[o], i) EXCEPT !.gone = @ \cup {i}])
     \/ Becomes(o, Stuck(Drops(exec[o], i)))
  /\ UNCHANGED <<op, capsule, capture, snapshot, target, worker, providerVars, history>>

CompensateFails(o) ==
  LET i == exec[o].item IN
  /\ At(o, "create", "await_delete")
  /\ \/ Fenced(o) /\ Row(o, i) = "deleting" /\ SetRow(o, i, "error")
     \/ UNCHANGED rows
  /\ Becomes(o, Stuck(Drops(exec[o], i)))
  /\ UNCHANGED <<op, capsule, capture, snapshot, target, worker, providerVars, history>>

(* A derived file went with its backing object.                             *)
CompensateFile(o, i) ==
  /\ At(o, "create", "compensate") /\ Direct(o) = {}
  /\ i \in exec[o].scope /\ BackingOf(i) \in exec[o].gone
  /\ \/ /\ Fenced(o) /\ Row(o, i) \in {"planned", "creating", "created", "error"}
        /\ SetRow(o, i, "deleted")
        /\ Becomes(o, Drops(exec[o], i)) \/ Becomes(o, Stuck(Drops(exec[o], i)))
     \/ UNCHANGED rows /\ Becomes(o, Stuck(Drops(exec[o], i)))
  /\ UNCHANGED <<op, capsule, capture, snapshot, target, worker, providerVars, history>>

NothingMoreGone(o) == \A i \in exec[o].scope : BackingOf(i) \notin exec[o].gone
CompensationEnds(o) ==
  /\ At(o, "create", "compensate") /\ Direct(o) = {} /\ NothingMoreGone(o)
  /\ Becomes(o, [exec[o] EXCEPT !.step = "classify", !.flags = @ \cup {"compensated"}])
  /\ history' = IF Flagged(o, "stuck") THEN history
                ELSE [history EXCEPT !.witnessed = @ \cup (history.touched \cap {o})]
  /\ UNCHANGED <<rowVars, worker, providerVars>>

-----------------------------------------------------------------------------
(* Classification, by the executor or at the next startup.                  *)

Compensable(o, i) ==
  Row(o, i) \in CASE i \in {Project, BindMount} -> {"planned", "adopted"}
                  [] i \in Managed -> {"planned", "deleted", "missing"}
                  [] OTHER -> {"planned", "deleted"}
CompensationProven(o) ==
  Flagged(o, "compensated") /\ ~Flagged(o, "stuck") /\ \A i \in Inventory : Compensable(o, i)

(* The durable evidence agrees with itself.                                 *)
Consistent(o) ==
  /\ Provisioning(o)
  /\ op[o].intent => op[o].status = "running" /\ Materialized(o)
  /\ ~op[o].intent => (Untouched(o) \/ Absent(o))
  /\ Flagged(o, "intent") => op[o].intent

Settles(o, safe) ==
  /\ SetStatus(o, IF safe THEN "failed" ELSE "cleanup_required")
  /\ capsule' = [capsule EXCEPT ![CapsuleOf(o)] =
       [status |-> IF safe THEN "creation_failed" ELSE "cleanup_required",
        archived |-> FALSE,
        branch |-> IF safe THEN "destroyed" ELSE "cleanup_required"]]
  /\ UNCHANGED <<rows, capture, snapshot, target, providerVars, history>>

CreateIsSafe(o) ==
  /\ Consistent(o) /\ ~Flagged(o, "uncertain") /\ ~Flagged(o, "attempted")
  /\ op[o].intent => CompensationProven(o)

(* A terminal row, or a database error, leaves everything as it is.         *)
CreateFail(o) ==
  /\ At(o, "create", "classify")
  /\ \/ op[o].status \in Nonterminal /\ Settles(o, CreateIsSafe(o))
     \/ UNCHANGED <<rowVars, providerVars, history>>
  /\ Becomes(o, Idle)
  /\ UNCHANGED worker

(* Startup holds no executor's memory: an intent means uncertain ownership. *)
(* Mutant: rows that agree with each other are enough. *)
AbandonedIfConsistent(o) == Consistent(o)
AbandonedIsSafe(o) == Consistent(o) /\ ~op[o].intent
AbandonedCreate(o) ==
  /\ Listed(o, "create")
  /\ Settles(o, AbandonedIsSafe(o))

CreateStep(o) ==
  \/ CreateClaim(o) \/ CreateMaterialize(o) \/ CreateCommitIntent(o)
  \/ \E i \in Inventory : CreateBegin(o, i)
  \/ CreateCall(o) \/ CreateReturns(o) \/ CreateRecord(o)
  \/ CreateThrows(o) \/ CreateItemFails(o)
  \/ CreateAttempt(o) \/ CreateComplete(o)
  \/ \E i \in Managed : CompensateBegin(o, i)
  \/ CompensateCall(o) \/ CompensateReturns(o) \/ CompensateFails(o)
  \/ \E i \in exec[o].scope : CompensateFile(o, i)
  \/ CompensationEnds(o)
  \/ CreateFail(o)
=============================================================================
