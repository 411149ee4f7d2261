---------------------------- MODULE CapsuleDestroy ----------------------------
(***************************************************************************)
(* Destroy: plan every object the capsule's history can have left behind,    *)
(* then delete each with a read before and a read after, and only then call  *)
(* the capsule destroyed (operations/destroy).                               *)
(***************************************************************************)
EXTENDS CapsuleRows

(* A forced destroy needs no particular state: it is how a capsule that      *)
(* requires cleanup is retried.                                             *)
AcceptDestroy(o, c, force) ==
  /\ capsule[c].status \notin {"absent", "destroyed"}
  /\ ~force => capsule[c] = [status |-> "active", archived |-> TRUE, branch |-> "offline"]
  /\ Insert(o, "destroy", c, force)
  /\ capsule' = [capsule EXCEPT ![c] =
       [capsule[c] EXCEPT !.status = "destroying",
          !.branch = IF capsule[c].branch = "destroyed" THEN "destroyed" ELSE "destroying"]]
  /\ UNCHANGED capture

(* repository.assertExecution, which every transaction of the executor runs. *)
Destroying(o, status) ==
  /\ op[o].status = status
  /\ capsule[CapsuleOf(o)].status = "destroying"
  /\ op[o].force \/ capsule[CapsuleOf(o)].archived
  /\ capsule[CapsuleOf(o)].branch \in {"destroying", "destroyed"}

HasPlan(o) == target[o] # NoTargets
SetTarget(o, i, status) == target' = [target EXCEPT ![o][i] = status]

DestroyCaught(e) == [e EXCEPT !.step = "classify", !.item = NoItem]
DestroyAcks(o, e) == Becomes(o, e) \/ Becomes(o, DestroyCaught(exec[o]))

(* A transaction, the SSH revocation or the recording of an observation may  *)
(* throw; a route table that does not match throws out of its deletion too.  *)
DestroyThrows(o) ==
  /\ op[o].type = "destroy"
  /\ \/ exec[o].step \in {"claim", "plan", "retire", "revoke", "fence", "next", "intent", "after"}
     \/ exec[o].item = Route /\ exec[o].step = "await_delete"
  /\ Becomes(o, DestroyCaught(exec[o]))
  /\ UNCHANGED <<rowVars, worker, providerVars, history>>

DestroyClaim(o) ==
  /\ At(o, "destroy", "claim") /\ Destroying(o, "accepted")
  /\ ClaimRow(o)
  /\ DestroyAcks(o, [exec[o] EXCEPT !.step = "plan"])
  /\ UNCHANGED <<capsule, rows, capture, snapshot, target, worker, providerVars, history>>

(* Targets are proven from the history, never from the provider: what create *)
(* names, and the snapshot of every volume any capture planned, committed or *)
(* not.  The branch is taken to have a preview row.                          *)
Targets(c) ==
  Managed \cup {Route} \cup
  {i \in UNION {Captured(p) : p \in OpIds} : CapsuleOf(i.op) = c /\ capture[i.op][i.name] # "none"}

DestroyPlan(o) ==
  /\ At(o, "destroy", "plan") /\ Destroying(o, "running") /\ ~op[o].intent
  /\ Owner(CapsuleOf(o)) = {o}
  /\ ~HasPlan(o)
  /\ target' = [target EXCEPT ![o] = [i \in Targets(CapsuleOf(o)) |-> "planned"]]
  /\ DestroyAcks(o, [exec[o] EXCEPT !.step = "retire"])
  /\ UNCHANGED <<op, capsule, rows, capture, snapshot, worker, providerVars, history>>

(* A second transaction retires every usable snapshot.                       *)
(* Mutant: the snapshots stay usable while their objects are deleted. *)
RetiresNone(c) == snapshot
Retires(c) == [p \in OpIds |-> IF p \in Usable(c) THEN "retired" ELSE snapshot[p]]
DestroyRetire(o) ==
  /\ At(o, "destroy", "retire") /\ Destroying(o, "running") /\ HasPlan(o) /\ ~op[o].intent
  /\ snapshot' = Retires(CapsuleOf(o))
  /\ DestroyAcks(o, [exec[o] EXCEPT !.step = "revoke"])
  /\ UNCHANGED <<op, capsule, rows, capture, target, worker, providerVars, history>>

(* Host SSH policy blocks every branch and its report is recorded.          *)
DestroyRevokes(o) ==
  /\ At(o, "destroy", "revoke") /\ HasPlan(o) /\ ~op[o].intent
  /\ Goto(o, "fence")
  /\ UNCHANGED <<rowVars, worker, providerVars, history>>

DestroyFence(o) ==
  /\ At(o, "destroy", "fence") /\ Destroying(o, "running") /\ HasPlan(o)
  /\ ~op[o].intent
  /\ op' = [op EXCEPT ![o].intent = TRUE]
  /\ DestroyAcks(o, [exec[o] EXCEPT !.step = "next"])
  /\ UNCHANGED <<capsule, rows, capture, snapshot, target, worker, providerVars, history>>

-----------------------------------------------------------------------------
(* One target after the other: routes, instance, snapshots, volumes.         *)

Depth(i) ==
  CASE i = Route -> 0 [] i = Instance -> 1 [] i.kind = "snapshot" -> 2 [] OTHER -> 3
Left(o) == {i \in DOMAIN target[o] : target[o][i] = "planned"}
DueTargets(o) == {i \in Left(o) : \A j \in Left(o) : Depth(i) <= Depth(j)}

(* Incus is believed only while no operation of the project is in progress.  *)
Readable(i) == i = Route \/ ProjectIdle
Present(o, i) == <<CapsuleOf(o), i>> \in exists

DestroyFindsAbsent(o, i) ==
  /\ At(o, "destroy", "next") /\ i \in DueTargets(o)
  /\ Readable(i) /\ ~Present(o, i)
  /\ SetTarget(o, i, "absent")
  /\ DestroyAcks(o, exec[o])
  /\ UNCHANGED <<op, capsule, rows, capture, snapshot, worker, providerVars, history>>

DestroyFindsPresent(o, i) ==
  /\ At(o, "destroy", "next") /\ i \in DueTargets(o)
  /\ Readable(i) /\ Present(o, i)
  /\ DestroyAcks(o, [exec[o] EXCEPT !.step = "intent", !.item = i])
  /\ UNCHANGED <<rowVars, worker, providerVars, history>>

(* A read that fails is recorded, and ends the operation.                    *)
DestroyCannotRead(o, i) ==
  /\ \/ At(o, "destroy", "next") /\ i \in DueTargets(o)
     \/ At(o, "destroy", "after") /\ i = exec[o].item
  /\ SetTarget(o, i, "unresolved")
  /\ Becomes(o, DestroyCaught(exec[o]))
  /\ UNCHANGED <<op, capsule, rows, capture, snapshot, worker, providerVars, history>>

DestroyIntent(o) ==
  LET i == exec[o].item IN
  /\ At(o, "destroy", "intent") /\ op[o].intent /\ target[o][i] = "planned"
  /\ SetTarget(o, i, "deleting")
  /\ DestroyAcks(o, [exec[o] EXCEPT !.step = "delete"])
  /\ UNCHANGED <<op, capsule, rows, capture, snapshot, worker, providerVars, history>>

(* A running instance is stopped first; its state is not read again.         *)
DestroyStop(o) ==
  /\ At(o, "destroy", "delete") /\ exec[o].item = Instance /\ CapsuleOf(o) \in running
  /\ Submit(o, "stop", Instance)
  /\ Goto(o, "await_stop")

DestroyDrop(o) ==
  /\ \/ /\ At(o, "destroy", "delete")
        /\ exec[o].item = Instance => CapsuleOf(o) \notin running
     \/ At(o, "destroy", "await_stop") /\ exec[o].reply = "ok"
  /\ Submit(o, "drop", exec[o].item)
  /\ Becomes(o, [exec[o] EXCEPT !.step = "await_delete", !.reply = "none"])

(* However the deletion ended, what counts is the read after it.             *)
DestroyDeleted(o) ==
  /\ op[o].type = "destroy" /\ exec[o].step \in {"delete", "await_stop", "await_delete"}
  /\ Becomes(o, [exec[o] EXCEPT !.step = "after", !.reply = "none"])
  /\ UNCHANGED <<rowVars, worker, providerVars, history>>

DestroySettle(o) ==
  LET i == exec[o].item IN
  /\ At(o, "destroy", "after") /\ Readable(i)
  /\ op[o].intent /\ target[o][i] = "deleting"
  /\ IF Present(o, i)
     THEN SetTarget(o, i, "unresolved") /\ Becomes(o, DestroyCaught(exec[o]))
     ELSE /\ SetTarget(o, i, "deleted")
          /\ DestroyAcks(o, [exec[o] EXCEPT !.step = "next", !.item = NoItem])
  /\ UNCHANGED <<op, capsule, rows, capture, snapshot, worker, providerVars, history>>

DestroyComplete(o) ==
  /\ At(o, "destroy", "next") /\ Left(o) = {} /\ Destroying(o, "running") /\ HasPlan(o)
  /\ \A i \in DOMAIN target[o] :
       target[o][i] = "absent" \/ (target[o][i] = "deleted" /\ op[o].intent)
  /\ Usable(CapsuleOf(o)) = {}
  /\ SetStatus(o, "completed")
  /\ capsule' = [capsule EXCEPT ![CapsuleOf(o)] =
       [@ EXCEPT !.status = "destroyed", !.branch = "destroyed"]]
  /\ DestroyAcks(o, Idle)
  /\ UNCHANGED <<rows, capture, snapshot, target, worker, providerVars, history>>

-----------------------------------------------------------------------------
(* Classification: the same transaction for an executor and at startup.      *)

(* Mutant: a normal destroy is undone whatever it has deleted. *)
RestoresNormal(o) == ~op[o].force
Restores(o) ==
  /\ ~op[o].force /\ ~op[o].intent /\ ~HasPlan(o)
  /\ capsule[CapsuleOf(o)] = [status |-> "destroying", archived |-> TRUE, branch |-> "destroying"]

(* Mutant: the status of another table. *)
UnsettledAsError(status) == IF status \in {"planned", "deleting"} THEN "error" ELSE status
Unsettled(status) == IF status \in {"planned", "deleting"} THEN "unresolved" ELSE status
CleanedUp(status) == IF status = "destroyed" THEN "destroyed" ELSE "cleanup_required"
DestroySettles(o) ==
  LET k == capsule[CapsuleOf(o)] IN
  /\ SetStatus(o, IF Restores(o) THEN "failed" ELSE "cleanup_required")
  /\ target' = [target EXCEPT ![o] = [i \in DOMAIN target[o] |-> Unsettled(target[o][i])]]
  /\ capsule' = [capsule EXCEPT ![CapsuleOf(o)] =
       IF Restores(o) THEN [k EXCEPT !.status = "active", !.branch = "offline"]
       ELSE [k EXCEPT !.status = CleanedUp(k.status), !.branch = CleanedUp(k.branch)]]
  /\ UNCHANGED <<rows, capture, snapshot, providerVars, history>>

DestroyFail(o) ==
  /\ At(o, "destroy", "classify")
  /\ \/ op[o].status \in Nonterminal /\ DestroySettles(o)
     \/ UNCHANGED <<rowVars, providerVars, history>>
  /\ Becomes(o, Idle)
  /\ UNCHANGED worker

AbandonedDestroy(o) ==
  /\ Listed(o, "destroy")
  /\ DestroySettles(o)

DestroyStep(o) ==
  \/ DestroyThrows(o) \/ DestroyClaim(o) \/ DestroyPlan(o) \/ DestroyRetire(o)
  \/ DestroyRevokes(o) \/ DestroyFence(o)
  \/ \E i \in DOMAIN target[o] :
       DestroyFindsAbsent(o, i) \/ DestroyFindsPresent(o, i) \/ DestroyCannotRead(o, i)
  \/ DestroyIntent(o) \/ DestroyStop(o) \/ DestroyDrop(o) \/ DestroyDeleted(o)
  \/ DestroySettle(o) \/ DestroyComplete(o) \/ DestroyFail(o)
=============================================================================
