--------------------------- MODULE CapsuleSnapshot ---------------------------
(***************************************************************************)
(* Create Snapshot: capture every versioned volume of an offline branch and  *)
(* commit the set, or delete what was captured (operations/snapshot).        *)
(***************************************************************************)
EXTENDS CapsuleRows

AcceptSnapshot(o, c) ==
  /\ capsule[c] = [status |-> "active", archived |-> FALSE, branch |-> "offline"]
  /\ <<c, Route>> \notin exists
  /\ Insert(o, "snapshot_create", c, FALSE)
  /\ capsule' = [capsule EXCEPT ![c].branch = "snapshotting"]
  /\ capture' = [capture EXCEPT ![o] = [v \in Versioned |-> "planned"]]

Snapshotting(o) ==
  capsule[CapsuleOf(o)] = [status |-> "active", archived |-> FALSE, branch |-> "snapshotting"]
AllCaptures(o, statuses) == \A v \in Versioned : capture[o][v] \in statuses

(* repository.prove: the accepted branch state is intact, and no resource    *)
(* moved before the provider intent.                                        *)
Proven(o) ==
  /\ Snapshotting(o)
  /\ op[o].intent => Versioned # {}
  /\ ~op[o].intent => AllCaptures(o, {"planned"})
Running(o) == Proven(o) /\ op[o].status = "running"
SetCapture(o, v, status) == capture' = [capture EXCEPT ![o][v] = status]

(* The catch block: compensation and the last look at the runtime only after *)
(* a first capture was started and before the commit.  An executor that was  *)
(* never told of its claim does not classify: the operation stays as it is   *)
(* until the next startup.                                                   *)
Undoes(e) == "started" \in e.flags /\ "final" \notin e.flags
SnapshotCaught(e) ==
  IF "claimed" \notin e.flags THEN Idle
  ELSE [e EXCEPT !.step = IF Undoes(e) THEN "undo" ELSE "classify",
                 !.item = NoItem, !.reply = "none"]
SnapshotAcks(o, e) == Becomes(o, e) \/ Becomes(o, SnapshotCaught(exec[o]))

SnapshotThrows(o) ==
  /\ op[o].type = "snapshot_create"
  /\ exec[o].step \in {"claim", "revoke", "begin", "record", "commit"}
  /\ Becomes(o, SnapshotCaught(exec[o]))
  /\ UNCHANGED <<rowVars, worker, providerVars, history>>

SnapshotClaim(o) ==
  /\ At(o, "snapshot_create", "claim")
  /\ Proven(o) /\ AllCaptures(o, {"planned"})
  /\ ClaimRow(o)
  /\ SnapshotAcks(o, [exec[o] EXCEPT !.step = "revoke", !.flags = @ \cup {"claimed"}])
  /\ UNCHANGED <<capsule, rows, capture, snapshot, target, worker, providerVars, history>>

(* Host SSH policy blocks the branch and confirms its relays are closed.    *)
SnapshotRevokes(o) ==
  /\ At(o, "snapshot_create", "revoke")
  /\ Becomes(o, [exec[o] EXCEPT !.step = "verify", !.flags = @ \cup {"observed"}])
  /\ UNCHANGED <<rowVars, worker, providerVars, history>>

(* provider.offline: the instance is positively observed to be stopped; any  *)
(* other answer throws, and the runtime stays uncertain.  Two writes of step *)
(* records stand between this observation and the first capture.             *)
(* Mutant: the runtime is not read again before the commit. *)
NotLooked(o) == TRUE
Offline(o) == CapsuleOf(o) \notin running

SnapshotVerifies(o) ==
  /\ At(o, "snapshot_create", "verify")
  /\ \/ /\ CapsuleOf(o) \notin running
        /\ \/ Becomes(o, [exec[o] EXCEPT !.step = "begin", !.flags = @ \cup {"offline", "started"}])
           \/ Becomes(o, SnapshotCaught([exec[o] EXCEPT !.flags = @ \cup {"offline"}]))
     \/ Becomes(o, SnapshotCaught(exec[o]))
  /\ UNCHANGED <<rowVars, worker, providerVars, history>>

(* creating: the first volume carries the provider intent of the operation. *)
SnapshotBegin(o, v) ==
  /\ At(o, "snapshot_create", "begin") /\ Running(o)
  /\ capture[o][v] = "planned" /\ AllCaptures(o, {"planned", "created"})
  /\ SetCapture(o, v, "creating")
  /\ op' = [op EXCEPT ![o].intent = TRUE]
  /\ SnapshotAcks(o, [exec[o] EXCEPT !.step = "call", !.item = Snapshot(v, o)])
  /\ UNCHANGED <<capsule, rows, snapshot, target, worker, providerVars, history>>

SnapshotCall(o) ==
  /\ At(o, "snapshot_create", "call")
  /\ Submit(o, "make", exec[o].item)
  /\ Goto(o, "await")

SnapshotReturns(o) ==
  /\ At(o, "snapshot_create", "await") /\ exec[o].reply = "ok"
  /\ Becomes(o, [exec[o] EXCEPT !.step = "record", !.reply = "none"])
  /\ UNCHANGED <<rowVars, worker, providerVars, history>>

SnapshotCallFails(o) ==
  LET v == exec[o].item.name IN
  /\ op[o].type = "snapshot_create" /\ exec[o].step \in {"call", "await"}
  /\ \/ Running(o) /\ capture[o][v] = "creating" /\ SetCapture(o, v, "error")
     \/ UNCHANGED capture
  /\ Becomes(o, SnapshotCaught(exec[o]))
  /\ UNCHANGED <<op, capsule, rows, snapshot, target, worker, providerVars, history>>

SnapshotRecord(o) ==
  LET v == exec[o].item.name IN
  /\ At(o, "snapshot_create", "record") /\ Running(o)
  /\ op[o].intent /\ capture[o][v] = "creating"
  /\ SetCapture(o, v, "created")
  /\ SnapshotAcks(o, [exec[o] EXCEPT !.step = "begin", !.item = NoItem])
  /\ UNCHANGED <<op, capsule, rows, snapshot, target, worker, providerVars, history>>

(* The runtime is read once more; from here the commit may have happened.   *)
SnapshotFinalizes(o) ==
  /\ At(o, "snapshot_create", "begin") /\ \A v \in Versioned : capture[o][v] # "planned"
  /\ \/ /\ Offline(o)
        /\ Becomes(o, [exec[o] EXCEPT !.step = "commit", !.flags = @ \cup {"final"}])
     \/ Becomes(o, SnapshotCaught([exec[o] EXCEPT !.flags = @ \ {"offline"}]))
  /\ UNCHANGED <<rowVars, worker, providerVars, history>>

SnapshotCommit(o) ==
  /\ At(o, "snapshot_create", "commit") /\ Running(o)
  /\ AllCaptures(o, {"created"}) /\ op[o].intent = (Versioned # {})
  /\ snapshot' = [snapshot EXCEPT ![o] = "committed"]
  /\ SetStatus(o, "completed")
  /\ capsule' = [capsule EXCEPT ![CapsuleOf(o)].branch = "offline"]
  /\ SnapshotAcks(o, Idle)
  /\ UNCHANGED <<rows, capture, target, worker, providerVars, history>>

-----------------------------------------------------------------------------
(* Compensation reads the rows once, then covers each in turn.              *)

UndoBegins(o) ==
  /\ At(o, "snapshot_create", "undo")
  /\ \/ Running(o) /\ Becomes(o, [exec[o] EXCEPT !.step = "compensate", !.scope = Captured(o)])
     \/ Goto(o, "recheck")
  /\ UNCHANGED <<rowVars, worker, providerVars, history>>

Covered(e, i) == [e EXCEPT !.step = "compensate", !.item = NoItem, !.reply = "none",
                           !.scope = @ \ {i}]
Missed(e, i) == [Covered(e, i) EXCEPT !.flags = @ \cup {"stuck"}]

UndoPasses(o, i) ==
  /\ At(o, "snapshot_create", "compensate") /\ i \in exec[o].scope
  /\ capture[o][i.name] # "created"
  /\ Becomes(o, IF capture[o][i.name] = "planned" THEN Covered(exec[o], i) ELSE Missed(exec[o], i))
  /\ UNCHANGED <<rowVars, worker, providerVars, history>>

UndoBegin(o, i) ==
  /\ At(o, "snapshot_create", "compensate") /\ i \in exec[o].scope
  /\ capture[o][i.name] = "created"
  /\ \/ /\ Running(o) /\ op[o].intent
        /\ SetCapture(o, i.name, "deleting")
        /\ \/ Becomes(o, [exec[o] EXCEPT !.step = "delete", !.item = i])
           \/ Becomes(o, Missed(exec[o], i))
     \/ UNCHANGED capture /\ Becomes(o, Missed(exec[o], i))
  /\ UNCHANGED <<op, capsule, rows, snapshot, target, worker, providerVars, history>>

UndoCall(o) ==
  /\ At(o, "snapshot_create", "delete")
  /\ Submit(o, "drop", exec[o].item)
  /\ Goto(o, "await_delete")

UndoReturns(o) ==
  LET i == exec[o].item IN
  /\ At(o, "snapshot_create", "await_delete") /\ exec[o].reply \in {"ok", "missing"}
  /\ Running(o) /\ capture[o][i.name] = "deleting"
  /\ SetCapture(o, i.name, IF exec[o].reply = "ok" THEN "deleted" ELSE "missing")
  /\ Becomes(o, Covered(exec[o], i)) \/ Becomes(o, Missed(exec[o], i))
  /\ UNCHANGED <<op, capsule, rows, snapshot, target, worker, providerVars, history>>

UndoFails(o) ==
  LET i == exec[o].item IN
  /\ At(o, "snapshot_create", "await_delete")
  /\ \/ Running(o) /\ capture[o][i.name] = "deleting" /\ SetCapture(o, i.name, "error")
     \/ UNCHANGED capture
  /\ Becomes(o, Missed(exec[o], i))
  /\ UNCHANGED <<op, capsule, rows, snapshot, target, worker, providerVars, history>>

UndoEnds(o) ==
  /\ At(o, "snapshot_create", "compensate") /\ exec[o].scope = {}
  /\ Becomes(o, [exec[o] EXCEPT !.step = "recheck",
                   !.flags = IF "stuck" \in @ THEN @ ELSE @ \cup {"compensated"}])
  /\ history' = IF Flagged(o, "stuck") THEN history
                ELSE [history EXCEPT !.witnessed = @ \cup (history.touched \cap {o})]
  /\ UNCHANGED <<rowVars, worker, providerVars>>

(* A runtime once seen offline must be seen offline again.                  *)
SnapshotRechecks(o) ==
  /\ At(o, "snapshot_create", "recheck")
  /\ \/ /\ Flagged(o, "offline") => CapsuleOf(o) \notin running
        /\ Goto(o, "classify")
     \/ Becomes(o, [exec[o] EXCEPT !.step = "classify", !.flags = @ \ {"offline"}])
  /\ UNCHANGED <<rowVars, worker, providerVars, history>>

-----------------------------------------------------------------------------
(* Classification.                                                          *)

Pristine(o) == Proven(o) /\ ~op[o].intent
Undone(o) ==
  /\ Proven(o) /\ op[o].intent
  /\ \E v \in Versioned : capture[o][v] \in {"deleted", "missing"}
  /\ AllCaptures(o, {"planned", "deleted", "missing"})

SnapshotSettles(o, safe) ==
  LET k == capsule[CapsuleOf(o)] IN
  /\ SetStatus(o, IF safe THEN "failed" ELSE "cleanup_required")
  /\ capsule' = [capsule EXCEPT ![CapsuleOf(o)] =
       IF safe THEN [k EXCEPT !.branch = "offline"]
       ELSE [k EXCEPT
               !.status = IF k.status = "destroyed" THEN "destroyed" ELSE "cleanup_required",
               !.branch = IF k.branch = "snapshotting" THEN "cleanup_required" ELSE k.branch]]
  /\ UNCHANGED <<rows, capture, snapshot, target, providerVars, history>>

(* Mutant: a set that was not committed counts as undone. *)
SafeUnlessCommitted(o) == Proven(o) /\ Flagged(o, "offline") /\ ~Flagged(o, "final")
SnapshotIsSafe(o) ==
  /\ Pristine(o) \/ (Flagged(o, "compensated") /\ Undone(o))
  /\ Flagged(o, "offline") \/ (~Flagged(o, "observed") /\ Pristine(o))
  /\ ~Flagged(o, "final")

SnapshotFail(o) ==
  /\ At(o, "snapshot_create", "classify")
  /\ \/ op[o].status \in Nonterminal /\ SnapshotSettles(o, SnapshotIsSafe(o))
     \/ UNCHANGED <<rowVars, providerVars, history>>
  /\ Becomes(o, Idle)
  /\ UNCHANGED worker

AbandonedSnapshot(o) ==
  /\ Listed(o, "snapshot_create")
  /\ SnapshotSettles(o, Pristine(o))

SnapshotStep(o) ==
  \/ SnapshotThrows(o) \/ SnapshotClaim(o) \/ SnapshotRevokes(o) \/ SnapshotVerifies(o)
  \/ \E v \in Versioned : SnapshotBegin(o, v)
  \/ SnapshotCall(o) \/ SnapshotReturns(o) \/ SnapshotCallFails(o) \/ SnapshotRecord(o)
  \/ SnapshotFinalizes(o) \/ SnapshotCommit(o)
  \/ UndoBegins(o)
  \/ \E i \in exec[o].scope : UndoPasses(o, i) \/ UndoBegin(o, i)
  \/ UndoCall(o) \/ UndoReturns(o) \/ UndoFails(o) \/ UndoEnds(o)
  \/ SnapshotRechecks(o)
  \/ SnapshotFail(o)
=============================================================================
