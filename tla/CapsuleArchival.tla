---------------------------- MODULE CapsuleArchival ----------------------------
(***************************************************************************)
(* Archive and unarchive: two operations that never reach the provider      *)
(* (operations/archival).  They share one execution and the test that makes  *)
(* a failure safe, and differ in the flag they set.                          *)
(***************************************************************************)
EXTENDS CapsuleRows

Archivals == {"archive", "unarchive"}
Fence(type) == IF type = "archive" THEN "archiving" ELSE "unarchiving"

(* Archive also requires the branch's preview to be withdrawn.              *)
AcceptArchival(o, c, type) ==
  /\ capsule[c] = [status |-> "active", archived |-> type = "unarchive", branch |-> "offline"]
  /\ type = "archive" => <<c, Route>> \notin exists
  /\ Insert(o, type, c, FALSE)
  /\ capsule' = [capsule EXCEPT ![c].status = Fence(type)]
  /\ UNCHANGED capture

(* What completion and both classifications require of the row, of the       *)
(* capsule and of its branch.                                               *)
ProviderFree(o) ==
  /\ ~op[o].intent
  /\ capsule[CapsuleOf(o)] = [status |-> Fence(op[o].type),
                              archived |-> op[o].type = "unarchive", branch |-> "offline"]

Archiving(o, step) == op[o].type \in Archivals /\ exec[o].step = step
ArchivalCaught(e) == [e EXCEPT !.step = "classify"]
ArchivalAcks(o, e) == Becomes(o, e) \/ Becomes(o, ArchivalCaught(exec[o]))

ArchivalThrows(o) ==
  /\ op[o].type \in Archivals /\ exec[o].step \in {"claim", "complete"}
  /\ Becomes(o, ArchivalCaught(exec[o]))
  /\ UNCHANGED <<rowVars, worker, providerVars, history>>

ArchivalClaim(o) ==
  /\ Archiving(o, "claim")
  /\ ClaimRow(o)
  /\ ArchivalAcks(o, [exec[o] EXCEPT !.step = "complete"])
  /\ UNCHANGED <<capsule, rows, capture, snapshot, target, worker, providerVars, history>>

ArchivalComplete(o) ==
  /\ Archiving(o, "complete") /\ op[o].status = "running" /\ ProviderFree(o)
  /\ SetStatus(o, "completed")
  /\ capsule' = [capsule EXCEPT ![CapsuleOf(o)] =
       [@ EXCEPT !.status = "active", !.archived = op[o].type = "archive"]]
  /\ ArchivalAcks(o, Idle)
  /\ UNCHANGED <<rows, capture, snapshot, target, worker, providerVars, history>>

ArchivalSettles(o) ==
  /\ SetStatus(o, IF ProviderFree(o) THEN "failed" ELSE "cleanup_required")
  /\ capsule' = [capsule EXCEPT ![CapsuleOf(o)].status =
       CASE ProviderFree(o) -> "active" [] @ = "destroyed" -> @ [] OTHER -> "cleanup_required"]
  /\ UNCHANGED <<rows, capture, snapshot, target, providerVars, history>>

(* A classification that fails itself leaves the operation nonterminal.      *)
ArchivalFail(o) ==
  /\ Archiving(o, "classify")
  /\ \/ op[o].status \in Nonterminal /\ ArchivalSettles(o)
     \/ UNCHANGED <<rowVars, providerVars, history>>
  /\ Becomes(o, Idle)
  /\ UNCHANGED worker

AbandonedArchival(o) ==
  /\ \E type \in Archivals : Listed(o, type)
  /\ ArchivalSettles(o)

ArchivalStep(o) ==
  ArchivalThrows(o) \/ ArchivalClaim(o) \/ ArchivalComplete(o) \/ ArchivalFail(o)
=============================================================================
