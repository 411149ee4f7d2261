--------------------------- MODULE PreviewRouting ---------------------------
(***************************************************************************)
(* Live previews of one branch: preview rows, the per-process coordinator   *)
(* that serialises passes and withdrawals, the controller that moves routes *)
(* towards the rows, and the branch operations that gate on the rows.       *)
(* A coordinator's work on one preview is a job: database transactions,     *)
(* table reads and one mutation, with anything in between.                  *)
(* All applications of the Blueprint are proxied and its pins never change. *)
(***************************************************************************)
EXTENDS Naturals, CaddyRoutes

CONSTANTS
  MaxBoots,    \* bound: Worker processes started after the first
  MaxChanges,  \* bound: branch changes accepted or observed, and shutdowns
  Overlap      \* may a replacement start while a superseded Worker runs?

ASSUME BoundAssumption == MaxBoots \in Nat /\ MaxChanges \in Nat /\ Overlap \in BOOLEAN

VARIABLES
  preview,  \* capsule_branch_previews rows
  branch,   \* capsule_branches row: status and runtimeIp
  op,       \* the nonterminal operation of the capsule, if any
  job,      \* what each process's coordinator is doing
  running,  \* processes that run
  serving,  \* processes past startup, which accept commands
  quiet,    \* processes whose coordinator is stopped
  boots, changes

rowVars == <<preview, branch, op>>
processVars == <<job, running, serving, quiet, boots>>
vars == <<caddyVars, rowVars, processVars, changes>>

-----------------------------------------------------------------------------
Routed == {"verifying", "active", "degraded"}  \* REMOVABLE, DEGRADEABLE
Applyable == Routed \cup {"inactive"}
PreviewStatuses == Applyable \cup {"applying", "removing", "cleanup_required"}
Rows == [status : PreviewStatuses, withdrawal : BOOLEAN,
         current : Ips \cup {NoIp}, pending : Ips \cup {NoIp}]

BranchStatuses == {"online", "offline", "starting", "stopping", "cleanup_required"}
OpSteps == {"none", "withdraw", "withdrawing", "gate", "stop", "start", "resume", "complete"}

FreshRow == [status |-> "inactive", withdrawal |-> FALSE, current |-> NoIp, pending |-> NoIp]
NoOp == [step |-> "none", by |-> NoWorker]
NoBranch == [status |-> "offline", ip |-> NoIp]
EmptyTable == [p \in Previews |-> NoIp]

NoJob ==
  [kind |-> "none", step |-> "none", reads |-> {}, todo |-> {}, stale |-> {},
   branch |-> NoBranch, blocked |-> FALSE,
   rows |-> [p \in Previews |-> FreshRow],
   at |-> {}, table |-> EmptyTable]

Init ==
  /\ CaddyInit
  /\ preview = [p \in Previews |-> FreshRow]
  /\ branch \in {NoBranch} \cup [status : {"online"}, ip : Ips]
  /\ op = NoOp
  /\ job = [w \in Workers |-> NoJob]
  /\ running \in {{w} : w \in Workers}
  /\ serving = running
  /\ quiet = {}
  /\ boots = 0 /\ changes = 0

(* operationBlocked, read.ts and route.ts. *)
OperationBlocked == op.step # "none"
Eligible(b) == b.status = "online" /\ b.ip # NoIp

-----------------------------------------------------------------------------
(* Transitions of a row, persistence/route.ts and verification.ts.  Each    *)
(* transaction works on the locked row; a status that does not fit makes it *)
(* throw.                                                                   *)

Inactive(r) == [r EXCEPT !.status = "inactive", !.current = NoIp, !.pending = NoIp]
Applying(r, ip) == [r EXCEPT !.status = "applying", !.pending = ip]
Applied(r) == [r EXCEPT !.status = "verifying", !.current = r.pending, !.pending = NoIp]
(* Mutant: a status no transition starts from. *)
RejectedApply(r) == [r EXCEPT !.status = "apply_rejected", !.pending = NoIp]
RejectApply(r) ==
  IF r.current = NoIp THEN Inactive(r) ELSE [r EXCEPT !.status = "degraded", !.pending = NoIp]
Becomes(r, status) == [r EXCEPT !.status = status]

(* A write by w makes the copies other coordinators hold out of date: their *)
(* status and updatedAt no longer match.                                    *)
Stale(w, ps, jobs) ==
  [v \in Workers |-> IF v = w THEN jobs[v] ELSE [jobs[v] EXCEPT !.stale = @ \cup ps]]

-----------------------------------------------------------------------------
(* A job.  job[w].at holds the preview being worked on, job[w].rows the     *)
(* copies of the rows, job[w].table the last table read.                    *)

Busy(w, step) == w \in running /\ job[w].step = step
AtStep(w, step, p) == Busy(w, step) /\ p \in job[w].at
Withdrawing(w) == job[w].kind \in {"removal", "withdrawal"}

Goto(w, step) == job' = [job EXCEPT ![w].step = step]
NextPreview(w) == [job EXCEPT ![w].step = "next", ![w].at = {}, ![w].table = EmptyTable]

Writes(w, p, row, step) ==
  /\ preview' = [preview EXCEPT ![p] = row]
  /\ job' = Stale(w, {p}, [job EXCEPT ![w].rows[p] = row, ![w].step = step])

WritesLast(w, p, row) ==
  /\ preview' = [preview EXCEPT ![p] = row]
  /\ job' = Stale(w, {p}, NextPreview(w))

(* A transaction that throws because another process moved the row: the     *)
(* guarded cleanup that follows changes nothing, and a withdrawal outside   *)
(* its try block gives up the whole job.                                    *)
Throws(w) ==
  /\ job' = IF Withdrawing(w) THEN [NextPreview(w) EXCEPT ![w].step = "failed"]
            ELSE NextPreview(w)
  /\ UNCHANGED preview

(* failure.ts: guarded by the observed status and updatedAt. *)
CleanupApplies(w, p) == p \notin job[w].stale /\ preview[p].status # "cleanup_required"
Cleanup(w, p) ==
  IF CleanupApplies(w, p)
  THEN WritesLast(w, p, Becomes(preview[p], "cleanup_required"))
  ELSE job' = NextPreview(w) /\ UNCHANGED preview

-----------------------------------------------------------------------------
(* Reading and planning a pass, reconciliation.ts and reconcile().          *)

(* exclusive: one job per process, none once the coordinator is stopped.    *)
Free(w) == w \in running /\ job[w].kind = "none"

Pass == [NoJob EXCEPT !.kind = "pass", !.step = "read", !.reads = {"branch", "operation", "rows"}]

StartPass(w) ==
  /\ Free(w) /\ w \in serving \ quiet
  /\ job' = [job EXCEPT ![w] = Pass]
  /\ UNCHANGED <<caddyVars, rowVars, running, serving, quiet, boots, changes>>

(* Three queries on three connections: no common snapshot.                  *)
Read(w) ==
  /\ Busy(w, "read")
  /\ \E q \in job[w].reads :
       job' = [job EXCEPT ![w].reads = @ \ {q},
                          ![w].branch = IF q = "branch" THEN branch ELSE @,
                          ![w].blocked = IF q = "operation" THEN OperationBlocked ELSE @,
                          ![w].rows = IF q = "rows" THEN preview ELSE @,
                          ![w].stale = IF q = "rows" THEN {} ELSE @]
  /\ UNCHANGED <<caddyVars, rowVars, running, serving, quiet, boots, changes>>

Finish(w) == [job EXCEPT ![w] = NoJob]

(* The rows, marked for withdrawal in the transaction that reads them.      *)
Withdrawn == [p \in Previews |-> [preview[p] EXCEPT !.withdrawal = TRUE]]
RequestWithdrawal(w, kind) ==
  /\ preview' = Withdrawn
  /\ job' = Stale(w, {p \in Previews : ~preview[p].withdrawal},
                  [job EXCEPT ![w] = [NoJob EXCEPT !.kind = kind, !.step = "next",
                                                   !.todo = Previews, !.rows = Withdrawn]])

PlanPass(w) ==
  /\ Busy(w, "read") /\ job[w].reads = {}
  /\ LET requested == \E p \in Previews : job[w].rows[p].withdrawal
     IN \/ job[w].blocked /\ job' = Finish(w) /\ UNCHANGED preview
        \/ ~job[w].blocked /\ requested /\ RequestWithdrawal(w, "removal")
        \/ /\ ~job[w].blocked /\ ~requested
           /\ job' = [job EXCEPT ![w].kind = IF Eligible(job[w].branch) THEN "pass" ELSE "removal",
                                 ![w].step = "next", ![w].todo = Previews]
           /\ UNCHANGED preview
  /\ UNCHANGED <<caddyVars, branch, op, running, serving, quiet, boots, changes>>

(* The Blueprint pins cannot be loaded: every row of the pass.              *)
ProvenanceFails(w) ==
  /\ Busy(w, "next") /\ job[w].kind = "pass" /\ job[w].todo = Previews
  /\ LET failing == {p \in Previews : CleanupApplies(w, p)}
     IN /\ preview' = [p \in Previews |-> IF p \in failing THEN Becomes(preview[p], "cleanup_required")
                                          ELSE preview[p]]
        /\ job' = Stale(w, failing, Finish(w))
  /\ UNCHANGED <<caddyVars, branch, op, running, serving, quiet, boots, changes>>

(* ensure(): admission under the capsule lock.  A refusal ends reconcile(). *)
(* Mutant: withdrawal was checked when the pass was planned. *)
AdmitsWithdrawn(w, p) ==
  ~OperationBlocked /\ branch.status = "online" /\ branch.ip = job[w].branch.ip
Admits(w, p) ==
  /\ ~OperationBlocked
  /\ branch.status = "online" /\ branch.ip = job[w].branch.ip
  /\ ~preview[p].withdrawal

Ensure(w, p) ==
  /\ Busy(w, "next") /\ job[w].kind = "pass" /\ p \in job[w].todo
  /\ job' = IF ~Admits(w, p) THEN Finish(w)
            ELSE [job EXCEPT ![w].todo = @ \ {p},
                             ![w].rows[p] = preview[p],
                             ![w].stale = @ \ {p},
                             ![w].at = IF preview[p].status = "cleanup_required" THEN {} ELSE {p},
                             ![w].step = IF preview[p].status = "cleanup_required" THEN "next" ELSE "inspect"]
  /\ UNCHANGED <<caddyVars, rowVars, running, serving, quiet, boots, changes>>

NextWithdrawal(w, p) ==
  /\ Busy(w, "next") /\ Withdrawing(w) /\ p \in job[w].todo
  /\ job' = IF job[w].rows[p].status = "cleanup_required"
            THEN [job EXCEPT ![w].todo = @ \ {p}]
            ELSE [job EXCEPT ![w].todo = @ \ {p}, ![w].at = {p}, ![w].step = "inspect"]
  /\ UNCHANGED <<caddyVars, rowVars, running, serving, quiet, boots, changes>>

-----------------------------------------------------------------------------
(* One preview.                                                             *)

(* readCaddy: a failed read requires cleanup.                               *)
ReadTable(w, p, step) ==
  \/ /\ job' = [job EXCEPT ![w].table = routes, ![w].step = step]
     /\ UNCHANGED preview
  \/ Cleanup(w, p)

Inspect(w, p) ==
  /\ AtStep(w, "inspect", p)
  /\ ReadTable(w, p, "decide")
  /\ UNCHANGED <<caddyVars, branch, op, running, serving, quiet, boots, changes>>

Observed(w, p) == job[w].table[p]

(* recovery.ts, recoverApply: the pending configuration is looked for first. *)
(* Mutant: an absent route is taken for a mutation without effect. *)
AbsentIsRetained(row, o) ==
  IF o = row.pending THEN "pending_applied"
  ELSE IF o \in {row.current, NoIp} THEN "current_retained" ELSE "unknown"
RecoverApply(row, o) ==
  IF o = NoIp THEN "absent" ELSE IF o = row.pending THEN "pending_applied"
  ELSE IF o = row.current THEN "current_retained" ELSE "unknown"

(* recoverApplying: the row says a mutation was under way.                  *)
DecideApplying(w, p) ==
  LET row == job[w].rows[p]
      kind == RecoverApply(row, Observed(w, p))
  IN /\ row.status = "applying"
     /\ LET next == IF kind = "pending_applied" THEN Applied(preview[p]) ELSE RejectApply(preview[p])
            continues == \/ Withdrawing(w)
                         \/ kind = "pending_applied" /\ ~preview[p].withdrawal
        IN IF kind \in {"absent", "unknown"} THEN Cleanup(w, p)
           ELSE IF preview[p].status # "applying" THEN Throws(w)
           ELSE IF continues THEN Writes(w, p, next, "decide")
           ELSE WritesLast(w, p, next)

(* recoverRemoving, from a withdrawal or after a rejected deletion.         *)
RecoverRemoval(w, p) ==
  LET row == job[w].rows[p]
      o == Observed(w, p)
  IN IF o # NoIp /\ o # row.current THEN Cleanup(w, p)
     ELSE IF preview[p].status = "cleanup_required" \/ (o # NoIp /\ preview[p].status # "removing")
     THEN Throws(w)
     ELSE WritesLast(w, p, IF o = NoIp THEN Inactive(preview[p]) ELSE Becomes(preview[p], "degraded"))

DecideWithdrawal(w, p) ==
  LET row == job[w].rows[p]
      o == Observed(w, p)
  IN /\ Withdrawing(w) /\ row.status # "applying"
     /\ \/ row.status = "removing" /\ RecoverRemoval(w, p)
        \/ /\ row.status # "removing" /\ o = NoIp
           /\ IF row.status = "inactive" THEN job' = NextPreview(w) /\ UNCHANGED preview
              ELSE IF preview[p].status = "cleanup_required" THEN Throws(w)
              ELSE WritesLast(w, p, Inactive(preview[p]))
        \/ /\ row.status # "removing" /\ o # NoIp
           /\ IF row.status = "inactive" \/ o # row.current THEN Cleanup(w, p)
              ELSE IF preview[p].status \notin Routed THEN Throws(w)
              ELSE Writes(w, p, Becomes(preview[p], "removing"), "send")

(* apply(): an absent route is created, a known one verified or replaced,   *)
(* any other requires cleanup.                                              *)
DecideApply(w, p) ==
  LET row == job[w].rows[p]
      o == Observed(w, p)
  IN /\ ~Withdrawing(w) /\ row.status # "applying"
     /\ \/ /\ o = NoIp /\ row.status # "inactive"
           /\ IF preview[p].status = "cleanup_required" THEN Throws(w)
              ELSE Writes(w, p, Inactive(preview[p]), "probe")
        \/ o = NoIp /\ row.status = "inactive" /\ Goto(w, "probe") /\ UNCHANGED preview
        \/ /\ o # NoIp /\ (row.status = "inactive" \/ o # row.current)
           /\ Cleanup(w, p)
        \/ /\ o # NoIp /\ row.status # "inactive" /\ o = row.current
           /\ Goto(w, IF o = job[w].branch.ip THEN "verify" ELSE "probe")
           /\ UNCHANGED preview

Decide(w, p) ==
  /\ AtStep(w, "decide", p)
  /\ DecideApplying(w, p) \/ DecideWithdrawal(w, p) \/ DecideApply(w, p)
  /\ UNCHANGED <<caddyVars, branch, op, running, serving, quiet, boots, changes>>

(* probe.upstream before a creation or a replacement.  A row that cannot be *)
(* degraded, one that is removing, makes the record of the failure throw:   *)
(* reconcile() catches it and requires cleanup.                             *)
Probe(w, p) ==
  /\ AtStep(w, "probe", p)
  /\ \/ Goto(w, "apply") /\ UNCHANGED preview
     \/ /\ Observed(w, p) = NoIp
        /\ job' = NextPreview(w) /\ UNCHANGED preview
     \/ /\ Observed(w, p) # NoIp
        /\ IF preview[p].status \in Routed
           THEN WritesLast(w, p, Becomes(preview[p], "degraded"))
           ELSE Cleanup(w, p)
  /\ UNCHANGED <<caddyVars, branch, op, running, serving, quiet, boots, changes>>

(* repository.apply: the same fence, and the durable intent before the      *)
(* request.  A row whose status does not admit it throws, and cleanup       *)
(* follows.                                                                 *)

Apply(w, p) ==
  /\ AtStep(w, "apply", p)
  /\ IF ~Admits(w, p) THEN job' = NextPreview(w) /\ UNCHANGED preview
     ELSE IF preview[p].status \notin Applyable THEN Cleanup(w, p)
     ELSE Writes(w, p, Applying(preview[p], job[w].branch.ip), "send")
  /\ UNCHANGED <<caddyVars, branch, op, running, serving, quiet, boots, changes>>

Target(w, p) == IF Withdrawing(w) THEN NoIp ELSE job[w].branch.ip

Send(w, p) ==
  /\ AtStep(w, "send", p)
  /\ requests' = requests \cup {[preview |-> p, ip |-> Target(w, p), base |-> job[w].table, by |-> w]}
  /\ Goto(w, "wait")
  /\ UNCHANGED <<routes, rowVars, running, serving, quiet, boots, changes>>

(* The server's answer reaches the sender if it still waits.                *)
Answered(r, step) ==
  job' = IF r.by = NoWorker THEN job ELSE [job EXCEPT ![r.by].step = step]

Perform(r) ==
  /\ Performs(r)
  /\ Answered(r, "readback")
  /\ UNCHANGED <<rowVars, running, serving, quiet, boots, changes>>

Refuse(r) ==
  /\ Refuses(r)
  /\ Answered(r, "rejected")
  /\ UNCHANGED <<rowVars, running, serving, quiet, boots, changes>>

(* A timeout, a broken connection or a 5xx: the outcome is unknown, and so  *)
(* is the fate of the request.                                              *)
(* Mutants: an unknown outcome is taken for a rejection; the transport has  *)
(* no deadline. *)
NeverTimesOut(w, p) == FALSE /\ UNCHANGED <<preview, job>>
UnknownIsRejection(w, p) == Goto(w, "rejected") /\ UNCHANGED preview
UnknownOutcome(w, p) == Cleanup(w, p)

TimeOut(w, p) ==
  /\ AtStep(w, "wait", p)
  /\ UnknownOutcome(w, p)
  /\ requests' = Abandoned(w)
  /\ UNCHANGED <<routes, branch, op, running, serving, quiet, boots, changes>>

(* readAfterMutation and assertExpectedRoutes over the whole table.         *)
ReadBack(w, p) ==
  /\ AtStep(w, "readback", p)
  /\ \/ /\ routes = Expected(job[w].table, p, Target(w, p))
        /\ job' = [job EXCEPT ![w].table = routes, ![w].step = "confirm"]
        /\ UNCHANGED preview
     \/ Cleanup(w, p)
  /\ UNCHANGED <<caddyVars, branch, op, running, serving, quiet, boots, changes>>

(* applied or inactive after the readback; an error is caught and requires  *)
(* cleanup, whatever its cause.                                             *)
Confirm(w, p) ==
  /\ AtStep(w, "confirm", p)
  /\ \/ /\ ~Withdrawing(w) /\ preview[p].status = "applying"
        /\ Writes(w, p, Applied(preview[p]), "verify")
     \/ /\ Withdrawing(w) /\ preview[p].status # "cleanup_required"
        /\ WritesLast(w, p, Inactive(preview[p]))
     \/ Cleanup(w, p)
  /\ UNCHANGED <<caddyVars, branch, op, running, serving, quiet, boots, changes>>

(* probe.route: only rows that wait for an outcome record one.              *)
Verify(w, p) ==
  /\ AtStep(w, "verify", p)
  /\ \/ /\ job[w].rows[p].status \in {"verifying", "degraded"}
        /\ preview[p].status \in {"verifying", "degraded"}
        /\ WritesLast(w, p, Becomes(preview[p], "active"))
     \/ /\ job[w].rows[p].status \in Routed
        /\ preview[p].status \in Routed
        /\ WritesLast(w, p, Becomes(preview[p], "degraded"))
     \/ /\ \/ job[w].rows[p].status \in {"active", "removing"}
           \/ preview[p].status \notin Routed
        /\ job' = NextPreview(w) /\ UNCHANGED preview
  /\ UNCHANGED <<caddyVars, branch, op, running, serving, quiet, boots, changes>>

(* handleApplyFailure and handleRemovalFailure after a confirmed rejection. *)
Rejected(w, p) ==
  /\ AtStep(w, "rejected", p)
  /\ ReadTable(w, p, "recover")
  /\ UNCHANGED <<caddyVars, branch, op, running, serving, quiet, boots, changes>>

RecoverApplication(w, p) ==
  LET row == job[w].rows[p]
      kind == RecoverApply(row, Observed(w, p))
  IN IF kind = "unknown" \/ (kind = "absent" /\ row.current # NoIp) THEN Cleanup(w, p)
     ELSE IF preview[p].status # "applying" THEN Throws(w)
     ELSE IF kind = "pending_applied" THEN WritesLast(w, p, Applied(preview[p]))
     ELSE WritesLast(w, p, RejectApply(preview[p]))

Recover(w, p) ==
  /\ AtStep(w, "recover", p)
  /\ IF Withdrawing(w) THEN RecoverRemoval(w, p) ELSE RecoverApplication(w, p)
  /\ UNCHANGED <<caddyVars, branch, op, running, serving, quiet, boots, changes>>

JobEnds(w) ==
  /\ Busy(w, "next") \/ Busy(w, "failed")
  /\ job[w].step = "failed" \/ job[w].todo = {}
  /\ job' = Finish(w)
  /\ op' = IF op = [step |-> "withdrawing", by |-> w]
           THEN IF job[w].step = "failed" THEN NoOp ELSE [op EXCEPT !.step = "gate"]
           ELSE op
  /\ branch' = IF op' = NoOp /\ op # NoOp THEN [branch EXCEPT !.status = "online"] ELSE branch
  /\ UNCHANGED <<caddyVars, preview, running, serving, quiet, boots, changes>>

-----------------------------------------------------------------------------
(* The operations of the branch, reduced to what previews depend on         *)
(* (BranchOperation has the rest).                                          *)

Change == changes < MaxChanges /\ changes' = changes + 1

AcceptStop(w) ==
  /\ w \in serving \ quiet /\ ~OperationBlocked /\ branch.status = "online"
  /\ Change
  /\ branch' = [branch EXCEPT !.status = "stopping"]
  /\ op' = [step |-> "withdraw", by |-> w]
  /\ UNCHANGED <<caddyVars, preview, processVars>>

(* withdrawBranch: waits for the coordinator, and does nothing once it is   *)
(* stopped.                                                                 *)
Withdraw(w) ==
  /\ op = [step |-> "withdraw", by |-> w] /\ Free(w)
  /\ IF w \in quiet THEN op' = [op EXCEPT !.step = "gate"] /\ UNCHANGED <<preview, job>>
     ELSE op' = [op EXCEPT !.step = "withdrawing"] /\ RequestWithdrawal(w, "withdrawal")
  /\ UNCHANGED <<caddyVars, branch, running, serving, quiet, boots, changes>>

(* gate.ts, inside the transaction that records provider intent.            *)
GateOpen == \A p \in Previews : preview[p].status = "inactive"

Gate(w) ==
  /\ op = [step |-> "gate", by |-> w] /\ w \in running
  /\ \/ GateOpen /\ op' = [op EXCEPT !.step = "stop"] /\ UNCHANGED branch
     \/ ~GateOpen /\ op' = NoOp /\ branch' = [branch EXCEPT !.status = "online"]
  /\ UNCHANGED <<caddyVars, preview, processVars, changes>>

StopRuntime(w) ==
  /\ op = [step |-> "stop", by |-> w] /\ w \in running
  /\ op' = NoOp
  /\ branch' \in {NoBranch, [branch EXCEPT !.status = "online"], [branch EXCEPT !.status = "cleanup_required"]}
  /\ UNCHANGED <<caddyVars, preview, processVars, changes>>

AcceptStart(w) ==
  /\ w \in serving \ quiet /\ ~OperationBlocked /\ branch.status = "offline"
  /\ Change
  /\ branch' = [branch EXCEPT !.status = "starting"]
  /\ op' = [step |-> "start", by |-> w]
  /\ UNCHANGED <<caddyVars, preview, processVars>>

StartRuntime(w) ==
  /\ op = [step |-> "start", by |-> w] /\ w \in running
  /\ \/ \E ip \in Ips : branch' = [status |-> "online", ip |-> ip]
        /\ op' = [op EXCEPT !.step = "resume"]
     \/ branch' \in {NoBranch, [branch EXCEPT !.status = "cleanup_required"]} /\ op' = NoOp
  /\ UNCHANGED <<caddyVars, preview, processVars, changes>>

(* resumeBranch, likewise.                                                  *)
Resume(w) ==
  /\ op = [step |-> "resume", by |-> w] /\ Free(w)
  /\ op' = [op EXCEPT !.step = "complete"]
  /\ IF w \in quiet THEN UNCHANGED <<preview, job>>
     ELSE /\ preview' = [p \in Previews |-> [preview[p] EXCEPT !.withdrawal = FALSE]]
          /\ job' = Stale(w, {p \in Previews : preview[p].withdrawal}, job)
  /\ UNCHANGED <<caddyVars, branch, running, serving, quiet, boots, changes>>

CompleteStart(w) ==
  /\ op = [step |-> "complete", by |-> w] /\ w \in running
  /\ op' = NoOp
  /\ UNCHANGED <<caddyVars, preview, branch, processVars, changes>>

(* The branch reconciler, which runs before every preview pass of a process *)
(* and never beside one, records what the provider shows of an unfenced     *)
(* branch: another address after a reboot, or a guest that powered off.     *)
ObserveBranch ==
  /\ \E w \in running : job[w].kind \in {"none", "withdrawal"} \/ job[w].reads = Pass.reads
  /\ ~OperationBlocked /\ branch.status \in {"online", "offline"}
  /\ Change
  /\ branch' \in {NoBranch} \cup [status : {"online"}, ip : Ips]
  /\ UNCHANGED <<caddyVars, preview, op, processVars>>

-----------------------------------------------------------------------------
(* Processes.                                                               *)

(* Shutdown stops the coordinator; executors drain behind it.               *)
StopCoordinator(w) ==
  /\ w \in running \ quiet
  /\ Change
  /\ quiet' = quiet \cup {w}
  /\ UNCHANGED <<caddyVars, rowVars, job, running, serving, boots>>

(* The process ends; what it sent stays sent.                               *)
Crash(w) ==
  /\ w \in running
  /\ running' = running \ {w}
  /\ serving' = serving \ {w}
  /\ quiet' = quiet \ {w}
  /\ job' = Finish(w)
  /\ requests' = Abandoned(w)
  /\ UNCHANGED <<routes, rowVars, boots, changes>>

(* Startup classification: an abandoned start, or a stop that recorded its  *)
(* provider intent, leaves the branch to an operator.  One pass precedes    *)
(* command intake.                                                          *)
Boot(w) ==
  /\ w \notin running /\ boots < MaxBoots
  /\ running = {} \/ Overlap
  /\ boots' = boots + 1
  /\ running' = running \cup {w}
  /\ op' = NoOp
  /\ branch' = IF op = NoOp THEN branch
               ELSE IF op.step \in {"withdraw", "withdrawing", "gate"}
                    THEN [branch EXCEPT !.status = "online"]
                    ELSE [branch EXCEPT !.status = "cleanup_required"]
  /\ job' = [job EXCEPT ![w] = Pass]
  /\ UNCHANGED <<caddyVars, preview, serving, quiet, changes>>

Serve(w) ==
  /\ Free(w) /\ w \notin serving
  /\ serving' = serving \cup {w}
  /\ UNCHANGED <<caddyVars, rowVars, job, running, quiet, boots, changes>>

-----------------------------------------------------------------------------
PreviewStep(w, p) ==
  \/ Ensure(w, p) \/ NextWithdrawal(w, p)
  \/ Inspect(w, p) \/ Decide(w, p) \/ Probe(w, p) \/ Apply(w, p) \/ Send(w, p)
  \/ TimeOut(w, p) \/ ReadBack(w, p) \/ Confirm(w, p) \/ Verify(w, p)
  \/ Rejected(w, p) \/ Recover(w, p)

JobStep(w) ==
  \/ Read(w) \/ PlanPass(w) \/ ProvenanceFails(w) \/ JobEnds(w)
  \/ \E p \in Previews : PreviewStep(w, p)

OpStep(w) ==
  Withdraw(w) \/ Gate(w) \/ StopRuntime(w) \/ StartRuntime(w) \/ Resume(w) \/ CompleteStart(w)

Server == \E r \in requests : Perform(r) \/ Refuse(r)

Next ==
  \/ \E w \in Workers :
       \/ StartPass(w) \/ JobStep(w)
       \/ AcceptStop(w) \/ AcceptStart(w) \/ OpStep(w)
       \/ StopCoordinator(w) \/ Crash(w) \/ Boot(w) \/ Serve(w)
  \/ Server
  \/ ObserveBranch

Spec == Init /\ [][Next]_vars

(* Fairness: awaited database and provider calls settle, requests are       *)
(* answered or time out.  A waiter of exclusive() runs in the microtask     *)
(* that ends the job it waits for, before any timer: no pass starves it.    *)
Fairness ==
  \A w \in Workers :
    /\ WF_vars(JobStep(w))
    /\ SF_vars(OpStep(w))

FairSpec == Spec /\ Fairness

-----------------------------------------------------------------------------
(* Properties.                                                              *)

TypeOK ==
  /\ routes \in Tables
  /\ requests \subseteq Requests
  /\ preview \in [Previews -> Rows]
  /\ branch \in [status : BranchStatuses, ip : Ips \cup {NoIp}]
  /\ op \in [step : OpSteps, by : Workers \cup {NoWorker}]
  /\ \A w \in Workers :
       /\ job[w].kind \in {"none", "pass", "removal", "withdrawal"}
       /\ job[w].rows \in [Previews -> Rows]
       /\ job[w].table \in Tables
       /\ job[w].at \subseteq Previews /\ job[w].stale \subseteq Previews
  /\ running \subseteq Workers /\ serving \subseteq running /\ quiet \subseteq running
  /\ boots \in 0..MaxBoots /\ changes \in 0..MaxChanges

(* A route Caddy serves is one its row can account for: the configuration   *)
(* confirmed or pending, unless the row asks for an operator.  It survives  *)
(* timeouts and readbacks that fail, within the life of one process; what a *)
(* dead process left in flight may land behind the recovery of its row.     *)
RouteIsAccounted ==
  boots = 0 =>
    \A p \in Previews :
      routes[p] # NoIp /\ preview[p].status # "cleanup_required" =>
        routes[p] \in {preview[p].current, preview[p].pending}

CanStillRoute(p) == \E r \in requests : r.preview = p /\ r.ip # NoIp /\ Matches(r)

(* "inactive" is what every lifecycle boundary trusts: no route, and nothing *)
(* on its way that could still create one, even after crashes; and gate.ts:  *)
(* once a stop recorded its provider intent, the same is true of every       *)
(* preview of the branch until the stop is over.                            *)
WithdrawnIsUnrouted ==
  \A p \in Previews :
    preview[p].status = "inactive" \/ op.step = "stop" => routes[p] = NoIp /\ ~CanStillRoute(p)

(* recovery.ts: "A route matching the known current configuration proves    *)
(* that removal did not take effect": a row that is back in service has no  *)
(* deletion on its way that can still take effect.                          *)
RetainedRouteStays ==
  \A p \in Previews : preview[p].status \in Routed =>
    ~\E r \in requests : r.preview = p /\ r.ip = NoIp /\ Matches(r)

(* Withdrawal wins: a preview marked for withdrawal gets no new mutation    *)
(* intent until it is resumed.                                              *)
NoApplyWhileWithdrawn ==
  [][\A p \in Previews :
       preview[p].withdrawal /\ preview'[p].status = "applying" => preview[p].status = "applying"]_vars

(* A withdrawal does not hang: an operation that asked for one reaches the  *)
(* gate, or fails, even behind a pass that is stuck in timeouts.            *)
WithdrawalEnds ==
  \A w \in Workers :
    op = [step |-> "withdraw", by |-> w] /\ w \in running ~>
      op.step \notin {"withdraw", "withdrawing"} \/ w \notin running
=============================================================================
