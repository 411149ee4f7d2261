--------------------------- MODULE BranchOperation ---------------------------
(***************************************************************************)
(* Starting and stopping a branch of a capsule, as the Worker does it:      *)
(*   - command handlers accept an operation in one PostgreSQL transaction   *)
(*     and hand it to the process-local supervisor (submission.ts);         *)
(*   - one executor per operation walks a fixed sequence of transactions    *)
(*     and provider calls (start/executor.ts, stop/executor.ts);            *)
(*   - a crash loses every handler and executor; the next Worker classifies *)
(*     what it finds nonterminal and resumes nothing (abandonment.ts);      *)
(*   - a Worker that lost its authority session keeps running its promises  *)
(*     beside its replacement.                                              *)
(* Database transactions are atomic steps: each locks the capsule row first.*)
(* Every capsule here is active; archive and destroy are other modules.     *)
(***************************************************************************)
EXTENDS Naturals, FiniteSets

CONSTANTS
  Branches, Capsules, CapsuleOf,  \* branches, and the capsule of each
  Keys,                           \* idempotency keys of one owner
  OpIds,                          \* operation UUIDs, a bound on acceptances
  Handlers,                       \* concurrent command handlers
  Ips, NoIp,                      \* branch addresses, and SQL NULL
  NoRequest,                      \* the request of an operation not accepted
  MaxBoots,                       \* bound: Worker processes started after the first
  MaxPasses,                      \* bound: reconciliation passes
  Overlap,                        \* may a Worker be replaced while it runs?
  SlowProvider                    \* may a provider call outlive its deadline?

ASSUME CapsuleAssumption == CapsuleOf \in [Branches -> Capsules]
ASSUME NullAssumption == NoIp \notin Ips
ASSUME BoundAssumption == MaxBoots \in Nat /\ MaxPasses \in Nat
ASSUME SwitchAssumption == Overlap \in BOOLEAN /\ SlowProvider \in BOOLEAN

VARIABLES
  opStatus,   \* capsule_operations.status, "absent" before the insert
  request,    \* immutable acceptance-time input of each operation
  intent,     \* operations whose providerMutationStartedAt is set
  branch,     \* capsule_branches rows: status and runtimeIp
  handler,    \* command handlers of the Worker processes
  executor,   \* supervised executors, one per operation
  worker,     \* the newest Worker process: its phase, boots and todo list
  reconciler, \* the reconciliation pass: candidates left, observation held
  runtime,    \* provider: what each instance is really doing
  pending,    \* provider: submitted mutations whose effect has not landed
  touched,    \* history: operations whose provider mutation was submitted
  witnessed,  \* history: operations whose executor observed the old state
  ssh,        \* branches whose Host SSH access is enabled
  exposed,    \* branches whose previews are not withdrawn
  receipts    \* history: receipts answered to clients

ledgerVars == <<opStatus, request, intent, branch>>
processVars == <<handler, executor, worker, reconciler>>
providerVars == <<runtime, pending>>
historyVars == <<touched, witnessed, receipts>>
accessVars == <<ssh, exposed>>
vars == <<ledgerVars, processVars, providerVars, historyVars, accessVars>>

-----------------------------------------------------------------------------
(* The two fixed transitions, policy.ts.                                    *)

Types == {"branch_start", "branch_stop"}
Requests == [key : Keys, type : Types, branch : Branches]

ASSUME RequestAssumption == NoRequest \notin Requests

BranchStatuses ==
  {"offline", "starting", "online", "stopping", "error", "cleanup_required"}

Initial(t) == IF t = "branch_start" THEN "offline" ELSE "online"
(* Mutant: the stop branch copied from the destroy operation. *)
AcceptedStatusOfDestroy(t) == IF t = "branch_start" THEN "starting" ELSE "destroying"
AcceptedStatus(t) == IF t = "branch_start" THEN "starting" ELSE "stopping"
OwnedStatuses(t) ==
  IF t = "branch_start" THEN {"starting", "online"} ELSE {"stopping"}

Nonterminal == {"accepted", "running"}
Terminal == {"completed", "failed", "cleanup_required"}
Dispositions == {"pre_provider", "previous_confirmed", "cleanup_required"}

TypeOf(o) == request[o].type
BranchOf(o) == request[o].branch
CapsuleOfOp(o) == CapsuleOf[BranchOf(o)]
NonterminalOps == {o \in OpIds : opStatus[o] \in Nonterminal}
OwnerOf(c) == {o \in NonterminalOps : CapsuleOfOp(o) = c}
WithKey(k) == {o \in OpIds : opStatus[o] # "absent" /\ request[o].key = k}

(* Executor positions.  A position in Dispositions is a caught error on its *)
(* way to repository.fail; "none" is no executor.                           *)
StartSteps == {"claim", "intent", "call", "observe", "online", "enable",
               "resume", "complete"}
StopSteps == {"claim", "revoke", "withdraw", "intent", "call", "observe",
              "complete"}
ExecutorSteps == StartSteps \cup StopSteps \cup Dispositions \cup {"none"}

Idle == [step |-> "none", ip |-> NoIp]
IdleHandler == [step |-> "idle", request |-> NoRequest, op |-> {}, stale |-> FALSE]

Init ==
  /\ opStatus = [o \in OpIds |-> "absent"]
  /\ request = [o \in OpIds |-> NoRequest]
  /\ intent = {}
  /\ branch = [b \in Branches |-> [status |-> "offline", ip |-> NoIp]]
  /\ handler = [h \in Handlers |-> IdleHandler]
  /\ executor = [o \in OpIds |-> Idle]
  /\ worker = [phase |-> "serving", boots |-> 0, todo |-> {}]
  /\ reconciler = [passes |-> 0, candidates |-> {}, observed |-> {}]
  /\ runtime = [b \in Branches |-> [state |-> "stopped", ip |-> NoIp]]
  /\ pending = {}
  /\ touched = {}
  /\ witnessed = {}
  /\ ssh = {}
  /\ exposed = Branches
  /\ receipts = {}

-----------------------------------------------------------------------------
(* Submission: replay lookup, acceptance transaction, supervised schedule.  *)

Submit(h, r) ==
  /\ worker.phase = "serving"
  /\ handler[h].step = "idle"
  /\ handler' = [handler EXCEPT ![h] = [IdleHandler EXCEPT !.step = "lookup", !.request = r]]
  /\ UNCHANGED <<ledgerVars, executor, worker, reconciler, providerVars, historyVars, accessVars>>

(* assertReplay: the stored request hash covers type, actor, capsule and    *)
(* branch, so a key reused for another request is refused.                  *)
(* Mutant: replay compares the key only. *)
SameKeyOnly(o, r) == request[o].key = r.key
SameRequest(o, r) == request[o] = r

GiveReceipt(h, o) ==
  receipts' = receipts \cup {[request |-> handler[h].request, op |-> o]}

(* An existing operation under the key answers with its receipt or with a   *)
(* conflict; either way the handler is done and nothing is scheduled.       *)
AnswerReplay(h, o) ==
  /\ IF SameRequest(o, handler[h].request) THEN GiveReceipt(h, o) ELSE UNCHANGED receipts
  /\ handler' = [handler EXCEPT ![h] = IdleHandler]

LookupReplay(h) ==
  /\ handler[h].step = "lookup"
  /\ \/ \E o \in WithKey(handler[h].request.key) : AnswerReplay(h, o)
     \/ /\ WithKey(handler[h].request.key) = {}
        /\ handler' = [handler EXCEPT ![h].step = "accept"]
        /\ UNCHANGED receipts
  /\ UNCHANGED <<ledgerVars, executor, worker, reconciler, providerVars, touched, witnessed, accessVars>>

(* The unique index on owner and key.                                       *)
KeyFree(k) == WithKey(k) = {}

(* Mutant: no partial unique index, so only the branch status fences. *)
NoCapsuleFence(b) == TRUE

(* Under the capsule lock: the partial unique index on nonterminal rows.    *)
CapsuleFree(b) == OwnerOf(CapsuleOf[b]) = {}

(* Under the capsule lock: definition.initial is the only admitted status.  *)
Eligible(r) == branch[r.branch].status = Initial(r.type)

Insert(o, r) ==
  /\ opStatus[o] = "absent"
  /\ opStatus' = [opStatus EXCEPT ![o] = "accepted"]
  /\ request' = [request EXCEPT ![o] = r]
  /\ branch' = [branch EXCEPT ![r.branch] =
                  [status |-> AcceptedStatus(r.type),
                   ip |-> IF r.type = "branch_start" THEN NoIp ELSE @.ip]]
  /\ UNCHANGED intent

(* The replay lookup is repeated under the lock before eligibility is read. *)
(* Mutant: the recheck under the lock is skipped. *)
NoRecheck(k) == {}
RecheckReplay(k) == WithKey(k)

AcceptTransaction(h) ==
  LET r == handler[h].request
      admitted == Eligible(r) /\ CapsuleFree(r.branch) /\ KeyFree(r.key) IN
  /\ handler[h].step = "accept"
  /\ \/ \E o \in RecheckReplay(r.key) :
          AnswerReplay(h, o) /\ UNCHANGED ledgerVars
     \/ /\ RecheckReplay(r.key) = {}
        /\ admitted
        /\ \E o \in OpIds :
             /\ Insert(o, r)
             /\ handler' = [handler EXCEPT ![h].step = "schedule", ![h].op = {o}]
        /\ UNCHANGED receipts
     \/ /\ RecheckReplay(r.key) = {}
        /\ ~admitted
        /\ handler' = [handler EXCEPT ![h] = IdleHandler]
        /\ UNCHANGED <<ledgerVars, receipts>>
  /\ UNCHANGED <<executor, worker, reconciler, providerVars, touched, witnessed, accessVars>>

(* supervisor.schedule refuses only in a process that is shutting down; the *)
(* receipt is answered either way.                                          *)
Schedule(h) ==
  /\ handler[h].step = "schedule"
  /\ \E o \in handler[h].op :
       /\ \/ executor' = [executor EXCEPT ![o].step = "claim"]
          \/ handler[h].stale /\ UNCHANGED executor
       /\ GiveReceipt(h, o)
  /\ handler' = [handler EXCEPT ![h] = IdleHandler]
  /\ UNCHANGED <<ledgerVars, worker, reconciler, providerVars, touched, witnessed, accessVars>>

-----------------------------------------------------------------------------
(* Executors.                                                               *)

(* The execution boundary every transaction of an executor asserts first.   *)
Ready(o, status, intentRecorded, branchStatus) ==
  /\ opStatus[o] = status
  /\ (o \in intent) = intentRecorded
  /\ branch[BranchOf(o)].status = branchStatus

At(o, step) == executor[o].step = step
Goto(o, step) == executor' = [executor EXCEPT ![o].step = step]
Stop(o) == executor' = [executor EXCEPT ![o] = Idle]

(* What the executor believes when a step throws: before its own intent     *)
(* call returned nothing was submitted, afterwards anything may have been.  *)
DispositionAt(step) ==
  IF step \in {"claim", "revoke", "withdraw", "intent"}
  THEN "pre_provider" ELSE "cleanup_required"

Claim(o) ==
  /\ At(o, "claim")
  /\ IF Ready(o, "accepted", FALSE, AcceptedStatus(TypeOf(o)))
     THEN /\ opStatus' = [opStatus EXCEPT ![o] = "running"]
          /\ \/ Goto(o, IF TypeOf(o) = "branch_start" THEN "intent" ELSE "revoke")
             \/ Goto(o, "pre_provider")   \* committed, acknowledgement lost
     ELSE Goto(o, "pre_provider") /\ UNCHANGED opStatus
  /\ UNCHANGED <<request, intent, branch, handler, worker, reconciler, providerVars, historyVars, accessVars>>

(* Host SSH policy revokes access and must confirm that relays are closed.  *)
(* Mutant: relayClosureConfirmed is not required. *)
RevokeUnconfirmed(o) ==
  /\ At(o, "revoke")
  /\ Goto(o, "withdraw")
  /\ UNCHANGED <<ledgerVars, handler, worker, reconciler, providerVars, historyVars, accessVars>>

RevokeSsh(o) ==
  /\ At(o, "revoke")
  /\ ssh' = ssh \ {BranchOf(o)}
  /\ Goto(o, "withdraw")
  /\ UNCHANGED <<ledgerVars, handler, worker, reconciler, providerVars, historyVars, exposed>>

(* A Worker that stops, or lost its authority, stops its preview coordinator *)
(* first; withdrawBranch and resumeBranch then return without doing anything.*)
CoordinatorMayBeStopped == worker.phase # "serving" \/ (Overlap /\ worker.boots > 0)

WithdrawPreviews(o) ==
  /\ At(o, "withdraw")
  /\ \/ exposed' = exposed \ {BranchOf(o)}
     \/ CoordinatorMayBeStopped /\ UNCHANGED exposed
  /\ Goto(o, "intent")
  /\ UNCHANGED <<ledgerVars, handler, worker, reconciler, providerVars, historyVars, ssh>>

(* The preview gate of gate.ts, asserted in the intent transaction of stop. *)
GateOpen(o) == TypeOf(o) = "branch_stop" => BranchOf(o) \notin exposed

RecordIntent(o) ==
  /\ At(o, "intent")
  /\ IF Ready(o, "running", FALSE, AcceptedStatus(TypeOf(o))) /\ GateOpen(o)
     THEN /\ intent' = intent \cup {o}
          /\ Goto(o, "call") \/ Goto(o, "pre_provider")
     ELSE Goto(o, "pre_provider") /\ UNCHANGED intent
  /\ UNCHANGED <<opStatus, request, branch, handler, worker, reconciler, providerVars, historyVars, accessVars>>

(* instances.start or instances.stop: its error is kept and ignored until   *)
(* the runtime has been observed.                                           *)
CallProvider(o) ==
  /\ At(o, "call")
  /\ pending' = pending \cup {o}
  /\ touched' = touched \cup {o}
  /\ Goto(o, "observe")
  /\ UNCHANGED <<ledgerVars, handler, worker, reconciler, runtime, witnessed, receipts, accessVars>>

(* The call returned, or its 120 s deadline passed while the provider was   *)
(* still working (SlowProvider); then the runtime state is read once.       *)
(* Mutant: the call resolves when it is submitted. *)
ReturnsAtSubmission(o) == TRUE
Returned(o) == o \notin pending \/ SlowProvider

ObserveRuntime(o) ==
  LET seen == runtime[BranchOf(o)]
      start == TypeOf(o) = "branch_start" IN
  /\ At(o, "observe") /\ Returned(o)
  /\ \/ /\ seen.state = "running"
        /\ executor' = [executor EXCEPT ![o] =
             [step |-> IF start THEN "online" ELSE "previous_confirmed", ip |-> seen.ip]]
        /\ witnessed' = IF start THEN witnessed ELSE witnessed \cup {o}
     \/ /\ seen.state = "stopped"
        /\ Goto(o, IF start THEN "previous_confirmed" ELSE "complete")
        /\ witnessed' = IF start THEN witnessed \cup {o} ELSE witnessed
     \/ /\ Goto(o, "cleanup_required")   \* missing, unsupported, unavailable
        /\ UNCHANGED witnessed
  /\ UNCHANGED <<ledgerVars, handler, worker, reconciler, providerVars, touched, receipts, accessVars>>

ConfirmOnline(o) ==
  LET b == BranchOf(o) IN
  /\ At(o, "online")
  /\ IF Ready(o, "running", TRUE, "starting")
     THEN /\ branch' = [branch EXCEPT ![b] = [status |-> "online", ip |-> executor[o].ip]]
          /\ Goto(o, "enable") \/ Goto(o, "cleanup_required")
     ELSE Goto(o, "cleanup_required") /\ UNCHANGED branch
  /\ UNCHANGED <<opStatus, request, intent, handler, worker, reconciler, providerVars, historyVars, accessVars>>

(* A deployment with SSH access disabled answers FORBIDDEN, which counts as *)
(* done.                                                                    *)
EnableSsh(o) ==
  /\ At(o, "enable")
  /\ \/ ssh' = ssh \cup {BranchOf(o)}
     \/ UNCHANGED ssh
  /\ Goto(o, "resume")
  /\ UNCHANGED <<ledgerVars, handler, worker, reconciler, providerVars, historyVars, exposed>>

ResumePreviews(o) ==
  /\ At(o, "resume")
  /\ \/ exposed' = exposed \cup {BranchOf(o)}
     \/ CoordinatorMayBeStopped /\ UNCHANGED exposed
  /\ Goto(o, "complete")
  /\ UNCHANGED <<ledgerVars, handler, worker, reconciler, providerVars, historyVars, ssh>>

Complete(o) ==
  LET b == BranchOf(o)
      stopping == TypeOf(o) = "branch_stop" IN
  /\ At(o, "complete")
  /\ IF Ready(o, "running", TRUE, IF stopping THEN "stopping" ELSE "online")
     THEN /\ opStatus' = [opStatus EXCEPT ![o] = "completed"]
          /\ branch' = IF stopping
                       THEN [branch EXCEPT ![b] = [status |-> "offline", ip |-> NoIp]]
                       ELSE branch
          /\ Stop(o) \/ Goto(o, "cleanup_required")
     ELSE Goto(o, "cleanup_required") /\ UNCHANGED <<opStatus, branch>>
  /\ UNCHANGED <<request, intent, handler, worker, reconciler, providerVars, historyVars, accessVars>>

(* Any awaited call of a step may throw before it had an effect.            *)
StepThrows(o) ==
  /\ executor[o].step \notin Dispositions \cup {"none", "call"}
  /\ Goto(o, DispositionAt(executor[o].step))
  /\ UNCHANGED <<ledgerVars, handler, worker, reconciler, providerVars, historyVars, accessVars>>

-----------------------------------------------------------------------------
(* Terminal classification, policy.ts and persistence/classification.ts.    *)

LiveUncertain(o, disposition) ==
  CASE disposition = "cleanup_required" -> TRUE
    [] disposition = "previous_confirmed" -> o \notin intent
    [] OTHER -> o \in intent

(* Mutant: abandonment ignores providerMutationStartedAt. *)
AbandonedNeverUncertain(o) == FALSE
AbandonedUncertain(o) == o \in intent

(* The branch row is touched only while it is in a status this operation    *)
(* owns; a safe failure puts back the status it was accepted from.          *)
ClassifyAs(o, uncertain, ip) ==
  LET b == BranchOf(o)
      t == TypeOf(o)
      cleanup == \/ uncertain
                 \/ branch[b].status # AcceptedStatus(t)
                 \/ branch[b].status = "starting" /\ branch[b].ip # NoIp
      status == IF cleanup THEN "cleanup_required" ELSE Initial(t) IN
  /\ opStatus' = [opStatus EXCEPT ![o] = IF cleanup THEN "cleanup_required" ELSE "failed"]
  /\ branch' = IF branch[b].status \in OwnedStatuses(t)
               THEN [branch EXCEPT ![b] =
                       [status |-> status, ip |-> IF status = "online" THEN ip ELSE NoIp]]
               ELSE branch
  /\ UNCHANGED <<request, intent>>

(* repository.fail: a terminal row is left alone, and a database error here *)
(* leaves the operation nonterminal with no executor.                       *)
Fail(o) ==
  LET disposition == executor[o].step IN
  /\ disposition \in Dispositions
  /\ IF opStatus[o] \in Nonterminal
     THEN ClassifyAs(o, LiveUncertain(o, disposition),
                     IF disposition = "previous_confirmed"
                     THEN executor[o].ip ELSE branch[BranchOf(o)].ip)
     ELSE UNCHANGED ledgerVars
  /\ Stop(o)
  /\ UNCHANGED <<handler, worker, reconciler, providerVars, historyVars, accessVars>>

FailIsLost(o) ==
  /\ executor[o].step \in Dispositions
  /\ Stop(o)
  /\ UNCHANGED <<ledgerVars, handler, worker, reconciler, providerVars, historyVars, accessVars>>

(* Startup: the nonterminal rows are listed once and classified in turn.    *)
(* Mutant: the listed row is classified without being read again. *)
ListedIsNonterminal(o) == TRUE
StillNonterminal(o) == opStatus[o] \in Nonterminal

ClassifyAbandoned(o) ==
  /\ worker.phase = "classifying"
  /\ o \in worker.todo
  /\ IF StillNonterminal(o)
     THEN ClassifyAs(o, AbandonedUncertain(o), branch[BranchOf(o)].ip)
     ELSE UNCHANGED ledgerVars
  /\ worker' = [worker EXCEPT !.todo = @ \ {o}]
  /\ UNCHANGED <<handler, executor, reconciler, providerVars, historyVars, accessVars>>

-----------------------------------------------------------------------------
(* Worker processes.                                                        *)

(* Mutant: only claimed operations are listed. *)
RunningOps == {o \in OpIds : opStatus[o] = "running"}
AbandonedOps == NonterminalOps

Boot ==
  /\ worker.phase = "down"
  /\ worker.boots < MaxBoots
  /\ worker' = [phase |-> "classifying", boots |-> worker.boots + 1, todo |-> AbandonedOps]
  /\ UNCHANGED <<ledgerVars, handler, executor, reconciler, providerVars, historyVars, accessVars>>

Serve ==
  /\ worker.phase = "classifying"
  /\ worker.todo = {}
  /\ worker' = [worker EXCEPT !.phase = "serving"]
  /\ UNCHANGED <<ledgerVars, handler, executor, reconciler, providerVars, historyVars, accessVars>>

(* Process exit: handlers, executors and the pass in progress are gone;     *)
(* what the provider was asked to do is not.                                *)
Crash ==
  /\ worker.phase # "down" \/ \E o \in OpIds : executor[o] # Idle
  /\ worker.boots < MaxBoots
  /\ handler' = [h \in Handlers |-> IdleHandler]
  /\ executor' = [o \in OpIds |-> Idle]
  /\ worker' = [worker EXCEPT !.phase = "down", !.todo = {}]
  /\ reconciler' = [reconciler EXCEPT !.candidates = {}, !.observed = {}]
  /\ UNCHANGED <<ledgerVars, providerVars, historyVars, accessVars>>

(* The authority session is gone.  Promises cannot be cancelled: executors, *)
(* handlers and the pass go on; only scheduling and resuming are refused.   *)
LoseAuthority ==
  /\ Overlap
  /\ worker.phase = "serving"
  /\ worker.boots < MaxBoots
  /\ worker' = [worker EXCEPT !.phase = "down"]
  /\ handler' = [h \in Handlers |-> [handler[h] EXCEPT !.stale = handler[h].step # "idle"]]
  /\ UNCHANGED <<ledgerVars, executor, reconciler, providerVars, historyVars, accessVars>>

-----------------------------------------------------------------------------
(* The provider.                                                            *)

Land(o) ==
  /\ o \in pending
  /\ pending' = pending \ {o}
  /\ IF TypeOf(o) = "branch_start"
     THEN \E ip \in Ips :
            runtime' = [runtime EXCEPT ![BranchOf(o)] = [state |-> "running", ip |-> ip]]
     ELSE runtime' = [runtime EXCEPT ![BranchOf(o)] = [state |-> "stopped", ip |-> NoIp]]
  /\ UNCHANGED <<ledgerVars, processVars, historyVars, accessVars>>

Refuse(o) ==
  /\ o \in pending
  /\ pending' = pending \ {o}
  /\ UNCHANGED <<ledgerVars, processVars, runtime, historyVars, accessVars>>

GuestStops(b) ==
  /\ runtime[b].state = "running"
  /\ runtime' = [runtime EXCEPT ![b] = [state |-> "stopped", ip |-> NoIp]]
  /\ UNCHANGED <<ledgerVars, processVars, pending, historyVars, accessVars>>

-----------------------------------------------------------------------------
(* Reconciliation of branch rows with the provider, branch/reconciler.ts.   *)

Candidates ==
  {[branch |-> b, expected |-> branch[b].status] :
     b \in {b \in Branches : /\ branch[b].status # "cleanup_required"
                             /\ CapsuleFree(b)}}

BeginPass ==
  /\ worker.phase = "serving"
  /\ reconciler.passes < MaxPasses
  /\ reconciler.candidates = {} /\ reconciler.observed = {}
  /\ Candidates # {}
  /\ reconciler' = [passes |-> reconciler.passes + 1, candidates |-> Candidates, observed |-> {}]
  /\ UNCHANGED <<ledgerVars, handler, executor, worker, providerVars, historyVars, accessVars>>

(* One provider read per candidate, in turn; "unknown" stands for missing   *)
(* and unsupported, and for an unavailable provider.                        *)
ObserveCandidate(c) ==
  /\ c \in reconciler.candidates
  /\ reconciler.observed = {}
  /\ \E kind \in {"state", "unknown", "unavailable"} :
       reconciler' = [reconciler EXCEPT
         !.candidates = @ \ {c},
         !.observed = {[candidate |-> c, kind |-> kind, runtime |-> runtime[c.branch]]}]
  /\ UNCHANGED <<ledgerVars, handler, executor, worker, providerVars, historyVars, accessVars>>

(* The write is fenced again: no operation owns the capsule and the branch  *)
(* is still where the candidate list found it (or already there).           *)
(* Mutant: the write trusts the candidate query. *)
UnfencedRecord(b, expected, target) == branch[b].status \in {expected, target}
RecordFence(b, expected, target) ==
  CapsuleFree(b) /\ branch[b].status \in {expected, target}

RecordObservation(x) ==
  LET b == x.candidate.branch
      expected == x.candidate.expected
      confirmed == IF x.runtime.state = "running" THEN "online" ELSE "offline"
      target == IF x.kind = "state" THEN confirmed ELSE "error"
      keep == x.kind = "unavailable" /\ expected \in {"online", "offline"} IN
  /\ x \in reconciler.observed
  /\ reconciler' = [reconciler EXCEPT !.observed = {}]
  /\ branch' = IF ~keep /\ RecordFence(b, expected, target)
               THEN [branch EXCEPT ![b] =
                       [status |-> target, ip |-> IF target = "online" THEN x.runtime.ip ELSE NoIp]]
               ELSE branch
  /\ UNCHANGED <<opStatus, request, intent, handler, executor, worker, providerVars,
                 historyVars, accessVars>>

-----------------------------------------------------------------------------
ExecutorStep(o) ==
  \/ Claim(o)
  \/ RevokeSsh(o)
  \/ WithdrawPreviews(o)
  \/ RecordIntent(o)
  \/ CallProvider(o)
  \/ ObserveRuntime(o)
  \/ ConfirmOnline(o)
  \/ EnableSsh(o)
  \/ ResumePreviews(o)
  \/ Complete(o)
  \/ Fail(o)

HandlerStep(h) == LookupReplay(h) \/ AcceptTransaction(h) \/ Schedule(h)

Next ==
  \/ \E h \in Handlers : (\E r \in Requests : Submit(h, r)) \/ HandlerStep(h)
  \/ \E o \in OpIds : \/ ExecutorStep(o)
                      \/ StepThrows(o)
                      \/ FailIsLost(o)
                      \/ ClassifyAbandoned(o)
                      \/ Land(o)
                      \/ Refuse(o)
  \/ Boot \/ Serve \/ Crash \/ LoseAuthority
  \/ \E b \in Branches : GuestStops(b)
  \/ BeginPass
  \/ \E c \in reconciler.candidates : ObserveCandidate(c)
  \/ \E x \in reconciler.observed : RecordObservation(x)

Spec == Init /\ [][Next]_vars

(* Fairness: promises settle (every provider call and query has a deadline), *)
(* a submitted provider mutation ends, and an operator restarts the Worker.  *)
Fairness ==
  /\ \A h \in Handlers : WF_vars(HandlerStep(h))
  /\ \A o \in OpIds : /\ WF_vars(ExecutorStep(o))
                      /\ WF_vars(ClassifyAbandoned(o))
                      /\ WF_vars(Land(o) \/ Refuse(o))
  /\ WF_vars(Boot)
  /\ WF_vars(Serve)

FairSpec == Spec /\ Fairness

-----------------------------------------------------------------------------
(* Properties.                                                              *)

HandlerType == [step : {"idle", "lookup", "accept", "schedule"},
                request : Requests \cup {NoRequest}, op : SUBSET OpIds, stale : BOOLEAN]
ExecutorType == [step : ExecutorSteps, ip : Ips \cup {NoIp}]
BranchType == [status : BranchStatuses, ip : Ips \cup {NoIp}]
RuntimeType == [state : {"stopped", "running"}, ip : Ips \cup {NoIp}]
CandidateType == [branch : Branches, expected : BranchStatuses]
ObservationType == [candidate : CandidateType, kind : {"state", "unknown", "unavailable"},
                    runtime : RuntimeType]

TypeOK ==
  /\ opStatus \in [OpIds -> {"absent"} \cup Nonterminal \cup Terminal]
  /\ request \in [OpIds -> Requests \cup {NoRequest}]
  /\ intent \subseteq OpIds
  /\ branch \in [Branches -> BranchType]
  /\ handler \in [Handlers -> HandlerType]
  /\ executor \in [OpIds -> ExecutorType]
  /\ worker \in [phase : {"serving", "down", "classifying"},
                 boots : 0..MaxBoots, todo : SUBSET OpIds]
  /\ reconciler \in [passes : 0..MaxPasses, candidates : SUBSET CandidateType,
                     observed : SUBSET ObservationType]
  /\ runtime \in [Branches -> RuntimeType]
  /\ pending \subseteq OpIds /\ touched \subseteq OpIds /\ witnessed \subseteq OpIds
  /\ ssh \subseteq Branches /\ exposed \subseteq Branches
  /\ receipts \subseteq [request : Requests, op : OpIds]

(* A branch is "starting" or "stopping" only while a matching nonterminal   *)
(* operation owns it, and such an operation always finds its branch in a    *)
(* status it owns: neither crash, overlap nor reconciliation strands either.*)
OwnershipIsMutual ==
  /\ \A b \in Branches :
       branch[b].status \in {"starting", "stopping"} =>
         \E o \in NonterminalOps :
           BranchOf(o) = b /\ branch[b].status = AcceptedStatus(TypeOf(o))
  /\ \A o \in NonterminalOps :
       branch[BranchOf(o)].status \in OwnedStatuses(TypeOf(o))

(* "failed" promises the branch is as it was: the provider was never asked, *)
(* or the operation's own executor saw the previous runtime state.  It must *)
(* hold whatever a superseded process does after the classification.        *)
FailedIsSafe ==
  \A o \in OpIds :
    opStatus[o] = "failed" => (o \in touched => o \in witnessed)

(* Retries, crashes between commit and answer, and racing handlers: every   *)
(* receipt ever given for a key names one operation, and it is the one the  *)
(* client asked for.                                                        *)
ReceiptsNameOneOperation ==
  \A r \in receipts :
    /\ request[r.op] = r.request
    /\ \A q \in receipts : q.request.key = r.request.key => q.op = r.op

(* acceptance.ts: "an identical concurrent request receives its receipt      *)
(* instead of a branch-status conflict": a handler that ends without having *)
(* crashed, for a request the ledger already holds, has given its receipt.  *)
IdenticalRequestGetsReceipt ==
  [][\A h \in Handlers, o \in OpIds :
       /\ handler[h].step \in {"lookup", "accept"}
       /\ handler'[h].step = "idle" /\ worker'.phase # "down"
       /\ request[o] = handler[h].request
       => [request |-> request[o], op |-> o] \in receipts']_vars

(* The stop call is outstanding only while the branch has no SSH access and *)
(* no exposed preview, although both were withdrawn several steps earlier.  *)
StopFindsNoLiveAccess ==
  \A o \in OpIds :
    At(o, "observe") /\ TypeOf(o) = "branch_stop" =>
      BranchOf(o) \notin ssh \cup exposed

(* A failed operation leaves no provider work behind that could still land  *)
(* on a branch that now admits new operations.                              *)
FailedLeavesNothingPending ==
  \A o \in OpIds : opStatus[o] = "failed" => o \notin pending

(* Interrupted operations are classified once and never resumed: a terminal *)
(* row is final for every process, the superseded one included.             *)
TerminalIsFinal ==
  [][\A o \in OpIds : opStatus[o] \in Terminal => opStatus'[o] = opStatus[o]]_vars

(* Every accepted operation ends, unless its executor could not record its  *)
(* own failure: only the next startup releases the capsule then, and it     *)
(* ends every operation it finds.                                           *)
Orphaned(o) == executor[o].step = "none" /\ \A h \in Handlers : o \notin handler[h].op
EveryOperationSettles ==
  \A o \in OpIds :
    /\ opStatus[o] \in Nonterminal ~>
         opStatus[o] \in Terminal \/ (Orphaned(o) /\ worker.phase = "serving")
    /\ opStatus[o] \in Nonterminal /\ worker.phase = "down" ~> opStatus[o] \in Terminal

(* The abstract ledger.                                                     *)
LedgerEntry(o) ==
  IF request[o] = NoRequest THEN NoRequest
  ELSE [key |-> request[o].key, capsule |-> CapsuleOfOp(o)]

Ledger == INSTANCE OperationLedger
            WITH entry <- [o \in OpIds |-> LedgerEntry(o)], NoEntry <- NoRequest

ImplementsLedger == Ledger!Spec
=============================================================================
