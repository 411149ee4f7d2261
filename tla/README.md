# Qiln: a verification project

Qiln runs "capsules": groups of Incus instances ("branches") created from a
Blueprint, with managed storage, snapshots, preview routes on a Caddy ingress and
SSH access. PostgreSQL holds the durable state; a single **Worker** process per
database turns commands into provider mutations. This directory holds TLA+
specifications of the parts of that program whose correctness depends on
interleavings, crashes and late answers, the TLC configurations that check them on
small instances, and proofs for TLAPS.

## 1. Inventory

### Components, their state and their operations

| Component | State | Operations | What makes it correct |
| --- | --- | --- | --- |
| Operation ledger (`core/src/db/capsule/operation`, `worker/.../operations/shared`) | `capsule_operations`: status `accepted`, `running`, terminal ones; `provider_mutation_started_at`; idempotency key | accept, claim, record intent, complete, fail, require cleanup | a capsule has one nonterminal operation; a key names one request; `failed` means "restored", so it is never said of an operation whose mutation may have happened unseen; terminal rows are final |
| Branch operations (`operations/branch`) | branch row (status, runtime IP), operation row, SSH access, previews, the executor's position | submit (with replay), start (5 steps), stop (4 steps), classify failure, abandon at startup | as above, and: branch status and operation agree; access is withdrawn before a stop; every operation ends or waits for a restart |
| Branch reconciler (`branch/`) | candidates read earlier, observations | one pass: list, observe, record behind a fence | a stale observation never overwrites an operation's status |
| Mutation authority (`coordination/authority.ts`) | a PostgreSQL advisory lock held by one reserved session; in-process state, verification in flight | acquire, verify on a timer, release, signal loss | whoever mutates holds the lock; loss is noticed |
| Supervisor, runtime (`coordination/supervisor.ts`, `runtime.ts`) | executors, `fatalError`, boot and shutdown progress | boot (authority, classification, first pass, intake), shutdown (drain with a deadline), fail-stop | classification precedes intake; nothing acts after release; shutdown ends |
| Reconciliation coordinator (`capsule/reconciliation.ts`) | the pass that runs, `stopped` | tick, pass, stop | single-flight |
| Preview routing (`routing/preview`) | `capsule_branch_previews` rows: status, withdrawal, current and pending configuration; a per-process mutex | pass, apply, withdraw, resume, recover, cleanup, gate | a row says what the ingress does, even after crashes and timeouts; withdrawal wins |
| Caddy client (`worker/src/caddy`) | the ingress's route table, requests in flight | read, create, replace, delete with If-Match, readback | no lost update; an unknown outcome is not taken for one |
| Incus client (`worker/src/incus`) | provider operations in flight, an event stream | submit, wait with a deadline, read back | a deadline does not settle an operation |
| Create, Snapshot, Archive/Unarchive, Destroy, Fork (`operations/*`) | capsule and branch status, operation row, resource, capture and destroy-target rows, snapshots, provider objects | provisioning and compensation; capture and undo; provider-free transitions; a plan from history, deletion with a read before and after; classification of each | the status of a capsule says what the provider holds: nothing is left of a failed create or a destroyed capsule, an active one is whole, a usable snapshot exists and was taken of a stopped instance, "failed" puts everything back |
| SSH access (`packages/ssh/src/host`) | access state per branch, grants, tickets, relays, keys | enable, block, issue and redeem tickets, open and close relays | no relay outlives its grant; a ticket is used once |
| SSH gateway (`packages/ssh/src/gateway`) | sessions, sockets | authenticate, relay, close | revocation closes what it revokes |
| Capsule protocol (`core/src/protocol`) | NATS subscriptions | request, respond, publish, shutdown | a command is answered once; shutdown closes intake |
| Engine, app, agent, MCP (`packages/engine`, `app`, `packages/agent`, `packages/mcp`) | client-side event store, sessions | tRPC facade | event order |
| AWS deployments (`cli/src/aws/deployment`) | one record per deployment on disk (steps with answer and verification, observation, hand-off of the data volume), the operation lock, one child process at a time, resources at the provider | create (new, or reusing a volume), remove, abandon, inspect, hand-off; per provider call: fence, child, answer, observation | no provider call without a fence on disk; a record from which nothing unresolved is concluded has left nothing; one instance per deployment; a volume always has one record that answers for it |
| Rest of the CLI (`packages/cli`) | ZFS and Incus journals, installation journal, state file | host plans | a re-run resumes where the journal says |

### Interaction

Commands arrive over NATS at the Worker's channel handlers. A handler accepts the
operation in one PostgreSQL transaction and gives the receipt; an executor, tracked
by the supervisor, then works through its steps: database transactions that lock
the capsule, operation and branch rows, and calls to Incus, Caddy and the SSH
package between them. On a timer the reconciliation coordinator observes branches
that no operation fences and then moves preview routes to where the rows want
them. One process per database holds the advisory lock; a process that dies leaves
its rows, its provider calls and its Caddy requests behind, and the next one
classifies every nonterminal operation before it takes commands.

The CLI is apart from all this: an operator runs one command at a time. A deployment command takes the operation
lock, writes the step it is about to make, and lets a child process make the one provider call; after a crash the next
command has only the records and what it can observe.

### What is hard here

Process death between any two of those steps; provider calls and Caddy requests
that land after their caller is gone; a lock session that PostgreSQL ends under a
running Worker, so that two act at once; handlers that outlive their channel;
reads in three queries that share no snapshot; deadlines that pass while the work
goes on. `PROJECT.json` lists each of these at its line.

## 2. Plan

The order is that of the damage a mistake would do.

1. `OperationLedger` (abstract) and `BranchOperation`, which implements it. Done,
   with every safety and action property the runs check proved, and the refinement.
2. `WorkerAuthority`, and `WorkerRuntime`, which composes it with boot, shutdown and
   fail-stop. Done, with every safety invariant proved.
3. `CaddyRoutes`, and `PreviewRouting`, which composes it with the rows and the
   coordinator. Done, with every safety and action property proved but `RetainedRouteStays`, which the code breaks (section 4).
4. `SshPolicy`, the rows of the SSH authority, and `SshGateway`, which composes them with the
   gateway, its registry and its runtime. Done, with every safety invariant the runs check
   proved.
5. The capsule operations, implementing `OperationLedger` together: `CapsuleCreate` with
   compensation, `CapsuleSnapshot`, `CapsuleArchival`, `CapsuleDestroy` with its proofs of absence, over
   `CapsuleRows` and composed by `CapsuleLifecycle`. Done, with the refinement and every safety and action property the runs
   check proved.
6. `DeploymentLedger`, the record of an AWS deployment with its rules as pure operators, and `AwsDeployment`, the
   commands over it. Done, with every safety invariant the run checks proved. Left: the ZFS and Incus journals of the CLI, the Incus
   operations transport (event stream against polling), canonical JSON as pure operators.
7. Left: the liveness of the SSH gateway: the row of a relay whose client has left is closed.

## 3. The modules

### OperationLedger: what the ledger promises

One variable per column that the promise is about: `opStatus`, `entry` (which
request the row is), `intent`. `Accept` needs a free key and a free capsule, the two
unique indexes of `record.ts:117-120`; `RecordIntent` is irrevocable; an operation
may be called `failed` only if it has no intent, or its outcome has been observed. `touched` is the ghost
that says the provider may have been reached.

### BranchOperation: start and stop

Every handler, executor and reconciler step is an action. `Submit`, `AnswerReplay`,
`AcceptTransaction` and `RecheckReplay` are `acceptance.ts`; `Claim`, `RecordIntent`,
`ConfirmOnline`, `Complete` are the transactions of `execution.ts`; `RevokeSsh`,
`WithdrawPreviews`, `CallProvider`, `ObserveRuntime`, `EnableSsh`, `ResumePreviews` are the steps
of the two executors in their order; `StepThrows` and `Fail` the catch blocks and
`policy.ts:classify`; `Boot` and `ClassifyAbandoned` the startup; `BeginPass`,
`ObserveCandidate` and `RecordObservation` the reconciler. A provider call is a record that
lands, is refused or stays pending on its own (`Land`, `Refuse`), so a deadline or a crash
leaves it behind. A withdrawal or a resumption may silently do nothing in a Worker whose preview coordinator
is stopped (`CoordinatorMayBeStopped`); what keeps the branch from being stopped then is the gate before the provider call. `LoseAuthority` starts a second Worker beside a superseded one whose
executors go on. `ImplementsLedger` is the refinement of `OperationLedger`, with the rows
mapped one to one.

### CapsuleRows, CapsuleCreate, CapsuleSnapshot, CapsuleArchival, CapsuleDestroy, CapsuleLifecycle

`CapsuleRows` holds what the capsule operations share: the rows (`op`, `capsule` with its root branch, `rows` of the
planned inventory, `capture`, `snapshot`, `target`), one executor per operation, the Worker process, and the provider:
objects that exist, calls on their way, instances that run. An executor record has the await it stands at (`step`), the item
in hand, the answer of the call it waits for, the items its compensation still covers and the flags of its in-memory execution
state (for create: the intent is committed, an attempt to complete was made, ownership is uncertain). Each operation then has a module:

- `CapsuleCreate`: claim, inventory, intent, and for each item in the fixed order namespace, binds, volumes, instance, files: begin,
  call, record. A throw compensates only if the intent is known to be committed and completion was not attempted; it deletes what this process
  recorded as made, newest first, and goes on past a failure. "creation_failed" is said only of a compensation that covered everything it made, with nothing uncertain.
- `CapsuleSnapshot`: SSH blocked, the instance read as stopped, each volume captured (the first carries the intent), the instance read again,
  one commit. A throw after the first capture began deletes what was recorded as captured and reads the instance once more before it
  classifies; one before it, a failed step record between the first look and the capture included, classifies at once.
- `CapsuleArchival`: archive and unarchive, which share one provider-free execution.
- `CapsuleDestroy`: targets planned from what the rows name, never from what the provider shows; usable snapshots retired; intent; per target
  a read, an intent, a stop and a deletion, a read. Incus is believed only while nothing is in progress in the project.
- `CapsuleLifecycle`: acceptance of any operation, execution, classification at startup, branch starts and stops, crash and boot.

A commit may be made and its acknowledgement lost: such a transaction has two outcomes for its executor. A step that throws without effect
is one action (`CreateThrows`, ...) with the steps it can happen at. Abstractions, with what they lose:

- One owner, hence one Incus project, so `assertIdle` sees every call; a request that was submitted is visible to it. That is an assumption on Incus:
  `assertIdle` (`incus/client/operations.ts:19`) lists its operations, and a mutation that Incus answers synchronously
  (`incus/client/transport/client.ts:212` accepts one) and still works on would not be among them.
- A capsule has its root branch: `fork/submission.ts:28` refuses every request. Every branch is taken to have a preview row, so its route is always a target.
- Replay is left out (every operation has its own key); `BranchOperation` covers it on the same ledger.
- In destroy, the three reads of an inspection (idle, get, idle) are one; the transaction that withdraws the previews with the intent
  (`destroy/repository.ts:267`) and the checks of previews and aliases in `complete` (376-383), which can only refuse, are left out.
- The namespace is shared by the owner's capsules and made idempotently, and files live in objects: neither is an object of its own.
- An acceptance whose commit is not acknowledged schedules no executor, and a snapshot whose claim is not acknowledged does not classify: both wait for the next startup.
- Runtime changes that no operation asked for are bounded by `MaxDrift` and do not happen before the create has ended.

History variables: `history.before` is what rows and provider showed of a capsule at its last acceptance, `touched` and `witnessed`
are the ghosts of `OperationLedger`, `dirty` the captures that ran while the instance did.

### WorkerAuthority and WorkerRuntime

`lock` is PostgreSQL's view and `authority[p]` the process's own; they differ after
`SessionEnds`, until a scheduled check (`SendCheck`, `AnswerCheck`, `CheckFails`) finds out. `phase` is the
await at which `boot()` or `shutdown()` stands. Each name in `Commands` has a responder loop of its own in each process, which takes
one message at a time: `receiving[p]` are the commands whose handler has not committed, `accepted[p]` what the handlers committed and
have not yet scheduled, so handlers of several commands are under way at once, before and after `CloseIntake`. Handlers and executors are
otherwise reduced to their presence, since `BranchOperation` has the rest. `severed` (sessions ended under a
process) and `late` (acceptances behind a closed channel) are history variables, used
only to state what the code can be held to.

### CaddyRoutes and PreviewRouting

The route table is a function from previews to upstream addresses: the
configuration digest of a preview is determined by its address, since the pins of
a branch do not change. A request carries the table it was decided on (the ETag is a
digest of the content, so an ETag *is* the content) and stays in `requests` until
the server performs or refuses it; `Abandoned` is a sender that no longer waits.
`PreviewRouting` has one job per process, as `exclusive()` has: a pass, the removal half of
a pass, or an operation's withdrawal. Its steps are the awaits of `controller.ts`; `stale`
records that a row moved after it was copied, which is what the status and
`updatedAt` guard of `failure.ts` compares. Branch operations are reduced to what
the rows depend on (`AcceptStop` .. `CompleteStart`). A probe that fails for a row that moved on cannot record
the failure as degraded; the row then requires cleanup, as in `controller.ts:96-101`.

Abstracted: the order of the routes in the table (so an ABA on the order is not told
apart), digests (compared as the addresses they are made of), the Blueprint's
applications (all proxied), and database errors inside a pass, which end in the same cleanup or
abort as the modelled ones.

### SshPolicy and SshGateway

`SshPolicy` has one operator per database transaction of `packages/ssh/src/host`; they
lock the rows they decide on, so each is one step. A connection obtains at most one
ticket and redeems it at most once, so its name also names its ticket and its relay.
`SshGateway` puts those transactions where the code awaits them. `setup[c]` is the await at
which `openRelay` stands; `registry`, `tombs`, `upstream` and `closures` are the registry's records,
its tombstones, the sockets to the branches and the durable closures under way. A
revocation is three steps: the transaction that withdraws and selects (`Ask`), the closing of
the selected relays in the process that answers (`CloseSelected`), the transaction that
confirms (`Confirm`). `Close` is the registry's `close`, with the one asymmetry that matters: a closure the host
asked for is made durable by the host, any other by the gateway. A process boots over
two recovery transactions and a verification of its lock, and releases the lock after
setup, closures and requests have drained. `scope` (what a revocation is about), `severed` and
`faulty` (a failed write left a row behind) are history variables.

Abstracted: the locks inside a transaction (a deadlock between their orders aborts one of
them, as `RedeemFails` and `SetupFails` do), the identity of the gateway instance (stable, so every
process has the same), the expiry of tickets and timers that only end a connection.
A tombstone is dropped only before registration, where it decides something.

### DeploymentLedger and AwsDeployment

`DeploymentLedger` is the record and its rules, without state: the state of a step (`ledger/step.ts`), the plans of creation
and removal, the resources and what an observation must show of them, what may be concluded (`Effects`, `Vacated`, `Removable`,
`Reusable`), what a record may say (`IsConsistent`, one operator per check of `audit.ts`) and what may follow on it
(`RequireTransition`, one per check of `transitions.ts`). The lists of actions are the code's; `Included` chooses those that
exist in an instance.

`AwsDeployment` has the coordinator as `cmd`, whose `pc` is the await it stands at, with its copy of the record (`mem`); the children;
the provider as the set of its objects and of the calls under way. `CreateNew`, `CreateReuse`, `RemoveHost`, `Abandon`, `Inspect` and
`HandOff` are the commands with their admission checks. `Fence` .. `Reply` are `Deployer.runStep` around one call: the fence is written,
the child started, the child checks lock and record (`Authorise`) and compares what it sees with what the record expects
(`Dispatch`, `DoNotAttempt`), and the answer is written before the child is let go (`Retain`); when it cannot be written the child is killed, confirmed or not. `Cancel` stands
wherever a signal is looked at: before a step, before its child, before an observation and before a health read. `FenceObserve`, `Look`, `Reconcile` are the
observation that verifies the step; `Close` is `Deployer.fail`. Every write goes through `Write`, which asks the two sets of rules,
and may fail with the file replaced or not. `GiveUp` is a deadline behind which the call stays in `flight`; `CallBreaks` a child that is killed, with
or without proof that it has ended; `Crash` leaves the lock, the child and the call; `Drift` is somebody else who deletes.

Abstractions, with what they lose:

- The comparison and the dispatch of a child are one step, and an observation shows one moment: reads at the provider are not stale.
- `removeRefused` and its removal are two commands here. A child that only reads is a state of its coordinator.
- The host key, quotas, tags, IAM permissions and the approval prompt are left out, and with them the release of the host's ZFS pool and Incus storage before a volume is reused.
- The root volume and the primary interface are one resource, `implicit`.
- The limit of 64 steps is not met: refused removals are bounded by `MaxRefusals` (three in the code), and those cancelled locally, which it does not count, by `MaxUpsets`.
- Once a record says "unconfirmed" no command starts. The code has no way out of that but the operator's; neither has the model.

`refused` is a history variable: the rules refused a write made from memory that agreed with the disk.

## 4. The runs

| Run | Instance | Shows |
| --- | --- | --- |
| `branch_races` | two handlers, two branches of one capsule, two keys, retries, fair | a receipt names the client's own operation; the loser of an identical race gets the winner's receipt; the rows implement the ledger; every operation ends or has lost its executor |
| `branch_lifecycle` | one branch, three operations in turn, one crash or superseded Worker that runs on, one pass with stale observations, a provider within its deadline | types; a failed operation never touched the provider unseen; branch and operation own each other; a stop finds no live access; a failure leaves nothing pending; terminal rows are final |
| `branch_slow_provider` | a provider beyond its deadline | **violated**: finding 1 |
| `capsule_lifecycle` | one capsule with one captured volume, one file in it and an instance; three operations of any type; a crash and restart | types; the status of a capsule names its owner; nothing is left of a failed create or a destroyed capsule; an active capsule is whole; a usable snapshot exists; the rows implement the ledger |
| `capsule_settles` | one capsule with two captured volumes, two operations, an instance that starts or stops by itself once, fair | no volume was captured while the instance ran; "failed" restores, so a partly captured set is undone or reported; every executor ends |
| `worker_runtime` | two Workers, one operation, one command, one severed session, fair | only the lock holder acts, and commands are taken only with authority; a serving Worker finds nothing of another's open; shutdown ends; a lost session is noticed |
| `worker_late_accept` | two Workers, two commands, one operation | **violated**: finding 2 |
| `preview_restart` | two previews, one address, two changes, a crash and a restart, fair | types; a served route is accounted for by its row (before the restart); an inactive row has no route, now or later, and neither has a branch that was stopped; a withdrawal ends |
| `preview_overlap` | one preview, two addresses, two Workers at once | withdrawal wins: no request to apply a route leaves while its row is withdrawn |
| `preview_late_delete` | one preview, one address, a restart | **violated**: finding 3 |
| `ssh_revocations` | one branch, key, grant and connection, two gateway processes, two revocations of any kind, writes that fail or lose their answer | a live relay is authorised; a socket to a branch has a row; a confirmed revocation leaves no socket and none to come; startup and release leave no relay open behind them |
| `aws_deployments` | a VPC, an instance and a data volume with its attachment; two zones to launch in; three deployments of one alias in turn; one upset | the rules never refuse what the coordinator rightly writes; a record said to be confirmed has no child; nothing is forgotten at the provider; one launch per deployment; a volume has one holder |

**Bounds.** A race needs two actors and one object to race for; a handover two
processes; an address change two addresses, one for the current and one for the pending
configuration. `MaxChanges` and the numbers of boots, passes and provider calls bound what would otherwise
recur; each is a CONSTANT named in the guard it bounds. Two changes allow a start and a stop in one behaviour;
`preview_overlap` has the second address, for an address change. `Overlap` and `MaxSevered` switch the second acting Worker on.
`worker_runtime` has one command, hence one handler at a time in a Worker, because its liveness properties are dear; `worker_late_accept` has
handlers of two commands side by side, and the three invariants are proved for any number of commands and operations.
In `capsule_lifecycle` three operations are what a capsule's life takes: a create, what follows on it, and the destroy that has to
clean up after both, or an archive, which a destroy that is not forced requires; one object of each kind suffices, since compensation and
destroy treat each on its own, and the restart gives the last operation to a process without the executor's memory. `capsule_settles` has the
second volume, for a set that is half captured, and the drift.
`ssh_revocations` has one connection: connections share nothing but their grants and the count that
`MaxRelays` limits, so the refusal at that limit is not met there (the proofs cover it, for any number of
connections). Its two requests are a revocation and a repeated, or concurrent, one.
In `aws_deployments` an upset is any of: a failed write (that took effect or not), a refused or unanswered call, a child that dies or cannot be killed, a
cancellation, a crash, a resource deleted by somebody else. One is enough for every single failure at every point of every command; the
commands that follow it are the recovery. Three deployments are a creation, a reuse of its volume and a reuse of that, or a second attempt after an abandoned one: what
is asked of a chain of deployments relates neighbours. Two zones give the second attempt at a launch.
The VPC stands for the resources that are only created and removed, in an order.

**Deadlock checking** is off in every run: with the bounds used up and all processes
gone the system stops, as a host that is switched off does.

**Symmetry** is used for values that no property names, in runs without a liveness property only. The ids of capsule
operations are taken in a fixed order instead (`FreshId`), as the database generates them.

**Fairness.** Weak fairness on each executor's, job's and shutdown's next step:
every await is of a query or request with a deadline, so the step is taken or fails,
and failing is a step of the model too. In `CapsuleLifecycle` the same
fairness is on `Execute(o)`, the next step of any executor, and on nothing else: a call may never land, its waiter then times out.
Nothing makes an executor end in `WorkerRuntime`
(a provider may take forever), an operator stop a Worker, or the provider land a
call. `OpStep` has strong fairness in `PreviewRouting`: the waiter of `exclusive()` resumes in the
microtask that settles the job before it, ahead of any timer, so passes cannot
starve it.

### Findings

1. `branch_slow_provider`. README.md:144 of the repository says that a timeout does not prove that a mutation had no
   effect. The start executor (`start/executor.ts:117`) takes one observation "Stopped" after a failed call for
   proof that nothing happened; the start can land later, on a branch that is recorded as offline.
2. `worker_late_accept`. `submission.ts:56` counts on startup abandonment for a rejected schedule. A handler
   that is still running when its channel closes can commit after the next Worker listed the abandoned operations.
3. `preview_late_delete`. `recovery.ts:60` takes the current route for proof that a deletion did not take
   effect. After a crash the deletion may still be on its way, and its If-Match still matches.

The runs `branch_lifecycle` and `worker_runtime` check what holds beside these findings. `ReleasedIsClosed` of `ssh_revocations` is stated the same way:
`gateway/server.ts:306` says that the relay of a late redemption is durably closed before the authority is released, but a redemption
that commits with its answer lost, or a closure that fails before shutdown collects the pending ones, leaves the row open until the next
process starts; the property leaves such relays (`faulty`) out.

## 5. The proofs

`OperationLedgerProofs`: `LedgerIsSafe`, the promises of the abstract ledger.

`BranchOperationProofs`, for any sets of operations, branches, keys, handlers and calls and any bounds:

- `BranchTypeCorrect`: `Spec => []TypeOK`.
- `BranchInvariant`: the inductive invariant. `FailedIsSafe` alone is not inductive: whether an
  operation that is about to be classified may be called failed depends on whether
  it has recorded intent, so the invariant adds that a provider call exists only
  for an operation with recorded intent, that an executor stands past the intent step
  only if the intent is recorded, and that the disposition it reports is one
  it has observed.
- `BranchFailedIsSafe`: `Spec => []FailedIsSafe`, from the invariant.
- `BranchSystemInvariant`: the same with what relates the rows to each other (`RowInv`: one operation per key, one owner per branch, a moving
  branch has an owner), to the requests being answered (`CandidatesInv`, `ReceiptInv`), to the executors (`ActingInv`: one that acts belongs
  to the running operation that owns its branch) and to the access rows (`AccessInv`: an accepted stop leaves no live access). One lemma says
  that every step is one of nine moves of the rows (`RowsMove`), and the invariants of the rows are then proved once per move.
- `BranchReceiptsNameOneOperation`, `BranchOwnershipIsMutual`, `BranchStopFindsNoLiveAccess`: from it.
- `BranchFailedLeavesNothingPending`: under `~SlowProvider` only. With it the property is false, which is the finding of section 4:
  the executor may time out on a call that the provider still carries out.
- `BranchTerminalIsFinal`, `BranchIdenticalRequestGetsReceipt`: the action properties.
- `BranchImplementsLedger`: `Spec => Ledger!Spec`, each of the nine moves being a step or a stutter of the ledger.

`WorkerRuntimeProofs`, for any processes, operations, commands and severed sessions:

- `WorkerInvariant`: the inductive invariant. `ActsOnlyWithLock` alone is not inductive, since a process only ever asks what it believes:
  `AuthorityInv` says that the belief is the lock unless the session was ended, `PhaseInv` what a position in boot or shutdown says about the
  authority, `WorkInv` that intake closes before the executors are drained and that the authority is given back after them. `ClassifiedInv`
  follows the pass that abandons the operations of earlier processes.
- `WorkerTypeCorrect`, `WorkerActsOnlyWithLock`, `WorkerOwnsOpenOperations`: the invariants of the Worker run, from it;
  `WorkersExcludeEachOther`: two processes whose sessions were not ended never both act.

`PreviewRoutingProofs`, for any previews, addresses, processes and bounds. The invariant has three layers:

- Types and the shape of a job (`TypeInv`, `ShapeInv`) hold however many processes run: a request somebody waits for is the one
  its sender sent last, and only an apply or a cleanup has a pending configuration.
- If no two processes run at once (`Solo`), the copies a job holds of its rows are the rows (`SoloInv`), and routes and requests agree with them
  (`RouteInv`). `WithdrawnIsUnrouted` needs more than itself: a request that creates a route may be carried out long after its
  sender gave up, so an inactive row must know that no such request is left. `CreationIsOwned` says that there is at most one, under a row that
  owns up to it, and `Knows` what each step of a job has learnt about it from the table it read: that is what lets `removed` be believed.
  `StopInv`: behind the gate of a stop no job can touch a row.
- Before the first replacement (`boots = 0`), every route and every request is accounted for by the row (`AccountInv`).
- `PreviewTypeCorrect`, `PreviewRouteIsAccounted` (which speaks of the first process itself), `PreviewWithdrawnIsUnrouted` under `~Overlap`, the
  assumption that a replacement starts after its predecessor has ended, which is that of the run: on the instance of `preview_overlap` TLC finds it violated.
  `PreviewNoApplyWhileWithdrawn` needs no such assumption.

`CapsuleLifecycleProofs`, for any capsules, operations, volumes, files and bounds, first of the ledger:

- `CapsuleTypeCorrect`: `Spec => []TypeOK`. The invariant `TypeInv` adds the calls on their way, which `TypeOK` leaves out since
  their set cannot be enumerated, and that an executor belongs to an accepted operation.
- `CapsuleOwnershipIsMutual`, `CapsuleHasOneOwner`: a step is quiet about ownership, or ends the operation that owns a capsule and leaves
  the capsule at rest. `OneOwner`, from the unique index, is what makes `OwnershipIsMutual` inductive: a second owner could end and
  leave the capsule at rest under the first.
- `CapsuleImplementsLedger`: every step of an executor is one of six moves (`LedgerMove`: stay, claim, record intent, touch the provider, witness,
  end), each a step or a stutter of the ledger (`MoveRefines`), and so is an acceptance (`AcceptRefines`). That an executor only makes such moves needs
  `LedgerInv`: only a serving process has executors, a step that calls the provider belongs to a running row with its intent committed,
  and an executor whose flags or items let it say "failed" has witnessed its effects undone, if there were any.

and on top of it of the objects, for any number of boots and drifts:

- `CapsuleWhole`: the inductive invariant `WholeInv`. None of the five properties below is inductive by itself: each holds because of what
  rows, calls on their way and executors know of one another. The rows: a call is of a kind its operation makes, under a recorded intent
  (`CallsInv`); the row of an object says whether it can exist, be made or be removed by a call still on its way (`ObjectsInv`), as long
  as no destroy has recorded its intent (`Demolished`), after which only the targets of that destroy are believed (`TargetsInv`, `DemolishedInv`); a capsule that is
  active, or can become active again, has every resource row "created" and no capture in doubt (`SoundInv`); a usable snapshot
  was completed with every capture "created" (`CommittedInv`); the picture taken at acceptance differs from what is there by what the
  operation made itself (`BeforeInv`). The executors: what a step knows of the object in hand (`ExecsInv`), such as that a row is "creating" from
  before the call until it is recorded, and that the answer "ok" means that the object exists and no call for it is left.
- One lemma per step of an executor says which of these it disturbs. Everything that no executor does (landing, refusing, answering or losing a
  call, the instance starting or stopping by itself, crash, boot) is one relation, `World`, for which they are proved once.
- `CapsuleGoneLeavesNothing`, `CapsuleActiveIsWhole`, `CapsuleSnapshotsAreBacked`, `CapsuleSnapshotIsQuiet`: from it.
- `CapsuleFailedRestores`: the action property. `NextFails` says that the only steps that set "failed" are the settling ones that found every
  effect undone, startup classification among them (`Undoing`); `UndoneIsBack`, that in such a step `BeforeInv` gives back the picture of the acceptance.

`SshGatewayProofs`, first for the rows of `SshPolicy`, with any branches, keys, grants and connections:

- `PolicyStepKeeps`: every transaction keeps the invariant of the rows. `RelayIsAuthorised` needs
  `TicketIsCurrent` (withdrawing a grant takes its tickets along, redeemed or not), which is what refuses a late
  activation, and `OneGrantPerKey`, without which revoking one grant would have to look for others like it.
- `RowsOnlyClose`: a relay row never goes back, a revoked ticket stays revoked. This is what the
  gateway may rely on between two of its awaits.

and then for the gateway over them, with any number of processes, requests and connections:

- `SshInvariant`: the inductive invariant. Every step is one transaction of `SshPolicy` or leaves
  the rows alone (`StepIsPolicyStep`), which gives the rows; the rest relates rows to processes. `SetupShape` says what
  holds of a connection between two awaits; `HoldsLock`, that a process whose session has not
  ended holds the lock, so that two of them are never up at once; `OthersAreClosed` follows a starting process through its
  recovery, one transaction at a time; `EstablishedHasRow` is `SocketHasRow`, extended to a relay about to dial;
  it needs `SelectedIsClosing` (what a request confirms, it has closed first); `ScopeIsRevoked` says
  that what a request is about has no ticket left to redeem.
- `SshTypeCorrect`, `SshRelayIsAuthorised`, `SshSocketHasRow`, `SshConfirmedIsQuiet` and
  `SshPredecessorsAreClosed`: the invariants of `ssh_revocations`, from it.
- `SshReleasedIsClosed`: once the lock is released no row of the process is left open. `OpenIsAccounted` makes it inductive: as long as
  no write of a relay row was lost (`faulty`), each open row has a connection of a live process that will close it.

`AwsDeploymentProofs`, for any actions, numbers of deployments, zones, refusals and upsets:

- `FenceInvariant`: the inductive invariant. `ConfirmedHasNoChild` alone is not inductive: a reply is written as confirmed, so the child that
  replied has to be the only one (`ChildIsAttended`), and a child may start only under a fence that is on disk (`FenceIsWritten`). A child that may
  be left behind by a kill stays only with a command that is about to end (`MayHaveChild`): it tries no further zone, since its outcome is
  "uncertain", and writes its last record as unconfirmed. A command starts only if every record is confirmed, so without a child.
- `ConfirmedRecordHasNoChild`: `Spec => []ConfirmedHasNoChild`, from it.
- `LaunchInvariant`: the inductive invariant of the steps, on top of `FenceInv`. A launch is repeated, in the next zone, only after one that
  was declined for capacity, so `LaunchIsUnique` rests on a declined step being `Traceless`: no object, no call under way, and no child
  that could still call. That has to hold of the steps on disk (`RecordsFit`), of those a command has in memory and of the outcome it is about
  to record (`Knows`). It is preserved because a step's number is never used again (records only grow, and memory has the steps
  of the disk except in a command that fails), a child calls once at most (`ChildrenFit`), and each object and each call
  under way has a step in the record of its deployment (`TracesFit`, `Numbered`).
- `AwsLaunchIsUnique`: `Spec => []LaunchIsUnique`: all launches of a record but the last were declined, so only the last can have an instance.
- `RecordsParse`: every record on disk, and the one in memory, is consistent (`IsConsistent`, the checks of `audit.ts`): a write is accepted
  only if it is, and a failed write leaves one that was.
- `SightInvariant`: the inductive invariant of what a record lets its reader conclude, on top of the two above. A resource is left out of
  account because an observation showed it absent, or because its removal was verified by one. An observation only shows what exists, so
  `Sees` has to say too that nothing was on its way: a step whose answer is recorded has no call under way and no child that may still call
  (`Answered`), on disk, in memory and between the answer of a child and its record (`AnswersCount`). A removal makes no resource (`Directed`).
- `AwsNothingIsForgotten`: `Spec => []NothingIsForgotten`. What exists or is under way belongs to a step of the record; with nothing
  unnamed and nothing refused, that step was answered and it is the only one for its resource (`NoRepeats`: the places of the creations
  follow the plan, whose actions are distinct), so the resource is listed, and it is released only if it was seen gone.
- `ChainInvariant`: the inductive invariant of the hand-off, on top of the four above. The deployments of an alias form one chain
  (`previous` is the last one), and one that reuses a volume reuses that of the one before it, which held it, was reserved before the new
  one has a step, and is completed only when the new one holds the volume (`ReuseInChain`). `VolumeHasOneHolder` says nothing of a third
  deployment; the invariant has to: it may take the volume over only when the first hand-off is completed. A command's memory
  agrees with the disk until it fails (`InChain`), only the newest deployment creates, and no earlier one attaches anything (`OnlyNewestAttaches`).
- `AttachInvariant`: what is attached, or about to be, is the volume of the deployment's record, to an instance that exists, and the
  deployment a volume was taken from attaches it no more (`Detached`). That a volume offered for reuse is detached
  (`ReusableIsDetached`) is not read off an observation of the attachment: with everything released the instance was seen gone, and it took its attachments with it.
- `AwsVolumeHasOneHolder`: `Spec => []VolumeHasOneHolder`, from the two: the records of a volume are an interval of the chain (`VolumeInterval`),
  the last of them that holds it has not handed it off, and any that has two later ones has.

`AwsRulesProofs`, on top of it:

- `RulesInvariant`: the inductive invariant of the writes, on top of those of fences, launches, sight, parsing and
  the chain. That a write is accepted depends on what the command found out awaits earlier, so `Prepared` says for each place a command may
  stand at what it has in hand: before the next step, that the last one is verified, or was a launch without capacity with a zone left
  (`ToCreate`), or that the record may be removed and agrees with its last observation (`ToRemove`); before an abandonment, that nothing is
  attached, refused or unaccounted for (`ToAbandon`); before an observation is recorded, that it covers every listed resource, and the
  implicit ones only with their instance, and brings nothing back that was seen gone (`Fresh`); at a failure, which outcome it may
  record (`ToFail`). Of the records it needs that every step but the last is verified or refused (`Typed`), and that
  nothing is missing from one whose volume was taken over (`Quiet`), since the reservation and the completion are written to that one; of a
  child, that it reports only the outcomes its action can have (`ReportsFit`). For each kind of write one lemma shows that the new record
  satisfies both sets of rules (`KeyAllowed`, `HealthAllowed`, `AbandonmentAllowed`, ...) and is again one that can be written to (`Sound`).
- `AwsWritesAreAccepted`: `Spec => []WritesAreAccepted`, from it.

The proofs use the named assumptions of the modules on their constants and nothing
else. They have one step per action of `Next`, with lemmas for the helpers shared by several
actions.

**Only model-checked**: of the properties that hold none but the liveness ones; the three that the code breaks (section 4) are refuted by their runs. **Out of the prover's
reach**: the five liveness properties (fairness, ENABLED). The inductive invariants themselves were checked with TLC on small instances before
they were proved.

## 6. Not modelled

Section 2 lists what is planned. Fork (`operations/fork`) is complete code that nothing reaches: `fork/submission.ts:28` answers every
request with a conflict before a row is written. Not planned: wording of errors and events, read-only
services (capsule reading, diffs, URLs), schemas and parsing, user interface, catalog
data, package scripts. PostgreSQL, NATS, Incus and Caddy themselves are modelled as the code uses them
and marked external in `PROJECT.json`.
