---------------------------- MODULE AwsDeployment ----------------------------
(***************************************************************************)
(* The deployment commands of the AWS CLI under one alias: a coordinator     *)
(* process that holds the operation lock, the child process that makes one    *)
(* provider call for it, the record on disk and the provider.  Commands are   *)
(* started by an operator, one at a time; processes crash, writes fail or     *)
(* land unreported, provider calls are refused, lost or late, and resources   *)
(* are deleted behind the CLI's back.                                        *)
(*                                                                           *)
(* A child that only reads is a state of its coordinator ("look", "probe"),   *)
(* and an observation shows one moment of the provider.  The second half of   *)
(* a refused creation (refused.ts) is a remove or an abandon command.         *)
(***************************************************************************)
EXTENDS DeploymentLedger

CONSTANTS
  MaxDeployments,  \* deployments of the alias
  MaxUpsets        \* failures, refusals, crashes and deletions of a behaviour

ASSUME BoundAssumption == MaxDeployments \in Nat \ {0} /\ MaxUpsets \in Nat

VARIABLES
  disk,      \* the records that exist, by deployment id
  lock,      \* connections.lock: free, held, or stale (its owner is gone)
  cmd,       \* the running coordinator
  children,  \* processes that make a provider call
  objects,   \* what exists at the provider
  flight,    \* provider calls under way
  upsets,    \* upsets so far
  refused    \* whether the record's rules refused a write they should allow

vars == <<disk, lock, cmd, children, objects, flight, upsets, refused>>

Ids == 1..MaxDeployments
Existing == DOMAIN disk
Tips == {d \in Existing : \A e \in Existing : disk[e].previous # d}
LastStep(r) == r.steps[Len(r.steps)]

Recorded(d, record) == [e \in Existing \cup {d} |-> IF e = d THEN record ELSE disk[e]]

Command(op, dep, record, pc) ==
  [op |-> op, dep |-> dep, pc |-> pc, mem |-> record, fence |-> 0, approval |-> FALSE,
   observation |-> None, outcome |-> "none", confirmed |-> TRUE]
At(pc) == cmd # None /\ cmd.pc = pc
Upset == upsets < MaxUpsets /\ upsets' = upsets + 1

Init ==
  /\ disk = <<>>
  /\ lock = "free"
  /\ cmd = None
  /\ children = {}
  /\ objects = {}
  /\ flight = {}
  /\ upsets = 0
  /\ refused = FALSE

-----------------------------------------------------------------------------
(* Writes.  records.save parses the record, asks the rules whether it may    *)
(* follow the one on disk, and replaces the file; a failure of the file        *)
(* system may leave either.                                                  *)

Accepted(d, record) == IsConsistent(record) /\ RequireTransition(disk[d], record)
Write(d, record, done, failed) ==
  IF Accepted(d, record)
  THEN /\ UNCHANGED refused
       /\ \/ /\ disk' = [disk EXCEPT ![d] = record]
             /\ cmd' = done
             /\ UNCHANGED upsets
          \/ /\ Upset
             /\ disk' \in {disk, [disk EXCEPT ![d] = record]}
             /\ cmd' = failed
  ELSE /\ refused' = (refused \/ cmd.mem = disk[cmd.dep])
       /\ cmd' = failed
       /\ UNCHANGED <<disk, upsets>>

(* Deployer.persist: memory takes the record before it is saved.            *)
Held(record) == IF IsConsistent(record) THEN record ELSE cmd.mem
Failing(record) == [cmd EXCEPT !.mem = Held(record), !.pc = "fail", !.outcome = "uncertain"]
Persist(record, next) == Write(cmd.dep, record, [next EXCEPT !.mem = record], Failing(record))
To(pc) == [cmd EXCEPT !.pc = pc]
WithLast(r, step) == [r EXCEPT !.steps[Len(r.steps)] = step]
Fenced(r) == [r EXCEPT !.termination = "unconfirmed"]
Confirmed(r) == [r EXCEPT !.termination = "confirmed"]

-----------------------------------------------------------------------------
(* Commands.  Each takes the lock and refuses to run while some record's     *)
(* child is not known to be gone.                                            *)

Ready == cmd = None /\ lock = "free" /\ \A d \in Existing : disk[d].termination = "confirmed"
Begin(command) ==
  /\ lock' = "held"
  /\ cmd' = command
  /\ UNCHANGED <<disk, children, objects, flight, upsets, refused>>

(* lineage/chain.ts: every reuse back to the volume's creation is intact.    *)
ChainIntact(d) ==
  \A e \in Existing :
    e <= d /\ disk[e].reuse # None /\ disk[e].reuse = VolumeId(disk[d])
      => LET previous == disk[disk[e].previous]
         IN VolumeId(previous) = disk[e].reuse /\ IsIntact(previous, disk[e])

New == Cardinality(Existing) + 1
(* tipOf and predecessor: the alias has one newest deployment, and it has gone. *)
Precedes(previous) == Tips = {previous} /\ Vacated(disk[previous])
CreateNew(previous) ==
  /\ Ready
  /\ New \in Ids
  /\ IF previous = None THEN Existing = {} ELSE Precedes(previous)
  /\ LET record == Deployment(New, previous, None)
     IN /\ disk' = Recorded(New, record)
        /\ cmd' = Command("create", New, record, "key")
  /\ lock' = "held"
  /\ UNCHANGED <<children, objects, flight, upsets, refused>>

CreateReuse(previous) ==
  /\ Ready
  /\ New \in Ids
  /\ Precedes(previous)
  /\ Reusable(disk[previous]) # None
  /\ ChainIntact(previous)
  /\ Begin(Command("reuse", previous, disk[previous], "observe"))
Approve ==
  /\ At("approve")
  /\ LET id == Reusable(disk[cmd.dep])
         record == Deployment(New, cmd.dep, id)
     IN /\ Vacated(disk[cmd.dep]) /\ id # None
        /\ disk' = Recorded(New, record)
        /\ cmd' = [cmd EXCEPT !.op = "create", !.dep = New, !.mem = record, !.pc = "reserve"]
  /\ UNCHANGED <<lock, children, objects, flight, upsets, refused>>
ReservePrevious ==
  /\ At("reserve")
  /\ LET previous == disk[cmd.mem.previous]
     IN Write(previous.id, Reserve(previous, cmd.dep), To("key"), To("end"))
  /\ UNCHANGED <<lock, children, objects, flight>>

RemoveHost(d) ==
  /\ Ready
  /\ CanSettle(disk[d])
  /\ RemovalPlan(disk[d]) # {}
  /\ Begin(Command("remove", d, disk[d], "observe"))
Abandon(d) ==
  /\ Ready
  /\ Abandonable(disk[d])
  /\ Begin(Command("abandon", d, disk[d], "observe"))
Inspect(d) ==
  /\ Ready
  /\ disk[d].steps # <<>> /\ Resources(disk[d]) # {}
  /\ Begin(Command("inspect", d, disk[d], "observe"))
HandOff(d) ==
  /\ Ready
  /\ disk[d].reuse # None
  /\ LET previous == disk[disk[d].previous]
     IN previous.successor = None \/ NeedsCompletion(previous, disk[d])
  /\ Begin(Command("handoff", d, disk[d], "settle"))

-----------------------------------------------------------------------------
(* The coordinator between two provider calls.                              *)

FenceKey ==
  /\ At("key")
  /\ Persist(Fenced(cmd.mem), To("keyed"))
  /\ UNCHANGED <<lock, children, objects, flight>>
KeyGenerated ==
  /\ At("keyed")
  /\ Persist([Confirmed(cmd.mem) EXCEPT !.key = TRUE], To("next"))
  /\ UNCHANGED <<lock, children, objects, flight>>

Planned ==
  IF cmd.op = "create" THEN NextCreation(cmd.mem) ELSE NextRemoval(cmd.mem)
(* The fence is written before anything may be sent.                        *)
Fence ==
  /\ At("next") /\ Planned # None
  /\ LET attempt == IF cmd.op = "create" THEN 0 ELSE cmd.mem.removals + (IF cmd.approval THEN 1 ELSE 0)
         record == [Fenced(cmd.mem) EXCEPT !.steps = Append(@, Step(Planned, attempt)),
                                           !.removals = attempt]
         place == Len(record.steps)
     IN Write(cmd.dep, record,
              [cmd EXCEPT !.mem = record, !.pc = "fenced", !.fence = place, !.approval = FALSE],
              [Failing(record) EXCEPT !.fence = place])
  /\ UNCHANGED <<lock, children, objects, flight>>
Spawn ==
  /\ At("fenced")
  /\ children' = children \cup
       {[dep |-> cmd.dep, step |-> cmd.fence, phase |-> "spawned", outcome |-> "none"]}
  /\ cmd' = To("call")
  /\ UNCHANGED <<disk, lock, objects, flight, upsets, refused>>
(* Cancelled before a fence or a read, or after the fence and before the child. *)
Cancel ==
  /\ At("next") \/ At("fenced") \/ At("observe") \/ At("health")
  /\ Upset
  /\ cmd' = [cmd EXCEPT !.pc = "fail",
                        !.outcome = IF cmd.pc = "fenced" THEN "unattempted" ELSE "uncertain"]
  /\ UNCHANGED <<disk, lock, children, objects, flight, refused>>
Finish ==
  /\ At("next") /\ Planned = None
  /\ cmd' = To(IF cmd.op = "create" THEN "health" ELSE "end")
  /\ UNCHANGED <<disk, lock, children, objects, flight, upsets, refused>>

-----------------------------------------------------------------------------
(* The provider.  A call names what it acts on: the object it makes, the      *)
(* volume it attaches, the object it removes.                                *)

Id(o) == <<o.dep, o.step>>
Request(r, step) ==
  LET action == r.steps[step].action
      undone == Undoes(action)
  IN [dep |-> r.id, step |-> step, action |-> action,
      on |-> IF action = "attach-volume" THEN VolumeId(r)
             ELSE IF undone # {} THEN <<r.id, StepOf(r, CHOOSE a \in undone : TRUE)>>
             ELSE None]
Alive(id) == \E o \in objects : Id(o) = id
InstanceOf(d) == {o \in objects : o.dep = d /\ o.action = "run-instances"}
(* What ends with an object: its links, and an address association with the   *)
(* instance.                                                                 *)
EndsWith(o) ==
  {o} \cup {x \in objects :
              \/ x.dep = o.dep /\ o.action \in CarriersOf(x.action)
              \/ x.action = "attach-volume" /\ x.on = Id(o)
              \/ x.dep = o.dep /\ x.action = "associate-address" /\ o.action = "run-instances"}
Possible(call) ==
  call.action = "attach-volume" =>
    /\ InstanceOf(call.dep) # {} /\ Alive(call.on)
    /\ \A o \in objects : o.action = "attach-volume" => o.on # call.on
Effect(call) ==
  IF Undoes(call.action) = {} THEN objects \cup {call}
  ELSE objects \ UNION {EndsWith(o) : o \in {x \in objects : Id(x) = call.on}}

KeyId(r, key) ==
  IF key = "create-volume" THEN VolumeId(r) ELSE <<r.id, StepOf(r, Parent(key))>>
Carried(r, key) ==
  {<<x.dep, x.action>> : x \in
     {o \in objects : /\ key \in CarriersOf(o.action)
                      /\ IF key = "create-volume" THEN o.on = VolumeId(r) ELSE o.dep = r.id}}
Seen(r, key) ==
  CASE ~Alive(KeyId(r, key)) -> "absent"
    [] Alive(KeyId(r, key)) ->
         IF Present(r, key) /\ Carried(r, key) # Links(r, key) THEN "changed" ELSE "present"
(* The root volume and the interface are listed once the instance fits.     *)
Observe(r) ==
  [key \in Active(r) \cup
     (IF Launching(r) /\ Seen(r, "run-instances") = "present" THEN {"implicit"} ELSE {}) |-> Seen(r, key)]

-----------------------------------------------------------------------------
(* The child: it reads the lock and the record, compares the provider with    *)
(* the record, makes the call and reports.                                    *)

Attended(c) == At("call") /\ cmd.dep = c.dep /\ cmd.fence = c.step
Become(c, phase, outcome) ==
  children' = (children \ {c}) \cup {[c EXCEPT !.phase = phase, !.outcome = outcome]}

(* requireOperationLock(root, process.ppid) and requireAuthority.           *)
Authorise(c) ==
  /\ c.phase = "spawned"
  /\ cmd # None /\ cmd.dep = c.dep /\ cmd.fence = c.step
  /\ LET r == disk[c.dep]
     IN /\ r.termination = "unconfirmed"
        /\ c.step = Len(r.steps) /\ StateOf(LastStep(r)) = "open"
  /\ Become(c, "authorised", "none")
  /\ UNCHANGED <<disk, lock, cmd, objects, flight, upsets, refused>>
Dispatch(c) ==
  /\ c.phase = "authorised"
  /\ Matches(disk[c.dep], Observe(disk[c.dep]))
  /\ flight' = flight \cup {Request(disk[c.dep], c.step)}
  /\ Become(c, "asked", "none")
  /\ UNCHANGED <<disk, lock, cmd, objects, upsets, refused>>
(* NOT_ATTEMPTED: authority, credentials or the comparison failed.          *)
DoNotAttempt(c) ==
  /\ c.phase \in {"spawned", "authorised"}
  /\ IF c.phase = "authorised" /\ ~Matches(disk[c.dep], Observe(disk[c.dep]))
     THEN UNCHANGED upsets ELSE Upset
  /\ Become(c, "failed", "unattempted")
  /\ UNCHANGED <<disk, lock, cmd, objects, flight, refused>>
(* Mutant: a launch without an answer counts as a launch without capacity. *)
GivesUpAsDeclined(c) ==
  /\ c.phase = "asked"
  /\ Upset
  /\ Become(c, "failed",
            IF disk[c.dep].steps[c.step].action = "run-instances" THEN "capacity" ELSE "uncertain")
  /\ UNCHANGED <<disk, lock, cmd, objects, flight, refused>>
(* The request deadline, or a reply that says nothing: the call may yet land. *)
GiveUp(c) ==
  /\ c.phase = "asked"
  /\ Upset
  /\ Become(c, "failed", "uncertain")
  /\ UNCHANGED <<disk, lock, cmd, objects, flight, refused>>
(* A child that is not attended leaves when its channel closes.             *)
Leave(c) ==
  /\ ~Attended(c)
  /\ children' = children \ {c}
  /\ UNCHANGED <<disk, lock, cmd, objects, flight, upsets, refused>>

Waiting(call) == {c \in children : <<c.dep, c.step>> = Id(call) /\ c.phase = "asked"}
Reported(call, phase, outcome) ==
  children' = {IF c \in Waiting(call) THEN [c EXCEPT !.phase = phase, !.outcome = outcome] ELSE c
                 : c \in children}
Land(call) ==
  /\ Possible(call)
  /\ objects' = Effect(call)
  /\ flight' = flight \ {call}
  /\ Reported(call, "answered", "none")
  /\ UNCHANGED <<disk, lock, cmd, upsets, refused>>
(* process.ts: the provider errors that prove that nothing was done.        *)
RefusalsOf(action) ==
  {"rejected", "uncertain"}
    \cup (IF action = "run-instances" THEN {"capacity"} ELSE {})
    \cup (IF Undoes(action) # {} THEN {"blocked"} ELSE {})
Refuse(call) ==
  /\ IF Waiting(call) = {} THEN UNCHANGED upsets ELSE Upset
  /\ flight' = flight \ {call}
  /\ \E outcome \in RefusalsOf(call.action) : Reported(call, "failed", outcome)
  /\ UNCHANGED <<disk, lock, cmd, objects, refused>>

-----------------------------------------------------------------------------
(* The coordinator during a provider call.                                  *)

(* The answer is on disk before it is acknowledged; when it cannot be saved  *)
(* the child is killed, and the kill is confirmed or not.                    *)
Retain(c) ==
  /\ Attended(c) /\ c.phase = "answered"
  /\ LET record == WithLast(cmd.mem, [LastStep(cmd.mem) EXCEPT !.returned = TRUE])
     IN \E confirmed \in BOOLEAN :
          /\ Write(cmd.dep, record, [cmd EXCEPT !.mem = record],
                   [Failing(record) EXCEPT !.confirmed = confirmed])
          /\ CASE cmd'.pc = "call" -> Become(c, "done", "none")
               [] cmd'.pc # "call" /\ confirmed -> children' = children \ {c}
               [] cmd'.pc # "call" /\ ~confirmed -> UNCHANGED children
  /\ UNCHANGED <<lock, objects, flight>>
(* The child has closed.                                                    *)
Reply(c) ==
  /\ Attended(c) /\ c.phase \in {"done", "failed"}
  /\ children' = children \ {c}
  /\ Persist(Confirmed(cmd.mem),
             IF c.phase = "done" THEN To("observe")
             ELSE [cmd EXCEPT !.pc = "fail", !.outcome = c.outcome])
  /\ UNCHANGED <<lock, objects, flight>>
(* A deadline, a dead child or a broken protocol: the child is killed, and    *)
(* the kill is confirmed or not.                                             *)
CallBreaks ==
  /\ At("call") \/ At("look") \/ At("probe") \/ At("keyed")
  /\ Upset
  /\ \E confirmed \in BOOLEAN :
       /\ cmd' = [cmd EXCEPT !.pc = "fail", !.outcome = "uncertain", !.confirmed = confirmed]
       /\ children' = IF confirmed THEN {c \in children : ~Attended(c)} ELSE children
  /\ UNCHANGED <<disk, lock, objects, flight, refused>>

(* Deployer.observation and reconcile.                                      *)
FenceObserve ==
  /\ At("observe")
  /\ Persist(Fenced(cmd.mem), To("look"))
  /\ UNCHANGED <<lock, children, objects, flight>>
Look ==
  /\ At("look")
  /\ Persist(Confirmed(cmd.mem), [cmd EXCEPT !.pc = "reconcile", !.observation = Observe(cmd.mem)])
  /\ UNCHANGED <<lock, children, objects, flight>>
Reconciled(r, observation) ==
  LET agrees == Matches(r, observation)
      verifies == agrees /\ r.steps # <<>> /\ StateOf(LastStep(r)) = "returned"
      latest == [r EXCEPT !.latest = observation,
                          !.implicit = @ \/ (agrees /\ "implicit" \in DOMAIN observation)]
  IN IF verifies THEN WithLast(latest, [LastStep(r) EXCEPT !.verified = TRUE]) ELSE latest
Verifying == cmd.fence # 0
Reconcile ==
  /\ At("reconcile")
  /\ Persist(Reconciled(cmd.mem, cmd.observation),
             IF ~Verifying THEN To("observed")
             ELSE IF ~Matches(cmd.mem, cmd.observation)
             THEN [cmd EXCEPT !.pc = "fail", !.outcome = "uncertain"]
             ELSE IF LastStep(cmd.mem).action = "attach-volume" /\ cmd.mem.reuse # None
             THEN To("settle") ELSE To("next"))
  /\ UNCHANGED <<lock, children, objects, flight>>
(* What each command does with a fresh observation.                         *)
Decide ==
  /\ At("observed")
  /\ LET agrees == Matches(cmd.mem, cmd.observation)
     IN \/ /\ cmd.op = "remove"
           /\ cmd' = IF Unreleased(cmd.mem) # {} /\ Removable(cmd.mem) /\ agrees
                     THEN [cmd EXCEPT !.pc = "next", !.approval = TRUE] ELSE To("end")
        \/ cmd.op = "reuse" /\ cmd' = To(IF agrees THEN "approve" ELSE "end")
        \/ cmd.op = "abandon" /\ cmd' = To(IF agrees THEN "abandon" ELSE "end")
        \/ /\ cmd.op = "inspect"
           /\ cmd' = To(IF agrees /\ HealthDue(cmd.mem) THEN "health" ELSE "end")
  /\ UNCHANGED <<disk, lock, children, objects, flight, upsets, refused>>

FenceHealth ==
  /\ At("health")
  /\ Persist(Fenced(cmd.mem), To("probe"))
  /\ UNCHANGED <<lock, children, objects, flight>>
(* The status checks pass only on an instance that exists.                  *)
Probe ==
  /\ At("probe")
  /\ \E next \in {"end"} \cup (IF InstanceOf(cmd.dep) # {} THEN {"healthy"} ELSE {}) :
       Persist(Confirmed(cmd.mem), To(next))
  /\ UNCHANGED <<lock, children, objects, flight>>
RecordHealth ==
  /\ At("healthy")
  /\ Persist([cmd.mem EXCEPT !.health = TRUE], To("end"))
  /\ UNCHANGED <<lock, children, objects, flight>>

-----------------------------------------------------------------------------
(* The hand-off of a reused volume, and the end of a command.               *)

RecordAbandonment ==
  /\ At("abandon")
  /\ LET record == [cmd.mem EXCEPT !.abandoned = TRUE]
     IN Write(cmd.dep, record, [cmd EXCEPT !.mem = record, !.pc = "settle"], To("end"))
  /\ UNCHANGED <<lock, children, objects, flight>>
(* settle: the reservation if it is missing, then the completion.           *)
Settle ==
  /\ At("settle")
  /\ LET previous == disk[cmd.mem.previous]
         failed == IF cmd.op = "create" THEN [cmd EXCEPT !.pc = "fail", !.outcome = "uncertain"]
                   ELSE To("end")
     IN \/ /\ previous.successor = None
           /\ Write(previous.id, Reserve(previous, cmd.dep), cmd, failed)
        \/ /\ NeedsCompletion(previous, cmd.mem)
           /\ Write(previous.id, Complete(previous), cmd, failed)
        \/ /\ previous.successor # None /\ ~NeedsCompletion(previous, cmd.mem)
           /\ cmd' = To(IF cmd.op = "create" THEN "next" ELSE "end")
           /\ UNCHANGED <<disk, upsets, refused>>
  /\ UNCHANGED <<lock, children, objects, flight>>

(* Mutant: a failure is recorded over an answer. *)
OwnsStep == Verifying /\ cmd.fence = Len(cmd.mem.steps)
(* Deployer.fail and recordDeclined: only the step this command fenced, and    *)
(* only while it is open, takes the failure; a launch without capacity is     *)
(* tried in the next zone.                                                   *)
OwnsOpenStep ==
  /\ Verifying /\ cmd.fence = Len(cmd.mem.steps)
  /\ StateOf(LastStep(cmd.mem)) = "open"
(* Mutant: a child that was killed is taken to be gone. *)
AssumedGone(r) == Confirmed(r)
Attested(r) == IF cmd.confirmed THEN Confirmed(r) ELSE Fenced(r)
Closed(r) ==
  IF OwnsOpenStep THEN WithLast(r, [LastStep(r) EXCEPT !.outcome = cmd.outcome]) ELSE r
TriesNextZone ==
  /\ OwnsOpenStep /\ cmd.outcome = "capacity"
  /\ Cardinality(Launches(cmd.mem)) < Slots(cmd.mem)
Close ==
  /\ At("fail")
  /\ LET record == Closed(Attested(cmd.mem))
     IN Write(cmd.dep, record,
              [cmd EXCEPT !.mem = record, !.pc = IF TriesNextZone THEN "next" ELSE "end"],
              [cmd EXCEPT !.mem = Held(record), !.pc = IF TriesNextZone THEN "fail" ELSE "end"])
  /\ UNCHANGED <<lock, children, objects, flight>>
(* withAwsOperation: the lock stays when the child may still be there.       *)
End ==
  /\ At("end")
  /\ lock' = IF cmd.confirmed THEN "free" ELSE "stale"
  /\ cmd' = None
  /\ UNCHANGED <<disk, children, objects, flight, upsets, refused>>

Crash ==
  /\ cmd # None
  /\ Upset
  /\ lock' = "stale"
  /\ cmd' = None
  /\ UNCHANGED <<disk, children, objects, flight, refused>>
(* The operator deletes the lock file a dead process left.                  *)
ClearLock ==
  /\ lock = "stale"
  /\ lock' = "free"
  /\ UNCHANGED <<disk, cmd, children, objects, flight, upsets, refused>>
(* Somebody deletes a resource outside the CLI.                             *)
Drift ==
  /\ Upset
  /\ \E o \in objects : objects' = objects \ EndsWith(o)
  /\ UNCHANGED <<disk, lock, cmd, children, flight, refused>>

Starts ==
  \/ \E previous \in Existing \cup {None} : CreateNew(previous)
  \/ \E d \in Existing : CreateReuse(d) \/ RemoveHost(d) \/ Abandon(d) \/ Inspect(d) \/ HandOff(d)
Coordinates ==
  \/ Approve \/ ReservePrevious \/ FenceKey \/ KeyGenerated
  \/ Fence \/ Spawn \/ Cancel \/ Finish
  \/ \E c \in children : Retain(c) \/ Reply(c)
  \/ CallBreaks \/ FenceObserve \/ Look \/ Reconcile \/ Decide
  \/ FenceHealth \/ Probe \/ RecordHealth
  \/ RecordAbandonment \/ Settle \/ Close \/ End
Calls ==
  \/ \E c \in children : Authorise(c) \/ Dispatch(c) \/ DoNotAttempt(c) \/ GiveUp(c) \/ Leave(c)
  \/ \E call \in flight : Land(call) \/ Refuse(call)
Next == Starts \/ Coordinates \/ Calls \/ Crash \/ ClearLock \/ Drift
Spec == Init /\ [][Next]_vars

-----------------------------------------------------------------------------
(* Properties.                                                              *)

(* The rules restated for reading a record never refuse a write that the      *)
(* coordinator makes from memory that agrees with the disk.                  *)
WritesAreAccepted == ~refused

(* A record that says that its child has terminated has none that could still  *)
(* call the provider.                                                        *)
ConfirmedHasNoChild == \A c \in children : disk[c.dep].termination = "unconfirmed"

(* A record from which no unresolved effect is concluded has left nothing at   *)
(* the provider, and nothing on its way there, but the volume it retains.      *)
NothingIsForgotten ==
  \A o \in objects \cup flight :
    LET r == disk[o.dep]
    IN o.action \in RESOURCES /\ Effects(r) # "outstanding" =>
         /\ Id(o) = VolumeId(r)
         /\ Effects(r) = "retained" \/ HandedOff(r)

(* A deployment never has two instances, nor one and a launch that may still    *)
(* succeed.                                                                  *)
LaunchIsUnique ==
  \A d \in Existing :
    Cardinality({o \in objects \cup flight : o.dep = d /\ o.action = "run-instances"}) <= 1

(* Some record always answers for a data volume, two only between the attach    *)
(* of a replacement and the completed hand-off, and a volume that is offered    *)
(* for reuse is attached to nothing and about to be attached to nothing.       *)
Holders(id) == {d \in Existing : VolumeId(disk[d]) = id /\ HoldsVolume(disk[d]) /\ ~HandedOff(disk[d])}
VolumeHasOneHolder ==
  \A d \in Existing :
    LET id == VolumeId(disk[d])
        holders == Holders(id)
    IN id # None =>
         /\ holders # {}
         /\ \A a, b \in holders : a < b => disk[b].previous = a /\ holders = {a, b}
         /\ Reusable(disk[d]) # None =>
              \A o \in objects \cup flight : o.action = "attach-volume" => o.on # id
=============================================================================
