-------------------------- MODULE DeploymentLedger --------------------------
(***************************************************************************)
(* The record the AWS deployment commands keep of one deployment: a fence,  *)
(* an answer and a verification for every provider call, what may be         *)
(* concluded from them and what may be written next                          *)
(* (packages/cli/src/aws/deployment).                                        *)
(*                                                                           *)
(* An action has one slot here (one zone, one ingress rule), except that a    *)
(* launch has one attempt per approved zone.  The root volume and the primary *)
(* interface of an instance are one implicit resource.  An observation is the *)
(* function from the recorded resources to what was seen of them.             *)
(* Timestamps, tags, quotas, the host key and the permission fields are left  *)
(* out.                                                                      *)
(***************************************************************************)
EXTENDS Naturals, FiniteSets, SequencesExt

CONSTANTS
  Included,     \* creation actions of the instance
  LaunchSlots,  \* zones approved for a launch that reuses no volume
  MaxRefusals,  \* refused removals a record allows (three in the code)
  None          \* null

(* A host with a data volume is the least a deployment creates.             *)
ASSUME IncludedAssumption == {"run-instances", "create-volume", "attach-volume"} \subseteq Included
ASSUME SlotAssumption == LaunchSlots \in Nat \ {0} /\ MaxRefusals \in Nat

CREATIONS ==
  <<"create-vpc", "create-subnet", "create-gateway", "attach-gateway", "create-route-table",
    "create-route", "associate-subnet", "create-group", "allow-ingress", "import-key-pair",
    "run-instances", "create-volume", "attach-volume", "allocate-address", "associate-address">>
RESOURCES ==
  {"create-vpc", "create-subnet", "create-gateway", "create-route-table", "create-group",
   "import-key-pair", "run-instances", "create-volume", "allocate-address"}
RETAINED == {"create-volume"}
REMOVALS ==
  << <<"disassociate-address", "associate-address">>, <<"release-address", "allocate-address">>,
     <<"terminate-instance", "run-instances">>, <<"delete-key-pair", "import-key-pair">>,
     <<"delete-group", "create-group">>, <<"disassociate-subnet", "associate-subnet">>,
     <<"delete-subnet", "create-subnet">>, <<"delete-route-table", "create-route-table">>,
     <<"detach-gateway", "attach-gateway">>, <<"delete-gateway", "create-gateway">>,
     <<"delete-vpc", "create-vpc">> >>

(* Null is no number, no action, no reservation and no observation.          *)
ASSUME NoneAssumption ==
  /\ None \notin Nat
  /\ \A p \in DOMAIN CREATIONS : CREATIONS[p] # None
  /\ \A p \in DOMAIN REMOVALS : REMOVALS[p][1] # None
  /\ None \notin [to : Nat, completed : BOOLEAN]
  /\ \A S \in SUBSET (RESOURCES \cup {"implicit"}) : None \notin [S -> {"present", "absent", "changed"}]

(* A plan is the set of the places of its actions in one of these orders.   *)
Creations == {p \in DOMAIN CREATIONS : CREATIONS[p] \in Included}
Removals == {p \in DOMAIN REMOVALS : REMOVALS[p][2] \in Included}
Rank(S, p) == Cardinality({q \in S : q <= p})
Removers(key) == {REMOVALS[p][1] : p \in {q \in Removals : REMOVALS[q][2] = key}}
Undoes(action) == {REMOVALS[p][2] : p \in {q \in Removals : REMOVALS[q][1] = action}}
(* The resources on which a call that makes none leaves something to see.   *)
CarriersOf(link) ==
  CASE link = "attach-gateway" -> {"create-gateway"}
    [] link \in {"create-route", "associate-subnet"} -> {"create-route-table"}
    [] link = "allow-ingress" -> {"create-group"}
    [] link = "attach-volume" -> {"run-instances", "create-volume"}
    [] link = "associate-address" -> {"allocate-address"}
    [] OTHER -> {}

-----------------------------------------------------------------------------
(* Steps.                                                                   *)

Step(action, removal) ==
  [action |-> action, removal |-> removal, returned |-> FALSE, verified |-> FALSE, outcome |-> "none"]
Deployment(id, previous, volume) ==
  [id |-> id, previous |-> previous, reuse |-> volume, key |-> FALSE, termination |-> "confirmed",
   steps |-> <<>>, removals |-> 0, implicit |-> FALSE, latest |-> None, health |-> FALSE,
   successor |-> None, abandoned |-> FALSE]

StateOf(step) ==
  IF step.outcome = "uncertain" THEN "uncertain"
  ELSE IF step.outcome # "none" THEN "refused"
  ELSE IF step.verified THEN "verified"
  ELSE IF step.returned THEN "returned"
  ELSE "open"
IsOpen(step) == StateOf(step) \in {"open", "uncertain"}
Declined(step) == step.action = "run-instances" /\ step.outcome = "capacity"
Settled(step) ==
  StateOf(step) \in {"refused", "verified"} \cup (IF step.removal = 0 THEN {"returned"} ELSE {})
Refusals(r) ==
  Cardinality({i \in DOMAIN r.steps : r.steps[i].removal # 0 /\ StateOf(r.steps[i]) = "refused"
                                       /\ r.steps[i].outcome # "unattempted"})

StepOf(r, action) == SelectLastInSeq(r.steps, LAMBDA step : step.action = action)
Returned(r, action) == StepOf(r, action) # 0 /\ r.steps[StepOf(r, action)].returned
Verified(r, action) == StepOf(r, action) # 0 /\ r.steps[StepOf(r, action)].verified
Stuck(r) == \E i \in DOMAIN r.steps : IsOpen(r.steps[i])
(* Mutant: a step that ended in a failure leaves no resource. *)
Unanswered(r) ==
  {i \in DOMAIN r.steps : r.steps[i].action \in RESOURCES /\ StateOf(r.steps[i]) = "open"}
Unnamed(r) == {i \in DOMAIN r.steps : r.steps[i].action \in RESOURCES /\ IsOpen(r.steps[i])}

-----------------------------------------------------------------------------
(* The plan, derived from the record alone.                                 *)

Slots(r) == IF r.reuse = None THEN LaunchSlots ELSE 1
Launches(r) == {i \in DOMAIN r.steps : r.steps[i].action = "run-instances"}
CreationPlan(r) == {p \in Creations : r.reuse = None \/ CREATIONS[p] # "create-volume"}
CreationsOf(r) ==
  {i \in DOMAIN r.steps :
     /\ r.steps[i].removal = 0
     /\ ~(/\ Declined(r.steps[i])
          /\ i + 1 \in DOMAIN r.steps
          /\ r.steps[i + 1].action = "run-instances")}
CreationVerified(r) ==
  /\ Cardinality(CreationsOf(r)) = Cardinality(CreationPlan(r))
  /\ \A i \in CreationsOf(r) : StateOf(r.steps[i]) = "verified"
HealthDue(r) == CreationVerified(r) /\ r.removals = 0 /\ ~r.health
(* The next creation: the launch again after a declined attempt.            *)
NextCreation(r) ==
  LET done == Cardinality(CreationsOf(r))
      again == r.steps # <<>> /\ Declined(Last(r.steps))
      rank == IF again THEN done ELSE done + 1
      due == {p \in CreationPlan(r) : Rank(CreationPlan(r), p) = rank}
  IN IF due = {} THEN None ELSE CREATIONS[CHOOSE p \in due : TRUE]
RemovalPlan(r) ==
  {p \in Removals : Returned(r, REMOVALS[p][2]) /\ ~Verified(r, REMOVALS[p][1])}
NextRemoval(r) == IF RemovalPlan(r) = {} THEN None ELSE REMOVALS[Min(RemovalPlan(r))][1]

-----------------------------------------------------------------------------
(* Resources.                                                               *)

VolumeId(r) ==
  IF r.reuse # None THEN r.reuse
  ELSE IF Returned(r, "create-volume") THEN <<r.id, StepOf(r, "create-volume")>> ELSE None
HandedOff(r) == r.successor # None /\ r.successor.completed
Resources(r) ==
  {a \in RESOURCES \cap Included : Returned(r, a)}
    \cup (IF r.reuse # None THEN RETAINED ELSE {})
    \cup (IF r.implicit THEN {"implicit"} ELSE {})
Parent(key) == IF key = "implicit" THEN "run-instances" ELSE key
(* The removal of a resource and the step whose verification has seen it.   *)
RemovedBy(r, key) == Removers(Parent(key))
SeenBy(r, key) == IF key \in RETAINED /\ r.reuse # None THEN "attach-volume" ELSE Parent(key)

Released(r, key) ==
  \/ \E action \in RemovedBy(r, key) : Verified(r, action)
  \/ /\ Verified(r, SeenBy(r, key))
     /\ r.latest # None
     /\ key \in DOMAIN r.latest
     /\ r.latest[key] = "absent"
Unreleased(r) == {key \in Resources(r) \ RETAINED : ~Released(r, key)}
Retained(r) == {key \in Resources(r) \cap RETAINED : ~HandedOff(r) /\ ~Released(r, key)}

(* What an observation must show: a resource is there until its removal has  *)
(* returned, and carries the calls that returned and were not undone.        *)
Active(r) == Resources(r) \ (IF HandedOff(r) THEN RETAINED ELSE {})
Present(r, key) == \A action \in RemovedBy(r, key) : ~Returned(r, action)
Links(r, key) ==
  {<<r.id, link>> : link \in
     {l \in Included :
        /\ key \in CarriersOf(l)
        /\ Returned(r, l)
        /\ \A action \in Removers(l) : ~Returned(r, action)
        /\ l = "attach-volume" => ~Returned(r, "terminate-instance")}}
Launching(r) == "run-instances" \in Active(r) /\ Present(r, "run-instances") /\ ~r.implicit
Expectation(r) ==
  [key \in Active(r) \cup (IF Launching(r) THEN {"implicit"} ELSE {}) |->
     IF Present(r, key) THEN "present" ELSE "absent"]
Matches(r, observation) == observation = Expectation(r)

-----------------------------------------------------------------------------
(* Volume hand-off.                                                         *)

HoldsVolume(r) == r.reuse = None \/ r.abandoned \/ Verified(r, "attach-volume")
NeedsCompletion(previous, r) ==
  /\ previous.successor # None
  /\ previous.successor.to = r.id
  /\ ~previous.successor.completed
  /\ HoldsVolume(r)
(* Mutant: the hand-off need not be completed. *)
IsReserved(previous, r) == previous.successor # None /\ previous.successor.to = r.id
(* requireIntact: the two records name each other and nothing is unfinished. *)
IsIntact(previous, r) ==
  /\ previous.successor # None
  /\ previous.successor.to = r.id
  /\ r.previous = previous.id
  /\ previous.successor.completed \/ ~HoldsVolume(r)
Reserve(previous, to) == [previous EXCEPT !.successor = [to |-> to, completed |-> FALSE]]
Complete(previous) == [previous EXCEPT !.successor.completed = TRUE]

-----------------------------------------------------------------------------
(* What a record lets its reader conclude.                                  *)

Phase(r) ==
  LET last == Last(r.steps)
  IN CASE r.abandoned -> IF HandedOff(r) THEN "handed-off" ELSE "abandoned"
       [] ~r.abandoned /\ r.steps = <<>> -> "approved"
       [] ~r.abandoned /\ r.steps # <<>> ->
            CASE last.outcome # "none" -> "failed"
              [] last.outcome = "none" /\ ~last.verified ->
                   IF last.returned THEN "returned" ELSE "unresolved"
              [] last.outcome = "none" /\ last.verified ->
                   CASE Resources(r) # {} /\ Unreleased(r) = {} ->
                          IF Retained(r) # {} THEN "retained"
                          ELSE IF HandedOff(r) THEN "handed-off"
                          ELSE IF r.removals > 0 THEN "removed" ELSE "absent"
                     [] OTHER -> IF last.removal # 0 THEN "removing" ELSE "creating"
Effects(r) ==
  IF r.termination = "unconfirmed" \/ Unnamed(r) # {} \/ Unreleased(r) # {} THEN "outstanding"
  ELSE IF Retained(r) # {} THEN "retained" ELSE "none"
Unprovisioned(r) ==
  /\ r.termination = "confirmed"
  /\ Resources(r) = {}
  /\ \A i \in DOMAIN r.steps : StateOf(r.steps[i]) = "refused"
Vacated(r) ==
  \/ Unprovisioned(r)
  \/ /\ HoldsVolume(r)
     /\ Phase(r) \in {"removed", "retained", "handed-off", "abandoned"}
     /\ Effects(r) # "outstanding"
CanSettle(r) == r.termination = "confirmed" /\ ~Stuck(r)
Abandonable(r) ==
  /\ r.reuse # None
  /\ ~r.abandoned
  /\ ~Returned(r, "attach-volume")
  /\ CanSettle(r)
  /\ Unnamed(r) = {}
  /\ Unreleased(r) = {}
Removable(r) ==
  /\ CanSettle(r)
  /\ \A i \in DOMAIN r.steps : Settled(r.steps[i])
  /\ RemovalPlan(r) # {}
  /\ Refusals(r) < MaxRefusals
Reusable(r) ==
  IF r.successor = None /\ HoldsVolume(r) /\ Phase(r) \in {"retained", "abandoned"}
  THEN VolumeId(r) ELSE None

-----------------------------------------------------------------------------
(* What a record may say (audit.ts).                                        *)

InPlan(r) ==
  /\ \A i \in DOMAIN r.steps :
       r.steps[i].removal - (IF i = 1 THEN 0 ELSE r.steps[i - 1].removal) \in {0, 1}
  /\ r.removals = (IF r.steps = <<>> THEN 0 ELSE Last(r.steps).removal)
  /\ \A i \in CreationsOf(r) :
       \E p \in CreationPlan(r) :
         r.steps[i].action = CREATIONS[p] /\ Rank(CreationPlan(r), p) = Rank(CreationsOf(r), i)
LaunchesOrdered(r) ==
  /\ Cardinality(Launches(r)) <= Slots(r)
  /\ \A i \in Launches(r) : (\E j \in Launches(r) : j > i) => Declined(r.steps[i])
Follows(previous, step) ==
  IF step.removal \in {0, previous.removal}
  THEN \/ StateOf(previous) = "verified"
       \/ Declined(previous) /\ step.action = previous.action
  ELSE Settled(previous)
WellFormed(step) ==
  /\ step.returned => step.outcome = "none"
  /\ step.verified => step.returned
  /\ step.outcome = "blocked" => step.removal # 0
SuccessorRecorded(r) ==
  r.successor # None =>
    /\ r.successor.to # r.id
    /\ HoldsVolume(r)
    /\ VolumeId(r) # None
    /\ Unnamed(r) = {}
    /\ Unreleased(r) = {}
AbandonmentRecorded(r) ==
  r.abandoned =>
    /\ r.reuse # None
    /\ ~Returned(r, "attach-volume")
    /\ r.latest # None
    /\ \A i \in DOMAIN r.steps : Settled(r.steps[i])
    /\ Unnamed(r) = {}
    /\ Unreleased(r) = {}
Keyed(r) == r.key \/ r.steps = <<>>
Undone(r) == \A i \in DOMAIN r.steps : \A made \in Undoes(r.steps[i].action) : Returned(r, made)
Discovered(r) == Verified(r, "run-instances") = r.implicit
HealthRecorded(r) == r.health => CreationVerified(r)
ObservedKnown(r) == r.latest # None => DOMAIN r.latest \subseteq Resources(r) \cup {"implicit"}
IsConsistent(r) ==
  /\ InPlan(r)
  /\ LaunchesOrdered(r)
  /\ \A i \in DOMAIN r.steps : WellFormed(r.steps[i]) /\ (i > 1 => Follows(r.steps[i - 1], r.steps[i]))
  /\ Keyed(r)
  /\ Undone(r)
  /\ Discovered(r)
  /\ HealthRecorded(r)
  /\ SuccessorRecorded(r)
  /\ AbandonmentRecorded(r)
  /\ ObservedKnown(r)

-----------------------------------------------------------------------------
(* What may be written next (transitions.ts).                               *)

RequireProgress(before, after) ==
  /\ before.action = after.action /\ before.removal = after.removal
  /\ before.returned => after.returned
  /\ before.verified => after.verified
  /\ before.outcome \in {"none", after.outcome}
RequireNewStep(current, updated) ==
  LET step == Last(updated.steps)
      previous == Last(current.steps)
  IN /\ current.termination = "confirmed" /\ updated.termination = "unconfirmed"
     /\ StateOf(step) = "open"
     /\ ~current.abandoned
     /\ IF step.removal = 0
        THEN /\ updated.key
             /\ current.removals = 0 /\ updated.removals = 0
             /\ step.action = NextCreation(current)
             /\ current.steps # <<>> =>
                  StateOf(previous) = "verified" \/ Declined(previous)
        ELSE /\ current.steps # <<>>
             /\ step.removal = updated.removals
             /\ RemovalPlan(current) # {} /\ step.action = NextRemoval(current)
             /\ IF updated.removals > current.removals
                THEN /\ Settled(previous)
                     /\ Refusals(current) < MaxRefusals
                     /\ Matches(current, updated.latest)
                ELSE previous.removal = step.removal /\ StateOf(previous) = "verified"
RequireSteps(current, updated) ==
  LET before == current.steps
      after == updated.steps
  IN \/ /\ Len(after) = Len(before)
        /\ \A i \in DOMAIN before :
             IF i < Len(before) THEN before[i] = after[i] ELSE RequireProgress(before[i], after[i])
     \/ /\ Len(after) = Len(before) + 1
        /\ Front(after) = before
        /\ RequireNewStep(current, updated)
(* A field that is written alone, while the child is confirmed gone.        *)
Alone(current, updated, field) ==
  /\ current.termination = "confirmed"
  /\ updated = [current EXCEPT ![field] = updated[field]]
RequireFixedFields(current, updated) ==
  \A field \in {"id", "previous", "reuse"} : current[field] = updated[field]
RequireAdminKey(current, updated) ==
  updated.key = current.key \/ (updated.key /\ current.steps = <<>> /\ updated.steps = <<>>)
RequireRemovals(current, updated) ==
  \/ updated.removals = current.removals
  \/ updated.removals = current.removals + 1 /\ Len(updated.steps) = Len(current.steps) + 1
RequireObservations(current, updated) == current.latest # None => updated.latest # None
RequireImplicit(current, updated) == current.implicit => updated.implicit
RequireHealth(current, updated) ==
  \/ updated.health = current.health
  \/ updated.health /\ HealthDue(current) /\ Alone(current, updated, "health")
RequireSuccessor(current, updated) ==
  \/ updated.successor = current.successor
  \/ /\ Alone(current, updated, "successor")
     /\ \/ current.successor = None /\ updated.successor # None /\ ~updated.successor.completed
        \/ current.successor # None /\ updated = Complete(current) /\ ~current.successor.completed
RequireAbandonment(current, updated) ==
  \/ updated.abandoned = current.abandoned
  \/ /\ updated.abandoned /\ Abandonable(current) /\ Alone(current, updated, "abandoned")
     /\ Matches(current, current.latest)
RequireTransition(current, updated) ==
  /\ RequireFixedFields(current, updated)
  /\ RequireAdminKey(current, updated)
  /\ RequireSteps(current, updated)
  /\ RequireRemovals(current, updated)
  /\ RequireObservations(current, updated)
  /\ RequireImplicit(current, updated)
  /\ RequireHealth(current, updated)
  /\ RequireSuccessor(current, updated)
  /\ RequireAbandonment(current, updated)
=============================================================================
