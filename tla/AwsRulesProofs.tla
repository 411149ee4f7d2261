--------------------------- MODULE AwsRulesProofs ----------------------------
(***************************************************************************)
(* The rules by which a record is read, and those for what may follow on it,  *)
(* accept every write of AwsDeployment that is made from memory that agrees   *)
(* with the disk, for any number of deployments and of upsets.               *)
(*                                                                           *)
(* That a write is accepted depends on what its command found out in earlier  *)
(* steps.  RulesInv says what a command has in hand at each place it stands,   *)
(* and what the records and the children have that it may rely on.           *)
(***************************************************************************)
EXTENDS AwsDeploymentProofs

USE DEF Refusal

-----------------------------------------------------------------------------
(* The rules refuse no write they should allow.  Every step but the last is   *)
(* verified or refused, nothing is missing from a record whose volume was      *)
(* taken over, and a command has what its next write will be asked for.      *)

Over(step) == StateOf(step) \in {"verified", "refused"}
(* Both the instance and its implicit resources are seen, or neither.        *)
Coherent(observation) ==
  "implicit" \in DOMAIN observation =>
    /\ "run-instances" \in DOMAIN observation
    /\ observation["implicit"] = "absent" => observation["run-instances"] = "absent"
Typed(r) ==
  /\ r.removals \in Nat
  /\ r.implicit \in BOOLEAN
  /\ \A i \in DOMAIN r.steps :
       /\ r.steps[i].returned \in BOOLEAN /\ r.steps[i].verified \in BOOLEAN
       /\ r.steps[i].removal \in 0..r.removals
       /\ i = Len(r.steps) \/ Over(r.steps[i])
  /\ r.latest # None => Coherent(r.latest)
(* Every effect of the record has an answer, and every resource but the volume  *)
(* was removed.                                                              *)
Quiet(r) == Unnamed(r) = {} /\ Unreleased(r) = {}

(* What is observed of a record before it is written to it.                 *)
Fresh(observation, r) ==
  /\ observation # None
  /\ Active(r) \subseteq DOMAIN observation
  /\ DOMAIN observation \subseteq Active(r) \cup {"implicit"}
  /\ Coherent(observation)
  /\ r.latest # None =>
       \A key \in DOMAIN r.latest \cap (Resources(r) \ RETAINED) :
         r.latest[key] = "absent" => observation[key] = "absent"

Acts(k) == k.op = "create" \/ k.pc = "next" \/ k.fence # 0
Ended(k) == k.pc \in {"fail", "end"}
(* What a command has before it writes that it created or removes something. *)
ToCreate(k) ==
  /\ k.mem.removals = 0
  /\ ~Ended(k) \/ (k.pc = "fail" /\ k.outcome # "uncertain") => ~k.mem.health
  /\ IF k.pc \in {"reserve", "key", "keyed"} THEN k.mem.steps = <<>> ELSE Ended(k) \/ k.mem.key
  /\ k.pc = "next" =>
       \/ k.mem.steps = <<>>
       \/ StateOf(LastStep(k.mem)) = "verified"
       \/ Declined(LastStep(k.mem)) /\ Cardinality(Launches(k.mem)) < Slots(k.mem)
  /\ k.pc = "settle" => k.mem.steps # <<>> /\ StateOf(LastStep(k.mem)) = "verified"
ToRemove(k) ==
  /\ k.pc \notin {"key", "keyed", "reserve"}
  /\ k.pc = "next" =>
       /\ k.mem.steps # <<>>
       /\ IF k.approval
          THEN Removable(k.mem) /\ Matches(k.mem, k.mem.latest) /\ Over(LastStep(k.mem))
          ELSE k.fence # 0 /\ StateOf(LastStep(k.mem)) = "verified"
  /\ k.fence # 0 /\ k.pc # "end" => LastStep(k.mem).removal # 0
ToAbandon(k) ==
  /\ k.op = "abandon" /\ k.pc \notin {"settle", "fail", "end"} =>
       /\ ~k.mem.abandoned
       /\ ~Returned(k.mem, "attach-volume")
       /\ ~Stuck(k.mem)
       /\ Quiet(k.mem)
  /\ k.pc = "abandon" =>
       /\ k.op = "abandon"
       /\ k.mem.latest # None /\ Matches(k.mem, k.mem.latest)
       /\ k.mem.steps # <<>> => StateOf(LastStep(k.mem)) # "returned"
ToObserve(k) ==
  /\ k.fence # 0 /\ k.pc \in {"observe", "look", "reconcile"} => LastStep(k.mem).returned
  /\ k.pc = "reconcile" => Fresh(k.observation, k.mem)
  /\ k.pc = "observed" =>
       /\ k.fence = 0
       /\ k.mem.latest = k.observation /\ k.observation # None
       /\ Matches(k.mem, k.observation) /\ k.mem.steps # <<>> => StateOf(LastStep(k.mem)) # "returned"
  /\ k.pc \in {"health", "probe", "healthy"} => HealthDue(k.mem)
ToFail(k) ==
  k.pc = "fail" =>
    /\ ~k.confirmed => k.outcome = "uncertain"
    /\ k.outcome = "blocked" => k.mem.steps # <<>> /\ LastStep(k.mem).removal # 0
    /\ k.outcome = "capacity" => k.mem.steps # <<>> /\ k.op = "create" /\ LastStep(k.mem).action = "run-instances"
Prepared(k) ==
  /\ Typed(k.mem) /\ Directed(k.mem)
  /\ k.op \notin {"create", "remove"} => k.fence = 0 /\ k.pc \notin {"next", "fenced", "call"}
  /\ (k.op # "create" /\ k.approval /\ k.fence # 0) \/ ~k.confirmed => Ended(k)
  /\ k.pc \notin {"keyed", "fenced", "call", "look", "probe", "fail", "end"} => k.mem.termination = "confirmed"
  /\ Acts(k) => ~k.mem.abandoned
  /\ k.fence # 0 /\ k.pc # "end" => k.mem.steps # <<>> /\ k.fence = Len(k.mem.steps)
  /\ IF k.op = "create" THEN ToCreate(k) ELSE ToRemove(k)
  /\ ToAbandon(k) /\ ToObserve(k) /\ ToFail(k)

ReportsFit ==
  \A c \in children :
    /\ c.phase = "failed" /\ c.outcome = "blocked" => Undoes(disk[c.dep].steps[c.step].action) # {}
    /\ c.phase = "failed" /\ c.outcome = "capacity" => disk[c.dep].steps[c.step].action = "run-instances"
    /\ c.phase = "done" /\ Attended(c) => LastStep(cmd.mem).returned
RulesInv ==
  /\ refused = FALSE
  /\ \A d \in Existing : Typed(disk[d])
  /\ \A e \in Existing : Reuses(e) => Quiet(disk[e - 1])
  /\ ReportsFit
  /\ cmd # None =>
       /\ Prepared(cmd)
       /\ Reuses(cmd.dep + 1) => Quiet(cmd.mem)
       /\ \A d \in Existing \ {cmd.dep} : disk[d].termination = "confirmed"
       /\ cmd.pc = "reserve" => disk[cmd.mem.previous].successor = None

-----------------------------------------------------------------------------
(* Writes that keep the steps.                                              *)

Sound(r, d) == Shaped(r, d) /\ DOMAIN r = Fields /\ Typed(r) /\ IsConsistent(r) /\ Directed(r)
(* Only the fields of S are written.                                        *)
Keeps(r, q, S) == \A field \in Fields \ S : q[field] = r[field]
Allowed(r, q) == IsConsistent(q) /\ RequireTransition(r, q)

LEMMA SameSteps ==
  ASSUME NEW r, NEW q, q.steps = r.steps
  PROVE  /\ \A action : /\ StepOf(q, action) = StepOf(r, action)
                        /\ Returned(q, action) <=> Returned(r, action)
                        /\ Verified(q, action) <=> Verified(r, action)
         /\ Launches(q) = Launches(r) /\ CreationsOf(q) = CreationsOf(r) /\ Unnamed(q) = Unnamed(r)
         /\ Refusals(q) = Refusals(r)
         /\ Stuck(q) <=> Stuck(r)
<1>1. \A action : StepOf(q, action) = StepOf(r, action)
  BY DEF StepOf
<1>2. \A action : (Returned(q, action) <=> Returned(r, action)) /\ (Verified(q, action) <=> Verified(r, action))
  BY <1>1 DEF Returned, Verified
<1>3. Launches(q) = Launches(r) /\ CreationsOf(q) = CreationsOf(r) /\ Unnamed(q) = Unnamed(r)
  BY DEF Launches, CreationsOf, Unnamed
<1>4. Refusals(q) = Refusals(r) /\ (Stuck(q) <=> Stuck(r))
  BY DEF Refusals, Stuck
<1> QED  BY <1>1, <1>2, <1>3, <1>4

LEMMA SameResources ==
  ASSUME NEW r, NEW q, \A field \in {"id", "reuse", "steps", "implicit", "latest"} : q[field] = r[field]
  PROVE  /\ Resources(q) = Resources(r) /\ Unreleased(q) = Unreleased(r)
         /\ \A key : Released(q, key) <=> Released(r, key)
         /\ VolumeId(q) = VolumeId(r)
         /\ CreationPlan(q) = CreationPlan(r) /\ Slots(q) = Slots(r) /\ RemovalPlan(q) = RemovalPlan(r)
         /\ CreationVerified(q) <=> CreationVerified(r)
         /\ Quiet(q) <=> Quiet(r)
<1>1. q.id = r.id /\ q.reuse = r.reuse /\ q.steps = r.steps /\ q.implicit = r.implicit /\ q.latest = r.latest
  OBVIOUS
<1>2. \A action : /\ StepOf(q, action) = StepOf(r, action)
                  /\ Returned(q, action) <=> Returned(r, action)
                  /\ Verified(q, action) <=> Verified(r, action)
  BY <1>1, SameSteps
<1>3. CreationsOf(q) = CreationsOf(r) /\ Unnamed(q) = Unnamed(r)
  BY <1>1, SameSteps
<1>4. Resources(q) = Resources(r)
  BY <1>1, <1>2 DEF Resources
<1>5. ASSUME NEW key
      PROVE  Released(q, key) <=> Released(r, key)
  <2>1. RemovedBy(q, key) = RemovedBy(r, key) /\ SeenBy(q, key) = SeenBy(r, key)
    BY <1>1 DEF RemovedBy, SeenBy
  <2> QED  BY <1>1, <1>2, <2>1 DEF Released
<1>6. Unreleased(q) = Unreleased(r)
  BY <1>4, <1>5 DEF Unreleased
<1>7. VolumeId(q) = VolumeId(r)
  BY <1>1, <1>2 DEF VolumeId
<1>8. CreationPlan(q) = CreationPlan(r) /\ Slots(q) = Slots(r) /\ RemovalPlan(q) = RemovalPlan(r)
  BY <1>1, <1>2 DEF CreationPlan, Slots, RemovalPlan
<1>9. CreationVerified(q) <=> CreationVerified(r)
  BY <1>1, <1>3, <1>8 DEF CreationVerified
<1> QED  BY <1>3, <1>4, <1>5, <1>6, <1>7, <1>8, <1>9 DEF Quiet

(* What of a record's consistency such a write does not touch.              *)
LEMMA KeptIsAllowed ==
  ASSUME NEW d, NEW r, NEW q, Sound(r, d), DOMAIN q = Fields,
         \A field \in {"id", "previous", "reuse", "steps", "removals", "implicit", "latest"} : q[field] = r[field],
         Keyed(q), HealthRecorded(q), SuccessorRecorded(q), AbandonmentRecorded(q),
         RequireAdminKey(r, q), RequireHealth(r, q), RequireSuccessor(r, q), RequireAbandonment(r, q)
  PROVE  Sound(q, d) /\ Allowed(r, q)
<1>1. /\ q.id = r.id /\ q.previous = r.previous /\ q.reuse = r.reuse /\ q.steps = r.steps /\ q.removals = r.removals
      /\ q.implicit = r.implicit /\ q.latest = r.latest
  OBVIOUS
<1>2. /\ CreationsOf(q) = CreationsOf(r) /\ CreationPlan(q) = CreationPlan(r) /\ Launches(q) = Launches(r)
      /\ Slots(q) = Slots(r) /\ Resources(q) = Resources(r)
      /\ \A action : (Returned(q, action) <=> Returned(r, action)) /\ (Verified(q, action) <=> Verified(r, action))
  BY <1>1, SameSteps, SameResources
<1>3. IsConsistent(r)
  BY DEF Sound
<1>4. InPlan(q)
  BY <1>1, <1>2, <1>3 DEF IsConsistent, InPlan
<1>5. LaunchesOrdered(q)
  BY <1>1, <1>2, <1>3 DEF IsConsistent, LaunchesOrdered
<1>6. \A i \in DOMAIN q.steps : WellFormed(q.steps[i]) /\ (i > 1 => Follows(q.steps[i - 1], q.steps[i]))
  BY <1>1, <1>3 DEF IsConsistent
<1>7. Undone(q) /\ ObservedKnown(q)
  BY <1>1, <1>2, <1>3 DEF IsConsistent, Undone, ObservedKnown
<1>8. Discovered(q)
  <2>1. Verified(r, "run-instances") = r.implicit /\ r.implicit \in BOOLEAN
    BY <1>3 DEF IsConsistent, Discovered, Sound, Typed
  <2>2. Verified(r, "run-instances") \in BOOLEAN /\ Verified(q, "run-instances") \in BOOLEAN
    BY DEF Verified
  <2> QED  BY <1>1, <1>2, <2>1, <2>2 DEF Discovered
<1>9. IsConsistent(q)
  BY <1>4, <1>5, <1>6, <1>7, <1>8 DEF IsConsistent
<1>10. RequireSteps(r, q)
  <2>1. \A step : RequireProgress(step, step)
    BY DEF RequireProgress
  <2> QED  BY <1>1, <2>1 DEF RequireSteps
<1>11. RequireTransition(r, q)
  BY <1>1, <1>10 DEF RequireTransition, RequireFixedFields, RequireRemovals, RequireObservations, RequireImplicit
<1>12. Shaped(q, d) /\ Typed(q) /\ Directed(q)
  BY <1>1 DEF Sound, Shaped, Typed, Directed, Fields
<1> QED  BY <1>9, <1>11, <1>12 DEF Sound, Allowed

LEMMA ClaimsKept ==
  ASSUME NEW d, NEW r, NEW q, Sound(r, d),
         \A field \in {"id", "reuse", "steps", "implicit", "latest"} : q[field] = r[field]
  PROVE  /\ q.key = r.key \/ q.key => Keyed(q)
         /\ q.health = r.health => HealthRecorded(q)
         /\ q.successor = r.successor /\ (r.abandoned => q.abandoned) => SuccessorRecorded(q)
         /\ q.abandoned = r.abandoned => AbandonmentRecorded(q)
         /\ HoldsVolume(r) /\ (r.abandoned => q.abandoned) => HoldsVolume(q)
         /\ HealthDue(r) /\ q.removals = r.removals /\ ~q.health => HealthDue(q)
<1>1. q.id = r.id /\ q.reuse = r.reuse /\ q.steps = r.steps /\ q.implicit = r.implicit /\ q.latest = r.latest
  OBVIOUS
<1>2. /\ \A action : (Returned(q, action) <=> Returned(r, action)) /\ (Verified(q, action) <=> Verified(r, action))
      /\ Unnamed(q) = Unnamed(r) /\ Unreleased(q) = Unreleased(r) /\ VolumeId(q) = VolumeId(r)
      /\ CreationVerified(q) <=> CreationVerified(r)
  BY <1>1, SameSteps, SameResources
<1>3. Keyed(r) /\ HealthRecorded(r) /\ SuccessorRecorded(r) /\ AbandonmentRecorded(r)
  BY DEF Sound, IsConsistent
<1>4. q.key = r.key \/ q.key => Keyed(q)
  BY <1>1, <1>3 DEF Keyed
<1>5. q.health = r.health => HealthRecorded(q)
  BY <1>2, <1>3 DEF HealthRecorded
<1>6. HoldsVolume(r) /\ (r.abandoned => q.abandoned) => HoldsVolume(q)
  BY <1>1, <1>2 DEF HoldsVolume
<1>7. q.successor = r.successor /\ (r.abandoned => q.abandoned) => SuccessorRecorded(q)
  BY <1>1, <1>2, <1>3, <1>6 DEF SuccessorRecorded
<1>8. q.abandoned = r.abandoned => AbandonmentRecorded(q)
  BY <1>1, <1>2, <1>3 DEF AbandonmentRecorded
<1>9. HealthDue(r) /\ q.removals = r.removals /\ ~q.health => HealthDue(q)
  BY <1>2 DEF HealthDue
<1> QED  BY <1>4, <1>5, <1>6, <1>7, <1>8, <1>9

(* Whether the child is gone is written at any time.                        *)
LEMMA TerminationAllowed ==
  ASSUME NEW d, NEW r, NEW q, Sound(r, d), q \in {Fenced(r), Confirmed(r)}
  PROVE  /\ Sound(q, d) /\ Allowed(r, q)
         /\ Keeps(r, q, {"termination"})
         /\ q = Confirmed(r) => q.termination = "confirmed"
<1>1. DOMAIN r = Fields
  BY DEF Sound
<1>2. /\ DOMAIN q = Fields
      /\ Keeps(r, q, {"termination"})
      /\ q = Confirmed(r) => q.termination = "confirmed"
  BY <1>1 DEF Fenced, Confirmed, Fields, Keeps
<1>3. /\ \A field \in {"id", "previous", "reuse", "steps", "removals", "implicit", "latest"} : q[field] = r[field]
      /\ q.key = r.key /\ q.health = r.health /\ q.successor = r.successor /\ q.abandoned = r.abandoned
  BY <1>2 DEF Fields, Keeps
<1>4. Keyed(q) /\ HealthRecorded(q) /\ SuccessorRecorded(q) /\ AbandonmentRecorded(q)
  <2>1. \A field \in {"id", "reuse", "steps", "implicit", "latest"} : q[field] = r[field]
    BY <1>3
  <2> QED  BY <1>3, <2>1, ClaimsKept
<1>5. RequireAdminKey(r, q) /\ RequireHealth(r, q) /\ RequireSuccessor(r, q) /\ RequireAbandonment(r, q)
  BY <1>3 DEF RequireAdminKey, RequireHealth, RequireSuccessor, RequireAbandonment
<1> QED  BY <1>2, <1>3, <1>4, <1>5, KeptIsAllowed

LEMMA KeyAllowed ==
  ASSUME NEW d, NEW r, NEW q, Sound(r, d), r.steps = <<>>, q = [Confirmed(r) EXCEPT !.key = TRUE]
  PROVE  /\ Sound(q, d) /\ Allowed(r, q)
         /\ Keeps(r, q, {"termination", "key"})
         /\ q.termination = "confirmed" /\ q.key
<1>1. DOMAIN r = Fields
  BY DEF Sound
<1>2. /\ DOMAIN q = Fields
      /\ Keeps(r, q, {"termination", "key"})
      /\ q.termination = "confirmed" /\ q.key
  <2>1. DOMAIN Confirmed(r) = Fields /\ Confirmed(r).termination = "confirmed"
        /\ \A field \in Fields \ {"termination"} : Confirmed(r)[field] = r[field]
    BY <1>1 DEF Confirmed, Fields, Keeps
  <2> QED  BY <2>1 DEF Fields, Keeps
<1>3. /\ \A field \in {"id", "previous", "reuse", "steps", "removals", "implicit", "latest"} : q[field] = r[field]
      /\ q.key /\ q.health = r.health /\ q.successor = r.successor /\ q.abandoned = r.abandoned
  BY <1>2 DEF Fields, Keeps
<1>4. Keyed(q) /\ HealthRecorded(q) /\ SuccessorRecorded(q) /\ AbandonmentRecorded(q)
  <2>1. \A field \in {"id", "reuse", "steps", "implicit", "latest"} : q[field] = r[field]
    BY <1>3
  <2> QED  BY <1>3, <2>1, ClaimsKept
<1>5. RequireAdminKey(r, q) /\ RequireHealth(r, q) /\ RequireSuccessor(r, q) /\ RequireAbandonment(r, q)
  BY <1>3 DEF RequireAdminKey, RequireHealth, RequireSuccessor, RequireAbandonment
<1> QED  BY <1>2, <1>3, <1>4, <1>5, KeptIsAllowed

LEMMA HealthAllowed ==
  ASSUME NEW d, NEW r, NEW q, Sound(r, d), HealthDue(r), r.termination = "confirmed", q = [r EXCEPT !.health = TRUE]
  PROVE  /\ Sound(q, d) /\ Allowed(r, q)
         /\ Keeps(r, q, {"health"})
<1>1. DOMAIN r = Fields
  BY DEF Sound
<1>2. /\ DOMAIN q = Fields
      /\ Keeps(r, q, {"health"})
      /\ q.health = TRUE
  BY <1>1 DEF Fields, Keeps
<1>3. /\ \A field \in {"id", "previous", "reuse", "steps", "removals", "implicit", "latest"} : q[field] = r[field]
      /\ q.key = r.key /\ q.successor = r.successor /\ q.abandoned = r.abandoned
  BY <1>2 DEF Fields, Keeps
<1>4. \A field \in {"id", "reuse", "steps", "implicit", "latest"} : q[field] = r[field]
  BY <1>3
<1>5. Keyed(q) /\ SuccessorRecorded(q) /\ AbandonmentRecorded(q)
  BY <1>3, <1>4, ClaimsKept
<1>6. HealthRecorded(q)
  BY <1>4, SameResources DEF HealthRecorded, HealthDue
<1>7. RequireHealth(r, q)
  <2>1. q = [r EXCEPT !["health"] = q["health"]]
    BY <1>2
  <2> QED  BY <1>2, <2>1 DEF RequireHealth, Alone
<1>8. RequireAdminKey(r, q) /\ RequireSuccessor(r, q) /\ RequireAbandonment(r, q)
  BY <1>3 DEF RequireAdminKey, RequireSuccessor, RequireAbandonment
<1> QED  BY <1>2, <1>3, <1>5, <1>6, <1>7, <1>8, KeptIsAllowed

LEMMA AbandonmentAllowed ==
  ASSUME NEW d, NEW r, NEW q, Sound(r, d), Abandonable(r), r.termination = "confirmed",
         r.latest # None, Matches(r, r.latest), \A i \in DOMAIN r.steps : Settled(r.steps[i]),
         q = [r EXCEPT !.abandoned = TRUE]
  PROVE  /\ Sound(q, d) /\ Allowed(r, q)
         /\ Keeps(r, q, {"abandoned"})
<1>1. DOMAIN r = Fields
  BY DEF Sound
<1>2. /\ DOMAIN q = Fields
      /\ Keeps(r, q, {"abandoned"})
      /\ q.abandoned = TRUE
  BY <1>1 DEF Fields, Keeps
<1>3. /\ \A field \in {"id", "previous", "reuse", "steps", "removals", "implicit", "latest"} : q[field] = r[field]
      /\ q.key = r.key /\ q.successor = r.successor /\ q.health = r.health /\ q.latest = r.latest
      /\ q.steps = r.steps /\ q.reuse = r.reuse
  BY <1>2 DEF Fields, Keeps
<1>4. \A field \in {"id", "reuse", "steps", "implicit", "latest"} : q[field] = r[field]
  BY <1>3
<1>5. Keyed(q) /\ SuccessorRecorded(q) /\ HealthRecorded(q)
  BY <1>2, <1>3, <1>4, ClaimsKept
<1>6. AbandonmentRecorded(q)
  <2>1. Unnamed(q) = {} /\ Unreleased(q) = {} /\ ~Returned(q, "attach-volume")
    BY <1>3, <1>4, SameResources, SameSteps DEF Abandonable
  <2> QED  BY <1>3, <2>1 DEF AbandonmentRecorded, Abandonable
<1>7. RequireAbandonment(r, q)
  <2>1. q = [r EXCEPT !["abandoned"] = q["abandoned"]]
    BY <1>2
  <2> QED  BY <1>2, <2>1 DEF RequireAbandonment, Alone
<1>8. RequireAdminKey(r, q) /\ RequireSuccessor(r, q) /\ RequireHealth(r, q)
  BY <1>3 DEF RequireAdminKey, RequireSuccessor, RequireHealth
<1> QED  BY <1>2, <1>3, <1>5, <1>6, <1>7, <1>8, KeptIsAllowed

(* A reservation of a quiet record that holds its volume, and its completion. *)
LEMMA SuccessionAllowed ==
  ASSUME NEW d, NEW r, NEW q, Sound(r, d), r.termination = "confirmed",
         \/ /\ r.successor = None /\ Quiet(r) /\ HoldsVolume(r) /\ VolumeId(r) # None
            /\ \E to \in Nat : to # d /\ q = Reserve(r, to)
         \/ /\ r.successor # None /\ ~r.successor.completed /\ q = Complete(r)
            /\ \E to : r.successor \in [to : {to}, completed : BOOLEAN]
  PROVE  /\ Sound(q, d) /\ Allowed(r, q)
         /\ Keeps(r, q, {"successor"})
<1>1. DOMAIN r = Fields
  BY DEF Sound
<1>2. PICK s : q = [r EXCEPT !.successor = s]
  BY DEF Reserve, Complete
<1>3. /\ DOMAIN q = Fields
      /\ Keeps(r, q, {"successor"})
      /\ q.successor = s
  BY <1>1, <1>2 DEF Fields, Keeps
<1>4. /\ \A field \in {"id", "previous", "reuse", "steps", "removals", "implicit", "latest"} : q[field] = r[field]
      /\ q.key = r.key /\ q.abandoned = r.abandoned /\ q.health = r.health /\ q.id = r.id
  BY <1>3 DEF Fields, Keeps
<1>5. \A field \in {"id", "reuse", "steps", "implicit", "latest"} : q[field] = r[field]
  BY <1>4
<1>6. Keyed(q) /\ AbandonmentRecorded(q) /\ HealthRecorded(q)
  BY <1>4, <1>5, ClaimsKept
<1>7. q = [r EXCEPT !["successor"] = q["successor"]]
  BY <1>2, <1>3
<1>8. HoldsVolume(r) => HoldsVolume(q)
  BY <1>4, <1>5, ClaimsKept
<1>9. CASE /\ r.successor = None /\ Quiet(r) /\ HoldsVolume(r) /\ VolumeId(r) # None
           /\ \E to \in Nat : to # d /\ q = Reserve(r, to)
  <2>1. PICK to \in Nat : to # d /\ q = Reserve(r, to)
    BY <1>9
  <2>2. q.successor = [to |-> to, completed |-> FALSE]
    BY <1>1, <2>1 DEF Reserve, Fields, Keeps
  <2>3. q.successor # None /\ q.successor.to = to /\ ~q.successor.completed
    <3>1. q.successor \in [to : {to}, completed : BOOLEAN] /\ q.successor.to = to /\ ~q.successor.completed
      BY <2>2
    <3> QED  BY <2>1, <3>1, ReservationIsSomething
  <2>4. Unnamed(q) = {} /\ Unreleased(q) = {} /\ VolumeId(q) # None
    BY <1>4, <1>5, <1>9, SameResources DEF Quiet
  <2>5. r.id = d
    BY DEF Sound, Shaped
  <2>6. SuccessorRecorded(q)
    BY <1>4, <1>8, <1>9, <2>1, <2>3, <2>4, <2>5 DEF SuccessorRecorded
  <2>7. RequireSuccessor(r, q)
    BY <1>7, <1>9, <2>3 DEF RequireSuccessor, Alone
  <2>8. RequireAdminKey(r, q) /\ RequireHealth(r, q) /\ RequireAbandonment(r, q)
    BY <1>4 DEF RequireAdminKey, RequireHealth, RequireAbandonment
  <2> QED  BY <1>3, <1>4, <1>6, <2>6, <2>7, <2>8, KeptIsAllowed
<1>10. CASE /\ r.successor # None /\ ~r.successor.completed /\ q = Complete(r)
            /\ \E to : r.successor \in [to : {to}, completed : BOOLEAN]
  <2>1. q.successor = [r.successor EXCEPT !.completed = TRUE]
    BY <1>1, <1>10 DEF Complete, Fields, Keeps
  <2>2. q.successor.to = r.successor.to
    BY <1>10, <2>1
  <2>3. SuccessorRecorded(r)
    BY DEF Sound, IsConsistent
  <2>4. Unnamed(q) = Unnamed(r) /\ Unreleased(q) = Unreleased(r) /\ VolumeId(q) = VolumeId(r)
    BY <1>4, <1>5, SameResources, SameSteps
  <2>5. SuccessorRecorded(q)
    BY <1>4, <1>8, <1>10, <2>2, <2>3, <2>4 DEF SuccessorRecorded
  <2>6. RequireSuccessor(r, q)
    BY <1>7, <1>10 DEF RequireSuccessor, Alone
  <2>7. RequireAdminKey(r, q) /\ RequireHealth(r, q) /\ RequireAbandonment(r, q)
    BY <1>4 DEF RequireAdminKey, RequireHealth, RequireAbandonment
  <2> QED  BY <1>3, <1>4, <1>6, <2>5, <2>6, <2>7, KeptIsAllowed
<1> QED  BY <1>9, <1>10

(* Writes that complete the last step.                                      *)
Advances(r, q) ==
  /\ DOMAIN q.steps = DOMAIN r.steps
  /\ \A i \in DOMAIN r.steps :
       /\ i # Len(r.steps) => q.steps[i] = r.steps[i]
       /\ RequireProgress(r.steps[i], q.steps[i])
       /\ WellFormed(q.steps[i])
       /\ q.steps[i].returned \in BOOLEAN /\ q.steps[i].verified \in BOOLEAN

(* What is done stays done, and a step that has no open end gets none.        *)
LEMMA AdvancesStates ==
  ASSUME NEW d, NEW r, NEW q, Shaped(r, d), Shaped(q, d), Advances(r, q)
  PROVE  /\ Len(q.steps) = Len(r.steps)
         /\ \A i \in DOMAIN r.steps :
              /\ q.steps[i].action = r.steps[i].action /\ q.steps[i].removal = r.steps[i].removal
              /\ IsOpen(q.steps[i]) => IsOpen(r.steps[i])
              /\ StateOf(r.steps[i]) = "verified" => StateOf(q.steps[i]) = "verified"
              /\ Settled(r.steps[i]) => Settled(q.steps[i])
              /\ Declined(r.steps[i]) => Declined(q.steps[i])
         /\ \A action : /\ StepOf(q, action) = StepOf(r, action)
                        /\ Returned(r, action) => Returned(q, action)
                        /\ Verified(r, action) => Verified(q, action)
         /\ Launches(q) = Launches(r) /\ CreationsOf(q) = CreationsOf(r)
         /\ Unnamed(q) \subseteq Unnamed(r)
<1>1. IsSeq(r.steps) /\ IsSeq(q.steps) /\ DOMAIN q.steps = DOMAIN r.steps
  BY DEF Shaped, Advances
<1>2. Len(q.steps) = Len(r.steps) /\ DOMAIN r.steps = 1..Len(r.steps) /\ Len(r.steps) \in Nat
  BY <1>1, SeqFacts
<1>3. \A i \in DOMAIN r.steps :
        /\ q.steps[i].action = r.steps[i].action /\ q.steps[i].removal = r.steps[i].removal
        /\ r.steps[i].returned => q.steps[i].returned
        /\ r.steps[i].verified => q.steps[i].verified
        /\ r.steps[i].outcome \in {"none", q.steps[i].outcome}
        /\ WellFormed(q.steps[i])
  BY DEF Advances, RequireProgress
<1>4. ASSUME NEW i \in DOMAIN r.steps
      PROVE  /\ IsOpen(q.steps[i]) => IsOpen(r.steps[i])
             /\ StateOf(r.steps[i]) = "verified" => StateOf(q.steps[i]) = "verified"
             /\ Settled(r.steps[i]) => Settled(q.steps[i])
             /\ Declined(r.steps[i]) => Declined(q.steps[i])
  <2>1. /\ q.steps[i].action = r.steps[i].action /\ q.steps[i].removal = r.steps[i].removal
        /\ r.steps[i].returned => q.steps[i].returned
        /\ r.steps[i].verified => q.steps[i].verified
        /\ r.steps[i].outcome \in {"none", q.steps[i].outcome}
        /\ q.steps[i].returned => q.steps[i].outcome = "none"
        /\ q.steps[i].verified => q.steps[i].returned
    BY <1>3 DEF WellFormed
  <2>2. Declined(r.steps[i]) => Declined(q.steps[i])
    BY <2>1 DEF Declined
  <2>3. StateOf(r.steps[i]) = "verified" => StateOf(q.steps[i]) = "verified"
    BY <2>1 DEF StateOf
  <2>4. IsOpen(q.steps[i]) => IsOpen(r.steps[i])
    BY <2>1 DEF StateOf, IsOpen
  <2>5. Settled(r.steps[i]) => Settled(q.steps[i])
    BY <2>1 DEF StateOf, Settled
  <2> QED  BY <2>2, <2>3, <2>4, <2>5
<1>5. \A action : StepOf(q, action) = StepOf(r, action)
  BY <1>1, <1>3, StepOfKept
<1>6. ASSUME NEW action
      PROVE  (Returned(r, action) => Returned(q, action)) /\ (Verified(r, action) => Verified(q, action))
  <2>1. StepOf(r, action) # 0 => StepOf(r, action) \in DOMAIN r.steps
    BY <1>1, StepOfFound
  <2> QED  BY <1>3, <1>5, <2>1 DEF Returned, Verified
<1>7. Launches(q) = Launches(r)
  BY <1>1, <1>3 DEF Launches
<1>8. CreationsOf(q) = CreationsOf(r)
  <2>1. \A i \in DOMAIN r.steps : i + 1 \in DOMAIN r.steps => (Declined(q.steps[i]) <=> Declined(r.steps[i]))
    <3> TAKE i \in DOMAIN r.steps
    <3>1. i + 1 \in DOMAIN r.steps => i # Len(r.steps)
      BY <1>2
    <3> QED  BY <3>1 DEF Advances
  <2> QED  BY <1>1, <1>3, <2>1 DEF CreationsOf
<1>9. Unnamed(q) \subseteq Unnamed(r)
  BY <1>1, <1>3, <1>4 DEF Unnamed
<1> QED  BY <1>2, <1>3, <1>4, <1>5, <1>6, <1>7, <1>8, <1>9

LEMMA AdvancesQuietly ==
  ASSUME NEW d, NEW r, NEW q, Shaped(r, d), Shaped(q, d), Advances(r, q), IsConsistent(r),
         q.reuse = r.reuse, q.latest = r.latest, q.implicit = r.implicit
  PROVE  /\ Resources(r) \subseteq Resources(q)
         /\ Quiet(r) => Quiet(q)
<1>1. /\ \A action : /\ StepOf(q, action) = StepOf(r, action)
                     /\ Returned(r, action) => Returned(q, action)
                     /\ Verified(r, action) => Verified(q, action)
      /\ Unnamed(q) \subseteq Unnamed(r)
  BY AdvancesStates
<1>2. Resources(r) \subseteq Resources(q)
  BY <1>1 DEF Resources
<1>3. ASSUME Unnamed(r) = {}
      PROVE  Resources(q) = Resources(r)
  <2>1. ASSUME NEW a \in RESOURCES, Returned(q, a)
        PROVE  Returned(r, a)
    <3>1. StepOf(r, a) \in DOMAIN r.steps /\ r.steps[StepOf(r, a)].action = a
      BY <1>1, <2>1, StepOfFound DEF Returned, Shaped
    <3>2. ~IsOpen(r.steps[StepOf(r, a)])
      BY <1>3, <3>1 DEF Unnamed
    <3>3. /\ q.steps[StepOf(r, a)].returned
          /\ r.steps[StepOf(r, a)].outcome \in {"none", q.steps[StepOf(r, a)].outcome}
          /\ WellFormed(q.steps[StepOf(r, a)])
          /\ r.steps[StepOf(r, a)].verified => r.steps[StepOf(r, a)].returned
      BY <1>1, <2>1, <3>1 DEF Returned, Advances, RequireProgress, IsConsistent, WellFormed
    <3>4. r.steps[StepOf(r, a)].returned
      BY <3>2, <3>3 DEF IsOpen, StateOf, WellFormed
    <3> QED  BY <3>1, <3>4, SeqFacts, <1>1, <2>1 DEF Returned
  <2>2. {a \in RESOURCES \cap Included : Returned(q, a)} = {a \in RESOURCES \cap Included : Returned(r, a)}
    BY <1>1, <2>1
  <2> QED  BY <2>2 DEF Resources
<1>4. \A key : Released(r, key) => Released(q, key)
  BY <1>1 DEF Released, RemovedBy, SeenBy
<1>5. Quiet(r) => Quiet(q)
  BY <1>1, <1>3, <1>4 DEF Quiet, Unreleased
<1> QED  BY <1>2, <1>5

LEMMA ProgressAllowed ==
  ASSUME NEW d, NEW r, NEW q, Sound(r, d), Shaped(q, d), DOMAIN q = Fields, Advances(r, q),
         \A field \in {"id", "previous", "reuse", "key", "removals", "health", "successor", "abandoned"} :
           q[field] = r[field],
         Discovered(q), q.implicit \in BOOLEAN, r.implicit => q.implicit,
         q.latest # None => Coherent(q.latest), r.latest # None => q.latest # None, ObservedKnown(q),
         Quiet(r) => Quiet(q),
         r.abandoned => \A i \in DOMAIN r.steps : q.steps[i].returned => r.steps[i].returned
  PROVE  Sound(q, d) /\ Allowed(r, q)
<1>1. /\ q.id = r.id /\ q.previous = r.previous /\ q.reuse = r.reuse /\ q.key = r.key /\ q.removals = r.removals
      /\ q.health = r.health /\ q.successor = r.successor /\ q.abandoned = r.abandoned
  OBVIOUS
<1>2. Shaped(r, d) /\ Typed(r) /\ IsConsistent(r) /\ Directed(r) /\ r.id = d
  BY DEF Sound, Shaped
<1>3. /\ IsSeq(r.steps) /\ IsSeq(q.steps) /\ DOMAIN q.steps = DOMAIN r.steps
      /\ DOMAIN r.steps = 1..Len(r.steps) /\ Len(r.steps) \in Nat
  BY <1>2, SeqFacts DEF Shaped, Advances
<1>4. /\ Len(q.steps) = Len(r.steps)
      /\ \A i \in DOMAIN r.steps :
           /\ q.steps[i].action = r.steps[i].action /\ q.steps[i].removal = r.steps[i].removal
           /\ IsOpen(q.steps[i]) => IsOpen(r.steps[i])
           /\ StateOf(r.steps[i]) = "verified" => StateOf(q.steps[i]) = "verified"
           /\ Settled(r.steps[i]) => Settled(q.steps[i])
           /\ Declined(r.steps[i]) => Declined(q.steps[i])
      /\ \A action : /\ StepOf(q, action) = StepOf(r, action)
                     /\ Returned(r, action) => Returned(q, action)
                     /\ Verified(r, action) => Verified(q, action)
      /\ Launches(q) = Launches(r) /\ CreationsOf(q) = CreationsOf(r)
      /\ Unnamed(q) \subseteq Unnamed(r)
  BY <1>2, AdvancesStates
<1>5. CreationPlan(q) = CreationPlan(r) /\ Slots(q) = Slots(r)
  BY <1>1 DEF CreationPlan, Slots
<1>6. q.steps = <<>> <=> r.steps = <<>>
  BY <1>3, EmptySteps, SeqFacts
<1>7. InPlan(q)
  <2>1. \A i \in DOMAIN q.steps :
          q.steps[i].removal - (IF i = 1 THEN 0 ELSE q.steps[i - 1].removal) \in {0, 1}
    BY <1>2, <1>3, <1>4 DEF IsConsistent, InPlan
  <2>2. q.removals = (IF q.steps = <<>> THEN 0 ELSE Last(q.steps).removal)
    <3>1. r.removals = (IF r.steps = <<>> THEN 0 ELSE Last(r.steps).removal)
      BY <1>2 DEF IsConsistent, InPlan
    <3>2. r.steps # <<>> => Last(q.steps).removal = Last(r.steps).removal
      BY <1>3, <1>4, SeqFacts DEF Last
    <3> QED  BY <1>1, <1>6, <3>1, <3>2
  <2>3. \A i \in CreationsOf(q) :
          \E p \in CreationPlan(q) :
            q.steps[i].action = CREATIONS[p] /\ Rank(CreationPlan(q), p) = Rank(CreationsOf(q), i)
    <3>1. CreationsOf(r) \subseteq DOMAIN r.steps
      BY DEF CreationsOf
    <3> QED  BY <1>2, <1>4, <1>5, <3>1 DEF IsConsistent, InPlan
  <2> QED  BY <2>1, <2>2, <2>3 DEF InPlan
<1>8. LaunchesOrdered(q)
  <2>1. Launches(r) \subseteq DOMAIN r.steps
    BY DEF Launches
  <2> QED  BY <1>2, <1>4, <1>5, <2>1 DEF IsConsistent, LaunchesOrdered
<1>9. \A i \in DOMAIN q.steps : WellFormed(q.steps[i]) /\ (i > 1 => Follows(q.steps[i - 1], q.steps[i]))
  <2> TAKE i \in DOMAIN q.steps
  <2>1. WellFormed(q.steps[i])
    BY <1>3 DEF Advances
  <2>2. ASSUME i > 1
        PROVE  Follows(q.steps[i - 1], q.steps[i])
    <3>1. i - 1 \in DOMAIN r.steps /\ i \in DOMAIN r.steps /\ Follows(r.steps[i - 1], r.steps[i])
      BY <1>2, <1>3, <2>2 DEF IsConsistent
    <3> QED  BY <1>4, <3>1 DEF Follows
  <2> QED  BY <2>1, <2>2
<1>10. Keyed(q)
  BY <1>1, <1>2, <1>6 DEF Keyed, IsConsistent
<1>11. Undone(q)
  BY <1>2, <1>3, <1>4 DEF Undone, IsConsistent
<1>12. HealthRecorded(q)
  <2>1. r.health => CreationVerified(r)
    BY <1>2 DEF IsConsistent, HealthRecorded
  <2>2. CreationVerified(r) => CreationVerified(q)
    <3>1. CreationsOf(r) \subseteq DOMAIN r.steps
      BY DEF CreationsOf
    <3> QED  BY <1>4, <1>5, <3>1 DEF CreationVerified
  <2> QED  BY <1>1, <2>1, <2>2 DEF HealthRecorded
<1>13. SuccessorRecorded(q)
  <2>1. SuccessorRecorded(r)
    BY <1>2 DEF IsConsistent
  <2>2. HoldsVolume(r) => HoldsVolume(q)
    BY <1>1, <1>4 DEF HoldsVolume
  <2>3. VolumeId(r) # None => VolumeId(q) = VolumeId(r)
    BY <1>1, <1>4 DEF VolumeId
  <2> QED  BY <1>1, <2>1, <2>2, <2>3 DEF SuccessorRecorded, Quiet
<1>14. AbandonmentRecorded(q)
  <2>1. AbandonmentRecorded(r)
    BY <1>2 DEF IsConsistent
  <2>2. r.abandoned /\ ~Returned(r, "attach-volume") => ~Returned(q, "attach-volume")
    <3>1. StepOf(r, "attach-volume") # 0 => StepOf(r, "attach-volume") \in DOMAIN r.steps
      BY <1>3, StepOfFound
    <3> QED  BY <1>4, <3>1 DEF Returned
  <2> QED  BY <1>1, <1>3, <1>4, <2>1, <2>2 DEF AbandonmentRecorded, Quiet
<1>15. IsConsistent(q)
  BY <1>7, <1>8, <1>9, <1>10, <1>11, <1>12, <1>13, <1>14 DEF IsConsistent
<1>16. RequireSteps(r, q)
  <2>1. \A i \in DOMAIN r.steps :
          IF i < Len(r.steps) THEN r.steps[i] = q.steps[i] ELSE RequireProgress(r.steps[i], q.steps[i])
    BY <1>3 DEF Advances
  <2> QED  BY <1>4, <2>1 DEF RequireSteps
<1>17. RequireTransition(r, q)
  <2>1. RequireFixedFields(r, q) /\ RequireAdminKey(r, q) /\ RequireRemovals(r, q) /\ RequireHealth(r, q)
    BY <1>1 DEF RequireFixedFields, RequireAdminKey, RequireRemovals, RequireHealth
  <2>2. /\ RequireSuccessor(r, q) /\ RequireAbandonment(r, q)
        /\ RequireObservations(r, q) /\ RequireImplicit(r, q)
    BY <1>1 DEF RequireSuccessor, RequireAbandonment, RequireObservations, RequireImplicit
  <2> QED  BY <1>16, <2>1, <2>2 DEF RequireTransition
<1>18. Typed(q)
  <2>1. ASSUME NEW i \in DOMAIN q.steps
        PROVE  /\ q.steps[i].returned \in BOOLEAN /\ q.steps[i].verified \in BOOLEAN
               /\ q.steps[i].removal \in 0..q.removals
               /\ i = Len(q.steps) \/ Over(q.steps[i])
    <3>1. i \in DOMAIN r.steps /\ r.steps[i].removal \in 0..r.removals /\ (i = Len(r.steps) \/ Over(r.steps[i]))
      BY <1>2, <1>3 DEF Typed
    <3> QED  BY <1>1, <1>4, <3>1 DEF Advances
  <2> QED  BY <1>1, <1>2, <2>1 DEF Typed
<1>19. Directed(q)
  BY <1>2, <1>3, <1>4 DEF Directed
<1> QED  BY <1>15, <1>17, <1>18, <1>19 DEF Sound, Allowed

Completes(r, step) ==
  /\ r.steps # <<>>
  /\ IsStep(step) /\ WellFormed(step)
  /\ step.returned \in BOOLEAN /\ step.verified \in BOOLEAN
  /\ RequireProgress(LastStep(r), step)
LastBecomes(r, q, step) == DOMAIN q = Fields /\ q.id = r.id /\ q.steps = WithLast(r, step).steps

LEMMA WithLastBecomes ==
  ASSUME NEW r, NEW p, NEW step, DOMAIN r = Fields, DOMAIN p = Fields, p.id = r.id, p.steps = r.steps
  PROVE  /\ LastBecomes(r, WithLast(p, step), step)
         /\ Keeps(p, WithLast(p, step), {"steps"})
  BY DEF LastBecomes, WithLast, Fields, Keeps

LEMMA LastAdvances ==
  ASSUME NEW d, NEW r, NEW step, NEW q, Sound(r, d), Completes(r, step), LastBecomes(r, q, step)
  PROVE  /\ Advances(r, q) /\ Shaped(q, d)
         /\ q.steps # <<>> /\ LastStep(q) = step
<1>1. /\ Shaped(r, d) /\ IsConsistent(r) /\ Typed(r) /\ r.steps # <<>> /\ IsStep(step)
      /\ q.steps = WithLast(r, step).steps
  BY DEF Sound, Completes, LastBecomes
<1>2. /\ Shaped(WithLast(r, step), d)
      /\ Len(q.steps) = Len(r.steps)
      /\ DOMAIN q.steps = DOMAIN r.steps
      /\ q.steps # <<>>
      /\ \A i \in DOMAIN r.steps : q.steps[i] = IF i = Len(r.steps) THEN step ELSE r.steps[i]
  BY <1>1, LastReplaced
<1>3. Shaped(q, d)
  BY <1>1, <1>2 DEF Shaped, LastBecomes, Fields
<1>4. Len(r.steps) \in DOMAIN r.steps
  BY <1>1, SeqFacts DEF Shaped
<1>5. LastStep(q) = step
  BY <1>2, <1>4 DEF LastStep
<1>6. ASSUME NEW i \in DOMAIN r.steps
      PROVE  /\ RequireProgress(r.steps[i], q.steps[i])
             /\ WellFormed(q.steps[i])
             /\ q.steps[i].returned \in BOOLEAN /\ q.steps[i].verified \in BOOLEAN
  <2>1. WellFormed(r.steps[i]) /\ r.steps[i].returned \in BOOLEAN /\ r.steps[i].verified \in BOOLEAN
    BY <1>1 DEF IsConsistent, Typed
  <2>2. RequireProgress(r.steps[i], r.steps[i])
    BY DEF RequireProgress
  <2> QED  BY <1>2, <2>1, <2>2 DEF LastStep, Completes
<1>7. Advances(r, q)
  BY <1>2, <1>6 DEF Advances
<1> QED  BY <1>2, <1>3, <1>5, <1>7

(* Nothing is seen anew when a step is answered or closed.                    *)
LEMMA AnswerAllowed ==
  ASSUME NEW d, NEW r, NEW step, NEW q, Sound(r, d), Completes(r, step), LastBecomes(r, q, step),
         Keeps(r, q, {"steps", "termination"}),
         step.verified = LastStep(r).verified,
         r.abandoned => (step.returned => LastStep(r).returned)
  PROVE  /\ Sound(q, d) /\ Allowed(r, q) /\ Advances(r, q)
         /\ q.steps # <<>> /\ LastStep(q) = step
         /\ Quiet(r) => Quiet(q)
<1>1. Shaped(r, d) /\ IsConsistent(r) /\ Typed(r)
  BY DEF Sound
<1>2. Len(r.steps) \in DOMAIN r.steps /\ IsSeq(r.steps)
  BY <1>1, SeqFacts DEF Shaped, Completes
<1>3. Advances(r, q) /\ Shaped(q, d) /\ q.steps # <<>> /\ LastStep(q) = step /\ DOMAIN q = Fields
  BY LastAdvances DEF LastBecomes
<1>4. /\ \A field \in {"id", "previous", "reuse", "key", "removals", "health", "successor", "abandoned"} :
           q[field] = r[field]
      /\ q.reuse = r.reuse /\ q.latest = r.latest /\ q.implicit = r.implicit
  BY DEF Fields, Keeps
<1>5. /\ \A action : StepOf(q, action) = StepOf(r, action)
      /\ Len(q.steps) = Len(r.steps)
  BY <1>1, <1>3, AdvancesStates
<1>6. Verified(q, "run-instances") = Verified(r, "run-instances")
  <2>1. \A i \in DOMAIN r.steps : q.steps[i].verified = r.steps[i].verified
    BY <1>3, <1>5 DEF Advances, LastStep
  <2>2. StepOf(r, "run-instances") # 0 => StepOf(r, "run-instances") \in DOMAIN r.steps
    BY <1>2, StepOfFound
  <2> QED  BY <1>5, <2>1, <2>2 DEF Verified
<1>7. Discovered(q) /\ q.implicit \in BOOLEAN
  BY <1>1, <1>4, <1>6 DEF Discovered, IsConsistent, Typed
<1>8. Resources(r) \subseteq Resources(q) /\ (Quiet(r) => Quiet(q))
  BY <1>1, <1>3, <1>4, AdvancesQuietly
<1>9. ObservedKnown(q) /\ (q.latest # None => Coherent(q.latest))
  BY <1>1, <1>4, <1>8 DEF ObservedKnown, IsConsistent, Typed
<1>10. r.abandoned => \A i \in DOMAIN r.steps : q.steps[i].returned => r.steps[i].returned
  BY <1>3, <1>5 DEF Advances, LastStep
<1>11. Sound(q, d) /\ Allowed(r, q)
  BY <1>3, <1>4, <1>7, <1>8, <1>9, <1>10, ProgressAllowed
<1> QED  BY <1>3, <1>8, <1>11

WithAnswer(step) == [step EXCEPT !.returned = TRUE]
WithOutcome(step, outcome) == [step EXCEPT !.outcome = outcome]

LEMMA RetainAllowed ==
  ASSUME NEW d, NEW r, NEW q, Sound(r, d), r.steps # <<>>, LastStep(r).outcome = "none", ~r.abandoned,
         q = WithLast(r, WithAnswer(LastStep(r)))
  PROVE  /\ Sound(q, d) /\ Allowed(r, q) /\ Advances(r, q)
         /\ q.steps # <<>> /\ LastStep(q) = WithAnswer(LastStep(r)) /\ LastStep(q).returned
         /\ Quiet(r) => Quiet(q)
         /\ Keeps(r, q, {"steps"})
<1> DEFINE step == WithAnswer(LastStep(r))
<1>1. Shaped(r, d) /\ IsConsistent(r) /\ DOMAIN r = Fields /\ Typed(r)
  BY DEF Sound
<1>2. Len(r.steps) \in DOMAIN r.steps
  BY <1>1, SeqFacts DEF Shaped
<1>3. IsStep(LastStep(r)) /\ WellFormed(LastStep(r)) /\ LastStep(r).verified \in BOOLEAN
  BY <1>1, <1>2 DEF Shaped, IsConsistent, LastStep, Typed
<1>4. /\ IsStep(step) /\ step.returned = TRUE
      /\ step.action = LastStep(r).action /\ step.removal = LastStep(r).removal
      /\ step.verified = LastStep(r).verified /\ step.outcome = LastStep(r).outcome
  BY <1>3 DEF IsStep, WithAnswer
<1>5. Completes(r, step)
  BY <1>3, <1>4 DEF Completes, RequireProgress, WellFormed
<1>6. LastBecomes(r, q, step) /\ Keeps(r, q, {"steps"})
  BY <1>1, WithLastBecomes
<1>7. Keeps(r, q, {"steps", "termination"})
  BY <1>6 DEF Keeps
<1>8. /\ Sound(q, d) /\ Allowed(r, q) /\ Advances(r, q)
      /\ q.steps # <<>> /\ LastStep(q) = step
      /\ Quiet(r) => Quiet(q)
  <2>1. step.verified = LastStep(r).verified /\ (r.abandoned => (step.returned => LastStep(r).returned))
    BY <1>4
  <2>2. LastBecomes(r, q, step)
    BY <1>6
  <2> QED  BY <1>5, <1>7, <2>1, <2>2, AnswerAllowed
<1> QED  BY <1>4, <1>6, <1>8

LEMMA ClosingAllowed ==
  ASSUME NEW d, NEW r, NEW q, NEW p \in {Fenced(r), Confirmed(r)}, Sound(r, d),
         r.steps # <<>>, StateOf(LastStep(r)) = "open",
         NEW outcome, outcome = "blocked" => LastStep(r).removal # 0,
         q = WithLast(p, WithOutcome(LastStep(r), outcome))
  PROVE  /\ Sound(q, d) /\ Allowed(r, q) /\ Advances(r, q)
         /\ q.steps # <<>> /\ LastStep(q).outcome = outcome /\ LastStep(q).action = LastStep(r).action
         /\ Quiet(r) => Quiet(q)
         /\ q.termination = p.termination
         /\ Keeps(r, q, {"steps", "termination"})
<1> DEFINE step == WithOutcome(LastStep(r), outcome)
<1>1. Shaped(r, d) /\ IsConsistent(r) /\ DOMAIN r = Fields /\ Typed(r)
  BY DEF Sound
<1>2. Len(r.steps) \in DOMAIN r.steps
  BY <1>1, SeqFacts DEF Shaped
<1>3. IsStep(LastStep(r)) /\ WellFormed(LastStep(r)) /\ LastStep(r).returned \in BOOLEAN
  BY <1>1, <1>2 DEF Shaped, IsConsistent, LastStep, Typed
<1>4. LastStep(r).outcome = "none" /\ LastStep(r).verified = FALSE /\ LastStep(r).returned = FALSE
  BY <1>1, <1>2 DEF StateOf, LastStep, Typed
<1>5. /\ IsStep(step) /\ step.outcome = outcome
      /\ step.action = LastStep(r).action /\ step.removal = LastStep(r).removal
      /\ step.verified = LastStep(r).verified /\ step.returned = LastStep(r).returned
  BY <1>3 DEF IsStep, WithOutcome
<1>0. q = WithLast(p, step)
  OBVIOUS
<1> HIDE DEF step
<1>6. Completes(r, step)
  BY <1>3, <1>4, <1>5 DEF Completes, RequireProgress, WellFormed
<1>7. DOMAIN p = Fields /\ Keeps(r, p, {"termination"})
  BY <1>1 DEF Fenced, Confirmed, Fields, Keeps
<1>8. LastBecomes(r, q, step) /\ Keeps(p, q, {"steps"})
  <2>1. p.id = r.id /\ p.steps = r.steps
    BY <1>7 DEF Fields, Keeps
  <2>3. DOMAIN p = Fields /\ DOMAIN r = Fields
    BY <1>1, <1>7
  <2>4. /\ LastBecomes(r, WithLast(p, step), step)
        /\ Keeps(p, WithLast(p, step), {"steps"})
    BY <2>1, <2>3, WithLastBecomes
  <2> QED  BY <1>0, <2>4
<1>9. q.termination = p.termination /\ Keeps(r, q, {"steps", "termination"})
  BY <1>7, <1>8 DEF Fields, Keeps
<1>10. /\ Sound(q, d) /\ Allowed(r, q) /\ Advances(r, q)
       /\ q.steps # <<>> /\ LastStep(q) = step
       /\ Quiet(r) => Quiet(q)
  BY <1>4, <1>5, <1>6, <1>8, <1>9, AnswerAllowed
<1> QED  BY <1>5, <1>9, <1>10

-----------------------------------------------------------------------------
(* What is seen of a record.                                                *)

LEMMA CreationsRemoveNothing ==
  /\ \A p \in DOMAIN CREATIONS : CREATIONS[p] \notin Removing
  /\ \A p \in DOMAIN CREATIONS : \A q \in DOMAIN CREATIONS : CREATIONS[p] = CREATIONS[q] => p = q
  /\ DOMAIN CREATIONS = 1..15 /\ "run-instances" \notin Removing
  /\ \A action : action \notin Removing => Undoes(action) = {}
<1>1. DOMAIN CREATIONS = 1..15 /\ DOMAIN REMOVALS = 1..11
  BY DEF CREATIONS, REMOVALS
<1>2. \A p \in 1..15 : \A q \in 1..11 : CREATIONS[p] # REMOVALS[q][1]
  BY DEF CREATIONS, REMOVALS
<1>3. \A p \in 1..15 : \A q \in 1..15 : CREATIONS[p] = CREATIONS[q] => p = q
  BY DEF CREATIONS
<1>4. "run-instances" \notin Removing
  BY RemovingMakesNothing DEF RESOURCES
<1>5. \A action : action \notin Removing => Undoes(action) = {}
  BY DEF Removing, Undoes, Removals
<1>6. \A p \in DOMAIN CREATIONS : CREATIONS[p] \notin Removing
  BY <1>1, <1>2 DEF Removing
<1> QED  BY <1>1, <1>3, <1>4, <1>5, <1>6

(* A step makes something exactly when it belongs to no removal.              *)
LEMMA CreationStep ==
  ASSUME NEW r, NEW d, Sound(r, d), NEW i \in DOMAIN r.steps
  PROVE  /\ r.steps[i].removal = 0 <=> r.steps[i].action \notin Removing
         /\ r.removals = 0 => r.steps[i].removal = 0
         /\ Len(r.steps) \in DOMAIN r.steps /\ LastStep(r).removal = r.removals
         /\ r.steps[i].removal = 0 =>
              i \in CreationsOf(r) \/ (Declined(r.steps[i]) /\ i + 1 \in DOMAIN r.steps /\ i + 1 \in Launches(r))
<1>1. IsConsistent(r) /\ Typed(r) /\ Directed(r) /\ Shaped(r, d)
  BY DEF Sound
<1>2. IsSeq(r.steps) /\ DOMAIN r.steps = 1..Len(r.steps) /\ Len(r.steps) \in Nat /\ r.steps # <<>>
  BY <1>1, SeqFacts, EmptySteps DEF Shaped
<1>3. r.steps[i].removal = 0 =>
        i \in CreationsOf(r) \/ (Declined(r.steps[i]) /\ i + 1 \in DOMAIN r.steps /\ i + 1 \in Launches(r))
  BY DEF CreationsOf, Launches
<1>4. ASSUME r.steps[i].removal = 0
      PROVE  r.steps[i].action \notin Removing
  <2>1. CASE i \in CreationsOf(r)
    <3>1. PICK p \in CreationPlan(r) : r.steps[i].action = CREATIONS[p]
      BY <1>1, <2>1 DEF IsConsistent, InPlan
    <3> QED  BY <3>1, CreationsRemoveNothing DEF CreationPlan, Creations
  <2>2. CASE Declined(r.steps[i])
    BY <2>2, CreationsRemoveNothing DEF Declined
  <2> QED  BY <1>3, <1>4, <2>1, <2>2
<1>5. r.steps[i].removal # 0 => r.steps[i].action \in Removing
  BY <1>1 DEF Directed
<1>6. r.removals = 0 => r.steps[i].removal = 0
  BY <1>1 DEF Typed
<1>7. Len(r.steps) \in DOMAIN r.steps /\ LastStep(r).removal = r.removals
  BY <1>1, <1>2 DEF IsConsistent, InPlan, LastStep, Last
<1> QED  BY <1>3, <1>4, <1>5, <1>6, <1>7

(* The instance is seen for the first time only when its launch is the last step. *)
LEMMA LaunchIsLast ==
  ASSUME NEW r, NEW d, Sound(r, d), Returned(r, "run-instances"), ~Verified(r, "run-instances")
  PROVE  /\ r.steps # <<>> /\ StepOf(r, "run-instances") = Len(r.steps)
         /\ LastStep(r).action = "run-instances" /\ StateOf(LastStep(r)) = "returned"
         /\ Present(r, "run-instances")
<1> DEFINE i == StepOf(r, "run-instances")
<1>1. IsConsistent(r) /\ Typed(r) /\ Shaped(r, d) /\ IsSeq(r.steps)
  BY DEF Sound, Shaped
<1>2. i \in DOMAIN r.steps /\ r.steps[i].action = "run-instances"
  BY <1>1, StepOfFound DEF Returned
<1>3. r.steps[i].returned /\ ~r.steps[i].verified /\ r.steps[i].outcome = "none"
  BY <1>1, <1>2 DEF Returned, Verified, IsConsistent, WellFormed
<1>4. StateOf(r.steps[i]) = "returned"
  BY <1>3 DEF StateOf
<1>5. i = Len(r.steps)
  BY <1>1, <1>2, <1>4 DEF Typed, Over
<1>6. r.steps[i].removal = 0
  BY <1>2, CreationStep, CreationsRemoveNothing
<1>7. r.removals = 0
  BY <1>2, <1>5, <1>6, CreationStep DEF LastStep
<1>8. Present(r, "run-instances")
  <2>1. ASSUME NEW action \in RemovedBy(r, "run-instances"), Returned(r, action)
        PROVE  FALSE
    <3>1. action \in Removing
      BY <2>1 DEF RemovedBy, Removers, Removals, Removing
    <3>2. StepOf(r, action) \in DOMAIN r.steps /\ r.steps[StepOf(r, action)].action = action
      BY <1>1, <2>1, StepOfFound DEF Returned
    <3> QED  BY <1>7, <3>1, <3>2, CreationStep
  <2> QED  BY <2>1 DEF Present
<1>9. r.steps # <<>>
  BY <1>2, EmptySteps
<1> QED  BY <1>2, <1>4, <1>5, <1>8, <1>9 DEF LastStep

WithObservation(r, observation) ==
  [r EXCEPT !.latest = observation,
            !.implicit = @ \/ (Matches(r, observation) /\ "implicit" \in DOMAIN observation)]
WithVerification(step) == [step EXCEPT !.verified = TRUE]

(* What the reconciled record says of the steps.                            *)
LEMMA ReconciledSteps ==
  ASSUME NEW d, NEW r, NEW q, NEW observation, Sound(r, d), q = Reconciled(r, observation)
  PROVE  /\ Advances(r, q) /\ Shaped(q, d) /\ DOMAIN q = Fields
         /\ Keeps(r, q, {"steps", "latest", "implicit"})
         /\ q.latest = observation /\ q.implicit \in BOOLEAN
         /\ q.implicit <=> r.implicit \/ (Matches(r, observation) /\ "implicit" \in DOMAIN observation)
         /\ IF Matches(r, observation) /\ r.steps # <<>> /\ StateOf(LastStep(r)) = "returned"
            THEN /\ q.steps # <<>> /\ LastStep(q) = WithVerification(LastStep(r))
                 /\ StateOf(LastStep(q)) = "verified"
            ELSE q.steps = r.steps
         /\ \A i \in DOMAIN r.steps : q.steps[i].returned = r.steps[i].returned
<1> DEFINE p == WithObservation(r, observation)
           step == WithVerification(LastStep(r))
           verifies == Matches(r, observation) /\ r.steps # <<>> /\ StateOf(LastStep(r)) = "returned"
<1>1. Shaped(r, d) /\ IsConsistent(r) /\ DOMAIN r = Fields /\ Typed(r)
  BY DEF Sound
<1>2. q = IF verifies THEN WithLast(p, step) ELSE p
  BY DEF Reconciled, WithObservation, WithVerification
<1>3. /\ DOMAIN p = Fields /\ p.latest = observation
      /\ p.implicit = (r.implicit \/ (Matches(r, observation) /\ "implicit" \in DOMAIN observation))
      /\ p.id = r.id /\ p.steps = r.steps
      /\ Keeps(r, p, {"latest", "implicit"})
  BY <1>1 DEF WithObservation, Fields, Keeps
<1>4. p.implicit \in BOOLEAN
  BY <1>3
<1> HIDE DEF p, step
<1>5. CASE verifies
  <2>1. Len(r.steps) \in DOMAIN r.steps
    BY <1>1, <1>5, SeqFacts DEF Shaped
  <2>2. /\ IsStep(LastStep(r)) /\ WellFormed(LastStep(r)) /\ LastStep(r).returned \in BOOLEAN
    BY <1>1, <2>1 DEF Shaped, IsConsistent, LastStep, Typed
  <2>3. LastStep(r).outcome = "none" /\ LastStep(r).returned = TRUE
    BY <1>5, <2>2 DEF StateOf
  <2>4. /\ IsStep(step) /\ step.verified = TRUE /\ step.returned = TRUE /\ step.outcome = "none"
        /\ step.action = LastStep(r).action /\ step.removal = LastStep(r).removal
    BY <2>2, <2>3 DEF IsStep, WithVerification, step
  <2>5. Completes(r, step)
    BY <1>5, <2>3, <2>4 DEF Completes, RequireProgress, WellFormed
  <2>6. q = WithLast(p, step)
    BY <1>2, <1>5
  <2>7. LastBecomes(r, q, step) /\ Keeps(p, q, {"steps"})
    BY <1>1, <1>3, <2>6, WithLastBecomes
  <2>8. Advances(r, q) /\ Shaped(q, d) /\ q.steps # <<>> /\ LastStep(q) = step
    BY <2>5, <2>7, LastAdvances
  <2>9. StateOf(step) = "verified"
    BY <2>4 DEF StateOf
  <2>10. DOMAIN q = Fields /\ q.latest = p.latest /\ q.implicit = p.implicit
         /\ Keeps(r, q, {"steps", "latest", "implicit"})
    BY <1>3, <2>7 DEF LastBecomes, Keeps, Fields
  <2>11. \A i \in DOMAIN r.steps : q.steps[i].returned = r.steps[i].returned
    <3>1. Len(q.steps) = Len(r.steps)
      BY <1>1, <2>8, AdvancesStates
    <3> QED  BY <2>3, <2>4, <2>8, <3>1 DEF Advances, LastStep
  <2> QED  BY <1>3, <1>4, <1>5, <2>8, <2>9, <2>10, <2>11 DEF step
<1>6. CASE ~verifies
  <2>1. q = p
    BY <1>2, <1>6
  <2>2. Shaped(q, d)
    BY <1>1, <1>3, <2>1 DEF Shaped, Fields
  <2>3. Advances(r, q)
    <3>1. \A s : RequireProgress(s, s)
      BY DEF RequireProgress
    <3> QED  BY <1>1, <1>3, <2>1, <3>1 DEF Advances, IsConsistent, Typed
  <2>4. Keeps(r, q, {"steps", "latest", "implicit"})
    BY <1>3, <2>1 DEF Keeps
  <2> QED  BY <1>3, <1>4, <1>6, <2>1, <2>2, <2>3, <2>4
<1> QED  BY <1>5, <1>6

LEMMA ReconciledDiscovers ==
  ASSUME NEW d, NEW r, NEW q, NEW observation, Sound(r, d), q = Reconciled(r, observation)
  PROVE  /\ Discovered(q)
         /\ q.implicit /\ ~r.implicit => Launching(r)
<1>1. Shaped(r, d) /\ IsConsistent(r) /\ DOMAIN r = Fields /\ Typed(r) /\ Discovered(r) /\ r.implicit \in BOOLEAN
  BY DEF Sound, IsConsistent, Typed
<1>2. /\ Advances(r, q) /\ Shaped(q, d) /\ q.implicit \in BOOLEAN
      /\ q.implicit <=> r.implicit \/ (Matches(r, observation) /\ "implicit" \in DOMAIN observation)
      /\ IF Matches(r, observation) /\ r.steps # <<>> /\ StateOf(LastStep(r)) = "returned"
         THEN q.steps # <<>> /\ LastStep(q) = WithVerification(LastStep(r)) /\ StateOf(LastStep(q)) = "verified"
         ELSE q.steps = r.steps
      /\ \A i \in DOMAIN r.steps : q.steps[i].returned = r.steps[i].returned
  BY ReconciledSteps
<1>3. \A action : /\ StepOf(q, action) = StepOf(r, action)
                  /\ Verified(r, action) => Verified(q, action)
  BY <1>1, <1>2, AdvancesStates
<1>4. Len(q.steps) = Len(r.steps)
  BY <1>1, <1>2, AdvancesStates
<1>5. "run-instances" \in RESOURCES \cap Included /\ "run-instances" \notin RETAINED
  BY IncludedAssumption DEF RESOURCES, RETAINED
<1>6. ASSUME Matches(r, observation), "implicit" \in DOMAIN observation, ~r.implicit
      PROVE  Launching(r)
  <2>1. "implicit" \in Active(r) => r.implicit
    BY DEF Active, Resources, RESOURCES, RETAINED
  <2> QED  BY <1>6, <2>1 DEF Matches, Expectation
<1>7. ASSUME Launching(r)
      PROVE  /\ Returned(r, "run-instances") /\ ~Verified(r, "run-instances")
             /\ r.steps # <<>> /\ StateOf(LastStep(r)) = "returned"
             /\ StepOf(r, "run-instances") = Len(r.steps)
  <2>1. Returned(r, "run-instances")
    BY <1>5, <1>7 DEF Launching, Active, Resources, RETAINED
  <2>2. ~Verified(r, "run-instances")
    BY <1>1, <1>7 DEF Launching, Discovered
  <2> QED  BY <2>1, <2>2, LaunchIsLast
<1>8. ASSUME q.implicit, ~r.implicit
      PROVE  Launching(r) /\ Verified(q, "run-instances")
  <2>1. Matches(r, observation) /\ Launching(r)
    BY <1>2, <1>6, <1>8
  <2>2. q.steps # <<>> /\ StateOf(LastStep(q)) = "verified"
    BY <1>2, <1>7, <2>1
  <2>3. LastStep(q).verified /\ LastStep(q) = q.steps[StepOf(q, "run-instances")]
    BY <1>3, <1>4, <1>7, <2>1, <2>2 DEF StateOf, LastStep
  <2>4. StepOf(q, "run-instances") # 0
    BY <1>3, <1>7, <2>1 DEF Returned
  <2> QED  BY <2>1, <2>3, <2>4 DEF Verified
<1>9. ASSUME Verified(q, "run-instances"), ~Verified(r, "run-instances")
      PROVE  q.implicit
  <2>1. q.steps # r.steps
    BY <1>3, <1>9 DEF Verified
  <2>2. /\ Matches(r, observation) /\ r.steps # <<>>
        /\ StateOf(LastStep(r)) = "returned" /\ LastStep(q) = WithVerification(LastStep(r))
    BY <1>2, <2>1
  <2>3. StepOf(r, "run-instances") \in DOMAIN r.steps
    BY <1>1, <1>3, <1>9, StepOfFound DEF Verified, Shaped
  <2>4. Returned(q, "run-instances") /\ Returned(r, "run-instances")
    <3>1. q.steps[StepOf(r, "run-instances")].verified /\ WellFormed(q.steps[StepOf(r, "run-instances")])
      BY <1>2, <1>3, <1>9, <2>3 DEF Verified, Advances
    <3>2. q.steps[StepOf(r, "run-instances")].returned
      BY <3>1 DEF WellFormed
    <3> QED  BY <1>2, <1>3, <1>9, <2>3, <3>2 DEF Returned, Verified
  <2>5. Launching(r)
    <3>1. "run-instances" \in Active(r)
      BY <1>5, <2>4 DEF Active, Resources
    <3>2. ~r.implicit /\ Present(r, "run-instances")
      BY <1>1, <1>9, <2>4, LaunchIsLast DEF Discovered
    <3> QED  BY <3>1, <3>2 DEF Launching
  <2>6. "implicit" \in DOMAIN observation
    BY <2>2, <2>5 DEF Matches, Expectation
  <2> QED  BY <1>2, <2>2, <2>6
<1>10. Verified(q, "run-instances") <=> q.implicit
  <2>1. r.implicit <=> Verified(r, "run-instances")
    BY <1>1 DEF Discovered
  <2>2. r.implicit => q.implicit
    BY <1>2
  <2> QED  BY <1>3, <1>8, <1>9, <2>1, <2>2
<1>11. Discovered(q)
  <2>1. Verified(q, "run-instances") \in BOOLEAN
    BY DEF Verified
  <2> QED  BY <1>2, <1>10, <2>1 DEF Discovered
<1> QED  BY <1>8, <1>11

LEMMA ReconciledIsQuiet ==
  ASSUME NEW d, NEW r, NEW q, NEW observation, Sound(r, d), q = Reconciled(r, observation),
         Fresh(observation, r), Quiet(r)
  PROVE  Quiet(q)
<1>1. Shaped(r, d) /\ IsConsistent(r) /\ Discovered(r) /\ IsSeq(r.steps)
  BY DEF Sound, IsConsistent, Shaped
<1>2. /\ Advances(r, q) /\ Shaped(q, d) /\ q.latest = observation /\ q.reuse = r.reuse
      /\ \A i \in DOMAIN r.steps : q.steps[i].returned = r.steps[i].returned
  BY ReconciledSteps DEF Keeps, Fields
<1>3. /\ \A action : /\ StepOf(q, action) = StepOf(r, action)
                     /\ Verified(r, action) => Verified(q, action)
      /\ Unnamed(q) \subseteq Unnamed(r)
  BY <1>1, <1>2, AdvancesStates
<1>4. \A action : Returned(q, action) <=> Returned(r, action)
  <2> TAKE action
  <2>1. StepOf(r, action) # 0 => StepOf(r, action) \in DOMAIN r.steps
    BY <1>1, StepOfFound
  <2> QED  BY <1>2, <1>3, <2>1 DEF Returned
<1>5. "run-instances" \in RESOURCES /\ "run-instances" \notin RETAINED
      /\ Parent("run-instances") = "run-instances"
  BY DEF RESOURCES, RETAINED, Parent
<1>6. ~(q.implicit /\ ~r.implicit)
  <2> SUFFICES ASSUME q.implicit, ~r.implicit PROVE FALSE
    OBVIOUS
  <2>1. Launching(r)
    BY ReconciledDiscovers
  <2>2. "run-instances" \in Resources(r) \ RETAINED /\ Present(r, "run-instances")
    BY <1>5, <2>1 DEF Launching, Active
  <2>3. Released(r, "run-instances")
    BY <2>2 DEF Quiet, Unreleased
  <2>4. ~Verified(r, SeenBy(r, "run-instances"))
    BY <1>1, <1>5, <2>1 DEF SeenBy, Discovered, Launching
  <2>5. PICK action \in RemovedBy(r, "run-instances") : Verified(r, action)
    BY <2>3, <2>4 DEF Released
  <2>6. Returned(r, action)
    <3>1. StepOf(r, action) \in DOMAIN r.steps
      BY <1>1, <2>5, StepOfFound DEF Verified
    <3> QED  BY <1>1, <2>5, <3>1 DEF Verified, Returned, IsConsistent, WellFormed
  <2> QED  BY <2>2, <2>5, <2>6 DEF Present
<1>7. Resources(q) \subseteq Resources(r)
  BY <1>2, <1>4, <1>6 DEF Resources
<1>8. ASSUME NEW key \in Resources(q) \ RETAINED
      PROVE  Released(q, key)
  <2>1. key \in Resources(r) \ RETAINED /\ Released(r, key)
    BY <1>7, <1>8 DEF Quiet, Unreleased
  <2>2. RemovedBy(q, key) = RemovedBy(r, key) /\ SeenBy(q, key) = SeenBy(r, key)
    BY <1>2 DEF RemovedBy, SeenBy
  <2>3. CASE \E action \in RemovedBy(r, key) : Verified(r, action)
    BY <1>3, <2>2, <2>3 DEF Released
  <2>4. CASE /\ Verified(r, SeenBy(r, key))
             /\ r.latest # None
             /\ key \in DOMAIN r.latest
             /\ r.latest[key] = "absent"
    <3>1. key \in DOMAIN observation /\ observation # None
      BY <2>1 DEF Fresh, Active
    <3>2. observation[key] = "absent"
      BY <2>1, <2>4 DEF Fresh
    <3> QED  BY <1>2, <1>3, <2>2, <2>4, <3>1, <3>2 DEF Released
  <2> QED  BY <2>1, <2>3, <2>4 DEF Released
<1> QED  BY <1>3, <1>8 DEF Quiet, Unreleased

LEMMA ReconciledIsAllowed ==
  ASSUME NEW d, NEW r, NEW q, NEW observation, Sound(r, d), q = Reconciled(r, observation), Fresh(observation, r)
  PROVE  Sound(q, d) /\ Allowed(r, q)
<1>1. Shaped(r, d) /\ IsConsistent(r) /\ Typed(r)
  BY DEF Sound
<1>2. /\ Advances(r, q) /\ Shaped(q, d) /\ DOMAIN q = Fields
      /\ q.latest = observation /\ q.implicit \in BOOLEAN /\ (r.implicit => q.implicit)
      /\ \A i \in DOMAIN r.steps : q.steps[i].returned = r.steps[i].returned
  BY ReconciledSteps
<1>3. Keeps(r, q, {"steps", "latest", "implicit"})
  BY ReconciledSteps
<1>4. /\ \A field \in {"id", "previous", "reuse", "key", "removals", "health", "successor", "abandoned"} :
           q[field] = r[field]
      /\ q.reuse = r.reuse
  BY <1>3 DEF Fields, Keeps
<1>5. Discovered(q) /\ (Quiet(r) => Quiet(q))
  BY ReconciledDiscovers, ReconciledIsQuiet
<1>6. Coherent(q.latest) /\ q.latest # None
  BY <1>2 DEF Fresh
<1>7. ObservedKnown(q)
  <2>1. \A action : Returned(r, action) => Returned(q, action)
    BY <1>1, <1>2, AdvancesStates
  <2>2. Resources(r) \subseteq Resources(q)
    BY <1>2, <1>4, <2>1 DEF Resources
  <2>3. DOMAIN observation \subseteq Resources(r) \cup {"implicit"}
    BY DEF Fresh, Active
  <2> QED  BY <1>2, <2>2, <2>3 DEF ObservedKnown
<1>8. r.abandoned => \A i \in DOMAIN r.steps : q.steps[i].returned => r.steps[i].returned
  BY <1>2
<1> QED  BY <1>2, <1>4, <1>5, <1>6, <1>7, <1>8, ProgressAllowed

(* What the last step is after the observation.                              *)
LEMMA ReconciledEnds ==
  ASSUME NEW d, NEW r, NEW q, NEW observation, Sound(r, d), q = Reconciled(r, observation), r.steps # <<>>
  PROVE  /\ q.steps # <<>>
         /\ Matches(q, observation) => StateOf(LastStep(q)) # "returned"
         /\ Matches(r, observation) /\ LastStep(r).returned => StateOf(LastStep(q)) = "verified"
<1>1. Shaped(r, d) /\ IsConsistent(r)
  BY DEF Sound
<1>2. /\ IF Matches(r, observation) /\ r.steps # <<>> /\ StateOf(LastStep(r)) = "returned"
         THEN q.steps # <<>> /\ StateOf(LastStep(q)) = "verified"
         ELSE q.steps = r.steps
      /\ q.implicit <=> r.implicit \/ (Matches(r, observation) /\ "implicit" \in DOMAIN observation)
      /\ Keeps(r, q, {"steps", "latest", "implicit"})
  BY ReconciledSteps
<1>3. q.steps # <<>> /\ (StateOf(LastStep(r)) = "verified" => StateOf(LastStep(q)) = "verified")
  BY <1>2 DEF LastStep
<1>4. LastStep(r).returned => StateOf(LastStep(r)) \in {"returned", "verified"}
  <2>1. Len(r.steps) \in DOMAIN r.steps
    BY <1>1, SeqFacts DEF Shaped
  <2>2. WellFormed(LastStep(r))
    BY <1>1, <2>1 DEF LastStep, IsConsistent
  <2> QED  BY <2>2 DEF StateOf, WellFormed
<1>5. ASSUME Matches(q, observation), StateOf(LastStep(q)) = "returned"
      PROVE  FALSE
  <2>1. q.steps = r.steps /\ ~Matches(r, observation)
    BY <1>2, <1>5 DEF LastStep
  <2>2. q.implicit <=> r.implicit
    BY <1>2, <2>1
  <2>3. q.id = r.id /\ q.reuse = r.reuse /\ q.successor = r.successor
    BY <1>2 DEF Keeps, Fields
  <2>4. \A action : Returned(q, action) <=> Returned(r, action)
    BY <2>1, SameSteps
  <2>5. Resources(q) = Resources(r)
    BY <2>2, <2>3, <2>4 DEF Resources
  <2>6. Active(q) = Active(r)
    BY <2>3, <2>5 DEF Active, HandedOff
  <2>7. \A key : Present(q, key) <=> Present(r, key)
    BY <2>4 DEF Present, RemovedBy
  <2>8. Launching(q) <=> Launching(r)
    BY <2>2, <2>6, <2>7 DEF Launching
  <2>9. Expectation(q) = Expectation(r)
    BY <2>6, <2>7, <2>8 DEF Expectation
  <2> QED  BY <1>5, <2>1, <2>9 DEF Matches
<1> QED  BY <1>2, <1>3, <1>4, <1>5

LEMMA ObservedIsFresh ==
  ASSUME NEW d, NEW r, Sound(r, d), Sees(r, d)
  PROVE  Fresh(Observe(r), r)
<1> DEFINE implicit == IF Launching(r) /\ Seen(r, "run-instances") = "present" THEN {"implicit"} ELSE {}
           S == Active(r) \cup implicit
<1>1. PICK observation : observation = Observe(r)
  OBVIOUS
<1>2. Shaped(r, d) /\ IsSeq(r.steps) /\ r.id = d /\ Discovered(r) /\ Typed(r)
  BY DEF Sound, IsConsistent, Shaped
<1>3. DOMAIN observation = S /\ \A key \in S : observation[key] = Seen(r, key)
  BY <1>1 DEF Observe
<1>4. /\ Active(r) \subseteq Resources(r) /\ Resources(r) \ RETAINED \subseteq Active(r)
      /\ Resources(r) \subseteq RESOURCES \cup {"implicit"}
  BY DEF Active, Resources, RETAINED, RESOURCES
<1>5. "run-instances" \in RESOURCES \cap Included /\ "run-instances" \notin RETAINED
      /\ "implicit" \notin RETAINED \cup RESOURCES
      /\ Parent("implicit") = "run-instances" /\ Parent("run-instances") = "run-instances"
  BY IncludedAssumption DEF RESOURCES, RETAINED, Parent
<1>6. observation # None
  <2>1. \A key : Seen(r, key) \in {"present", "absent", "changed"}
    BY DEF Seen
  <2>2. S \in SUBSET (RESOURCES \cup {"implicit"})
    BY <1>4
  <2> HIDE DEF S
  <2>3. observation \in [S -> {"present", "absent", "changed"}]
    <3>1. observation = [key \in S |-> Seen(r, key)]
      BY <1>1 DEF Observe, S
    <3> QED  BY <2>1, <3>1
  <2> QED  BY <2>2, <2>3, NoneAssumption
<1>7. Active(r) \subseteq DOMAIN observation /\ DOMAIN observation \subseteq Active(r) \cup {"implicit"}
  BY <1>3
<1>8. "implicit" \in DOMAIN observation => "run-instances" \in DOMAIN observation
  <2>1. ASSUME "implicit" \in DOMAIN observation
        PROVE  "run-instances" \in Active(r)
    <3>1. CASE Launching(r)
      BY <3>1 DEF Launching
    <3>2. CASE ~Launching(r)
      <4>1. r.implicit
        BY <1>3, <1>5, <2>1, <3>2 DEF Active, Resources
      <4>2. Verified(r, "run-instances")
        BY <1>2, <4>1 DEF Discovered, Typed
      <4>3. StepOf(r, "run-instances") \in DOMAIN r.steps
        BY <1>2, <4>2, StepOfFound DEF Verified
      <4>4. Returned(r, "run-instances")
        BY <4>2, <4>3 DEF Sound, IsConsistent, WellFormed, Verified, Returned
      <4> QED  BY <1>5, <4>4 DEF Active, Resources
    <3> QED  BY <3>1, <3>2
  <2> QED  BY <1>7, <2>1
<1>9. /\ KeyId(r, "implicit") = KeyId(r, "run-instances")
      /\ \A key : Seen(r, key) = "absent" <=> ~Alive(KeyId(r, key))
  <2>1. KeyId(r, "implicit") = KeyId(r, "run-instances")
    BY <1>5 DEF KeyId, RETAINED
  <2> QED  BY <2>1 DEF Seen
<1>10. Coherent(observation)
  BY <1>3, <1>8, <1>9 DEF Coherent
<1>11. ASSUME r.latest # None, NEW key \in RESOURCES \ RETAINED, key \in Resources(r), key \in DOMAIN r.latest,
              r.latest[key] = "absent"
       PROVE  Seen(r, key) = "absent"
  <2>1. Traceless(d, StepOf(r, key))
    BY <1>11 DEF Sees, Absences, Owned
  <2>2. KeyId(r, key) = <<d, StepOf(r, key)>>
    BY <1>2, <1>5, <1>11 DEF KeyId, Parent, RETAINED
  <2> QED  BY <1>9, <2>1, <2>2 DEF Traceless, Traces, Alive
<1>12. ASSUME r.latest # None, NEW key \in DOMAIN r.latest \cap (Resources(r) \ RETAINED), r.latest[key] = "absent"
       PROVE  observation[key] = "absent"
  <2>1. key \in S
    BY <1>4, <1>12
  <2>2. CASE key # "implicit"
    <3>1. key \in RESOURCES \ RETAINED
      BY <1>4, <1>12, <2>2
    <3> QED  BY <1>3, <1>11, <1>12, <2>1, <3>1
  <2>3. CASE key = "implicit"
    <3>1. "run-instances" \in DOMAIN r.latest /\ r.latest["run-instances"] = "absent"
      BY <1>2, <1>12, <2>3 DEF Typed, Coherent
    <3>2. "run-instances" \in Resources(r)
      BY <1>4, <1>5, <1>8, <1>3, <2>1, <2>3, <1>7
    <3>3. Seen(r, "run-instances") = "absent"
      BY <1>5, <1>11, <1>12, <3>1, <3>2
    <3> QED  BY <1>3, <1>9, <2>1, <2>3, <3>3
  <2> QED  BY <2>2, <2>3
<1>13. Fresh(observation, r)
  BY <1>6, <1>7, <1>10, <1>12 DEF Fresh
<1> QED  BY <1>1, <1>13

LEMMA FreshStays ==
  ASSUME NEW r, NEW q, NEW observation, Keeps(r, q, {"termination"}), Fresh(observation, r)
  PROVE  Fresh(observation, q)
<1>1. /\ q.id = r.id /\ q.reuse = r.reuse /\ q.steps = r.steps /\ q.implicit = r.implicit /\ q.latest = r.latest
      /\ q.successor = r.successor
  BY DEF Keeps, Fields
<1>2. \A field \in {"id", "reuse", "steps", "implicit", "latest"} : q[field] = r[field]
  BY <1>1
<1>3. Resources(q) = Resources(r)
  BY <1>2, SameResources
<1>4. Active(q) = Active(r)
  BY <1>1, <1>3 DEF Active, HandedOff
<1> QED  BY <1>1, <1>3, <1>4 DEF Fresh

-----------------------------------------------------------------------------
(* The record that fences another step.                                     *)

IsNew(step) ==
  /\ IsStep(step)
  /\ step.returned = FALSE /\ step.verified = FALSE /\ step.outcome = "none"
Appended(r, q, step) ==
  /\ DOMAIN q = Fields
  /\ Keeps(r, q, {"steps", "removals", "termination"})
  /\ q.steps = Append(r.steps, step) /\ q.removals = step.removal /\ q.termination = "unconfirmed"
InOrder(r) ==
  \A i \in CreationsOf(r) :
    \E p \in CreationPlan(r) :
      r.steps[i].action = CREATIONS[p] /\ Rank(CreationPlan(r), p) = Rank(CreationsOf(r), i)

LEMMA StepIsNew ==
  ASSUME NEW action, NEW removal
  PROVE  /\ IsNew(Step(action, removal))
         /\ Step(action, removal).action = action /\ Step(action, removal).removal = removal
  BY DEF IsNew, IsStep, Step

LEMMA NewIsOpen ==
  ASSUME NEW step, IsNew(step)
  PROVE  StateOf(step) = "open" /\ WellFormed(step) /\ ~Declined(step)
  BY DEF IsNew, StateOf, WellFormed, Declined

LEMMA StepOfSome ==
  ASSUME NEW r, IsSeq(r.steps), NEW action, NEW i \in DOMAIN r.steps, r.steps[i].action = action
  PROVE  StepOf(r, action) # 0
<1> DEFINE I == {j \in 1..Len(r.steps) : r.steps[j].action = action}
<1>1. Len(r.steps) \in Nat /\ DOMAIN r.steps = 1..Len(r.steps)
  BY SeqFacts
<1>2. I # {} /\ I \in SUBSET (1..Len(r.steps))
  BY <1>1
<1>3. Max(I) \in I
  <2> HIDE DEF I
  <2> QED  BY <1>1, <1>2, GreatestOf
<1>4. StepOf(r, action) = Max(I)
  BY <1>2 DEF StepOf, SelectLastInSeq
<1> QED  BY <1>1, <1>3, <1>4

LEMMA AppendedSteps ==
  ASSUME NEW d, NEW r, NEW q, NEW step, Sound(r, d), Appended(r, q, step), IsNew(step)
  PROVE  /\ Shaped(q, d) /\ Len(r.steps) \in Nat
         /\ DOMAIN r.steps = 1..Len(r.steps)
         /\ Len(q.steps) = Len(r.steps) + 1
         /\ DOMAIN q.steps = 1..(Len(r.steps) + 1)
         /\ \A i \in DOMAIN r.steps : q.steps[i] = r.steps[i]
         /\ q.steps[Len(r.steps) + 1] = step
         /\ LastStep(q) = step /\ Last(q.steps) = step /\ q.steps # <<>>
         /\ Front(q.steps) = r.steps
         /\ \A action : action # step.action => StepOf(q, action) = StepOf(r, action)
         /\ StepOf(q, step.action) = Len(r.steps) + 1
<1> DEFINE n == Len(r.steps)
<1>1. Shaped(r, d) /\ IsSeq(r.steps) /\ DOMAIN r = Fields
  BY DEF Sound, Shaped
<1>2. n \in Nat /\ DOMAIN r.steps = 1..n
  BY <1>1, SeqFacts
<1>3. q.steps = Append(r.steps, step)
  BY DEF Appended
<1>4. /\ IsSeq(q.steps) /\ Len(q.steps) = n + 1 /\ DOMAIN q.steps = 1..(n + 1)
      /\ \A i \in DOMAIN r.steps : q.steps[i] = r.steps[i]
      /\ q.steps[n + 1] = step /\ q.steps # <<>>
  BY <1>1, <1>3, SeqAdd
<1>5. Shaped(q, d)
  <2>1. q.id = r.id /\ {"id", "steps"} \subseteq DOMAIN q
    BY DEF Appended, Keeps, Fields
  <2>2. \A i \in DOMAIN q.steps : IsStep(q.steps[i])
    BY <1>1, <1>2, <1>4 DEF Shaped, IsNew
  <2> QED  BY <1>1, <1>4, <2>1, <2>2 DEF Shaped
<1>6. LastStep(q) = step /\ Last(q.steps) = step
  BY <1>4 DEF LastStep, Last
<1>7. Front(q.steps) = r.steps
  <2>1. PICK S : S = {r.steps[i] : i \in DOMAIN r.steps} \cup {step}
    OBVIOUS
  <2>2. r.steps \in Seq(S) /\ step \in S
    BY <1>1, <2>1, SeqMonotonic DEF IsSeq
  <2> QED  BY <1>3, <2>2 DEF Front
<1>8. \A action : action # step.action => StepOf(q, action) = StepOf(r, action)
  BY <1>1, <1>3, StepOfAppended
<1>9. StepOf(q, step.action) = n + 1
  <2>1. n + 1 \in DOMAIN q.steps /\ \A j \in DOMAIN q.steps : ~(j > n + 1)
    BY <1>2, <1>4
  <2> QED  BY <1>4, <2>1, StepOfLast
<1> QED  BY <1>2, <1>4, <1>5, <1>6, <1>7, <1>8, <1>9

(* Nothing that was answered or verified changes with a new step.             *)
LEMMA AppendedAnswers ==
  ASSUME NEW d, NEW r, NEW q, NEW step, Sound(r, d), Appended(r, q, step), IsNew(step),
         ~Returned(r, step.action)
  PROVE  \A action : (Returned(q, action) <=> Returned(r, action)) /\ (Verified(q, action) <=> Verified(r, action))
<1>1. IsConsistent(r) /\ IsSeq(r.steps)
  BY DEF Sound, Shaped
<1>2. /\ \A i \in DOMAIN r.steps : q.steps[i] = r.steps[i]
      /\ \A action : action # step.action => StepOf(q, action) = StepOf(r, action)
      /\ StepOf(q, step.action) = Len(r.steps) + 1 /\ q.steps[Len(r.steps) + 1] = step
  BY AppendedSteps
<1>3. ~Verified(r, step.action)
  <2>1. StepOf(r, step.action) # 0 => StepOf(r, step.action) \in DOMAIN r.steps
    BY <1>1, StepOfFound
  <2> QED  BY <1>1, <2>1 DEF Verified, Returned, IsConsistent, WellFormed
<1>4. ~Returned(q, step.action) /\ ~Verified(q, step.action)
  BY <1>2 DEF Returned, Verified, IsNew
<1>5. ASSUME NEW action, action # step.action
      PROVE  (Returned(q, action) <=> Returned(r, action)) /\ (Verified(q, action) <=> Verified(r, action))
  <2>1. StepOf(q, action) = StepOf(r, action)
    BY <1>2, <1>5
  <2>2. StepOf(r, action) # 0 => StepOf(r, action) \in DOMAIN r.steps
    BY <1>1, StepOfFound
  <2> QED  BY <1>2, <2>1, <2>2 DEF Returned, Verified
<1> QED  BY <1>3, <1>4, <1>5

(* What the rules ask of a fence, but for the order of the steps.             *)
LEMMA AppendAllowed ==
  ASSUME NEW d, NEW r, NEW q, NEW step, Sound(r, d), Appended(r, q, step), IsNew(step),
         ~r.abandoned, r.key, ~Returned(r, step.action),
         step.removal - r.removals \in {0, 1}, step.removal \in Nat,
         r.steps # <<>> => Over(LastStep(r)) /\ Follows(LastStep(r), step),
         \A made \in Undoes(step.action) : Returned(r, made),
         step.removal # 0 => step.action \in Removing,
         InOrder(q), LaunchesOrdered(q), HealthRecorded(q), SuccessorRecorded(q),
         RequireNewStep(r, q)
  PROVE  Sound(q, d) /\ Allowed(r, q)
<1> DEFINE n == Len(r.steps)
<1>1. Shaped(r, d) /\ IsConsistent(r) /\ Typed(r) /\ Directed(r)
  BY DEF Sound
<1>2. /\ Shaped(q, d) /\ n \in Nat
      /\ DOMAIN r.steps = 1..n
      /\ Len(q.steps) = n + 1
      /\ DOMAIN q.steps = 1..(n + 1)
      /\ \A i \in DOMAIN r.steps : q.steps[i] = r.steps[i]
      /\ q.steps[n + 1] = step
      /\ LastStep(q) = step /\ Last(q.steps) = step /\ q.steps # <<>>
      /\ Front(q.steps) = r.steps
  BY AppendedSteps
<1>3. \A action : (Returned(q, action) <=> Returned(r, action)) /\ (Verified(q, action) <=> Verified(r, action))
  BY AppendedAnswers
<1>4. /\ DOMAIN q = Fields /\ q.removals = step.removal
      /\ \A field \in {"id", "previous", "reuse", "key", "implicit", "latest", "health", "successor", "abandoned"} :
           q[field] = r[field]
  BY DEF Appended, Keeps, Fields
<1>5. Resources(q) = Resources(r)
  <2>1. q.reuse = r.reuse /\ q.implicit = r.implicit
    BY <1>4
  <2>2. {a \in RESOURCES \cap Included : Returned(q, a)} = {a \in RESOURCES \cap Included : Returned(r, a)}
    BY <1>3
  <2> QED  BY <2>1, <2>2 DEF Resources
<1>6. r.removals \in Nat /\ (r.steps = <<>> => n = 0) /\ (r.steps # <<>> => n \in DOMAIN r.steps)
  <2>1. IsSeq(r.steps)
    BY <1>1 DEF Shaped
  <2>2. Len(r.steps) \in DOMAIN r.steps \/ r.steps = <<>>
    BY <2>1, SeqFacts
  <2> QED  BY <1>1, <2>2, EmptySteps DEF Typed
<1>7. r.removals = IF r.steps = <<>> THEN 0 ELSE LastStep(r).removal
  BY <1>1 DEF IsConsistent, InPlan, LastStep, Last
<1>8. InPlan(q)
  <2>1. ASSUME NEW i \in DOMAIN q.steps
        PROVE  q.steps[i].removal - (IF i = 1 THEN 0 ELSE q.steps[i - 1].removal) \in {0, 1}
    <3>1. CASE i \in DOMAIN r.steps
      <4>1. r.steps[i].removal - (IF i = 1 THEN 0 ELSE r.steps[i - 1].removal) \in {0, 1}
        BY <1>1, <3>1 DEF IsConsistent, InPlan
      <4>2. i # 1 => i - 1 \in DOMAIN r.steps
        BY <1>2, <3>1
      <4> QED  BY <1>2, <3>1, <4>1, <4>2
    <3>2. CASE i = n + 1
      <4>1. IF i = 1 THEN r.steps = <<>> ELSE i - 1 = n /\ r.steps # <<>>
        BY <1>2, <1>6, <3>2
      <4>2. (IF i = 1 THEN 0 ELSE q.steps[i - 1].removal) = r.removals
        BY <1>2, <1>6, <1>7, <4>1 DEF LastStep
      <4> QED  BY <1>2, <3>2, <4>2
    <3> QED  BY <1>2, <3>1, <3>2
  <2>2. q.removals = (IF q.steps = <<>> THEN 0 ELSE Last(q.steps).removal)
    BY <1>2, <1>4
  <2> QED  BY <2>1, <2>2 DEF InPlan, InOrder
<1>9. ASSUME NEW i \in DOMAIN q.steps
      PROVE  /\ WellFormed(q.steps[i]) /\ (i > 1 => Follows(q.steps[i - 1], q.steps[i]))
             /\ q.steps[i].returned \in BOOLEAN /\ q.steps[i].verified \in BOOLEAN
             /\ q.steps[i].removal \in 0..q.removals
             /\ i = Len(q.steps) \/ Over(q.steps[i])
             /\ q.steps[i].removal # 0 => q.steps[i].action \in Removing
             /\ \A made \in Undoes(q.steps[i].action) : Returned(r, made)
  <2>1. CASE i \in DOMAIN r.steps
    <3>1. q.steps[i] = r.steps[i] /\ (i > 1 => i - 1 \in DOMAIN r.steps /\ q.steps[i - 1] = r.steps[i - 1])
      BY <1>2, <2>1
    <3>2. /\ WellFormed(r.steps[i]) /\ (i > 1 => Follows(r.steps[i - 1], r.steps[i]))
          /\ r.steps[i].returned \in BOOLEAN /\ r.steps[i].verified \in BOOLEAN
          /\ r.steps[i].removal \in 0..r.removals
          /\ i = n \/ Over(r.steps[i])
          /\ r.steps[i].removal # 0 => r.steps[i].action \in Removing
          /\ \A made \in Undoes(r.steps[i].action) : Returned(r, made)
      BY <1>1, <2>1 DEF IsConsistent, Typed, Directed, Undone
    <3>3. i = n => Over(r.steps[i])
      BY <1>2, <1>6, <2>1 DEF LastStep
    <3>4. r.steps[i].removal \in 0..q.removals
      BY <1>4, <1>6, <3>2
    <3> QED  BY <3>1, <3>2, <3>3, <3>4
  <2>2. CASE i = n + 1
    <3>1. q.steps[i] = step /\ i = Len(q.steps)
      BY <1>2, <2>2
    <3>2. WellFormed(step)
      BY NewIsOpen
    <3>3. i > 1 => Follows(q.steps[i - 1], step)
      <4>1. i > 1 => r.steps # <<>> /\ i - 1 = n /\ n \in DOMAIN r.steps
        BY <1>2, <1>6, <2>2
      <4>2. i > 1 => q.steps[i - 1] = LastStep(r)
        BY <1>2, <4>1 DEF LastStep
      <4> QED  BY <4>1, <4>2
    <3>4. step.removal \in 0..q.removals
      BY <1>4
    <3> QED  BY <3>1, <3>2, <3>3, <3>4 DEF IsNew
  <2> QED  BY <1>2, <2>1, <2>2
<1>10. Keyed(q) /\ Undone(q) /\ Discovered(q) /\ ObservedKnown(q) /\ AbandonmentRecorded(q)
  <2>1. Keyed(q)
    BY <1>4 DEF Keyed
  <2>2. Undone(q)
    BY <1>3, <1>9 DEF Undone
  <2>3. Discovered(q)
    <3>1. Discovered(r) /\ q.implicit = r.implicit
      BY <1>1, <1>4 DEF IsConsistent
    <3>2. Verified(q, "run-instances") \in BOOLEAN /\ Verified(r, "run-instances") \in BOOLEAN
      <4>1. \A s : IsSeq(s.steps) /\ StepOf(s, "run-instances") # 0 => StepOf(s, "run-instances") \in DOMAIN s.steps
        BY StepOfFound
      <4>2. \A i \in DOMAIN r.steps : r.steps[i].verified \in BOOLEAN
        BY <1>1 DEF Typed
      <4>3. IsSeq(r.steps) /\ IsSeq(q.steps)
        BY <1>1, <1>2 DEF Shaped
      <4> QED  BY <1>9, <4>1, <4>2, <4>3 DEF Verified
    <3> QED  BY <1>3, <3>1, <3>2 DEF Discovered
  <2>4. ObservedKnown(q)
    BY <1>1, <1>4, <1>5 DEF ObservedKnown, IsConsistent
  <2>5. AbandonmentRecorded(q)
    BY <1>4 DEF AbandonmentRecorded
  <2> QED  BY <2>1, <2>2, <2>3, <2>4, <2>5
<1>11. IsConsistent(q)
  BY <1>8, <1>9, <1>10 DEF IsConsistent
<1>12. Typed(q) /\ Directed(q)
  <2>1. q.removals \in Nat /\ q.implicit \in BOOLEAN /\ (q.latest # None => Coherent(q.latest))
    BY <1>1, <1>4 DEF Typed
  <2> QED  BY <1>9, <2>1 DEF Typed, Directed
<1>13. RequireTransition(r, q)
  <2>1. RequireFixedFields(r, q) /\ RequireAdminKey(r, q) /\ RequireHealth(r, q) /\ RequireSuccessor(r, q)
        /\ RequireAbandonment(r, q)
    BY <1>4 DEF RequireFixedFields, RequireAdminKey, RequireHealth, RequireSuccessor, RequireAbandonment
  <2>2. RequireSteps(r, q)
    BY <1>2 DEF RequireSteps
  <2>3. RequireRemovals(r, q)
    BY <1>2, <1>4, <1>6 DEF RequireRemovals
  <2>4. RequireObservations(r, q) /\ RequireImplicit(r, q)
    BY <1>4 DEF RequireObservations, RequireImplicit
  <2> QED  BY <2>1, <2>2, <2>3, <2>4 DEF RequireTransition
<1> QED  BY <1>2, <1>4, <1>11, <1>12, <1>13 DEF Sound, Allowed

CreationsAfter(r, q) ==
  (CreationsOf(r) \ {i \in DOMAIN r.steps : i = Len(r.steps) /\ Declined(r.steps[i])}) \cup {Len(r.steps) + 1}
NextRank(r) ==
  IF r.steps # <<>> /\ Declined(LastStep(r)) THEN Cardinality(CreationsOf(r)) ELSE Cardinality(CreationsOf(r)) + 1

(* The place of the creation that is due.                                    *)
LEMMA DueCreation ==
  ASSUME NEW r, NextCreation(r) # None
  PROVE  \E p \in CreationPlan(r) : NextCreation(r) = CREATIONS[p] /\ Rank(CreationPlan(r), p) = NextRank(r)
  BY DEF NextCreation, NextRank, Last, LastStep

(* The creations of a record, counted.                                       *)
LEMMA CreationsCounted ==
  ASSUME NEW d, NEW r, Sound(r, d)
  PROVE  /\ IsFiniteSet(CreationsOf(r)) /\ Cardinality(CreationsOf(r)) \in Nat
         /\ CreationsOf(r) \in SUBSET (1..Len(r.steps)) /\ Len(r.steps) \in Nat
         /\ \A i \in CreationsOf(r) :
              Rank(CreationsOf(r), i) \in Nat /\ Rank(CreationsOf(r), i) <= Cardinality(CreationsOf(r))
         /\ Len(r.steps) \in CreationsOf(r) => Rank(CreationsOf(r), Len(r.steps)) = Cardinality(CreationsOf(r))
<1> DEFINE C == CreationsOf(r)
           n == Len(r.steps)
<1>1. n \in Nat /\ DOMAIN r.steps = 1..n
  BY SeqFacts DEF Sound, Shaped
<1>2. C \in SUBSET (1..n)
  BY <1>1 DEF CreationsOf
<1> HIDE DEF C
<1>3. IsFiniteSet(C) /\ Cardinality(C) \in Nat
  <2>1. IsFiniteSet(1..n)
    BY <1>1, FS_Interval
  <2>2. IsFiniteSet(C)
    BY <1>2, <2>1, FS_Subset
  <2> QED  BY <2>2, FS_CardinalityType
<1>4. ASSUME NEW i \in C
      PROVE  Rank(C, i) \in Nat /\ Rank(C, i) <= Cardinality(C)
  <2>1. {q \in C : q <= i} \subseteq C
    OBVIOUS
  <2>2. IsFiniteSet({q \in C : q <= i}) /\ Cardinality({q \in C : q <= i}) <= Cardinality(C)
    BY <1>3, <2>1, FS_Subset
  <2>3. Cardinality({q \in C : q <= i}) \in Nat
    BY <2>2, FS_CardinalityType
  <2> QED  BY <2>2, <2>3 DEF Rank
<1>5. {q \in C : q <= n} = C
  <2>1. \A q \in C : q <= n
    BY <1>1, <1>2
  <2> QED  BY <2>1
<1>6. Rank(C, n) = Cardinality(C)
  BY <1>5 DEF Rank
<1> QED  BY <1>1, <1>2, <1>3, <1>4, <1>6 DEF C

LEMMA AppendedCreations ==
  ASSUME NEW d, NEW r, NEW q, NEW step, Sound(r, d), Appended(r, q, step), IsNew(step),
         step.removal = 0, r.removals = 0,
         r.steps # <<>> /\ Declined(LastStep(r)) => step.action = "run-instances"
  PROVE  /\ CreationsOf(q) = CreationsAfter(r, q)
         /\ Rank(CreationsOf(q), Len(r.steps) + 1) = NextRank(r)
         /\ \A i \in CreationsOf(q) : i # Len(r.steps) + 1 => i \in CreationsOf(r) /\ Rank(CreationsOf(q), i) = Rank(CreationsOf(r), i)
<1> DEFINE C == CreationsOf(r)
           n == Len(r.steps)
           D == {i \in DOMAIN r.steps : i = Len(r.steps) /\ Declined(r.steps[i])}
<1>1. /\ n \in Nat /\ DOMAIN r.steps = 1..n /\ DOMAIN q.steps = 1..(n + 1)
      /\ \A i \in DOMAIN r.steps : q.steps[i] = r.steps[i]
      /\ q.steps[n + 1] = step
  BY AppendedSteps
<1>2. \A i \in DOMAIN r.steps : r.steps[i].removal = 0
  BY CreationStep
<1>3. n # 0 => r.steps # <<>> /\ n \in DOMAIN r.steps
  BY <1>1, EmptySteps
<1>4. D = {} \/ (n # 0 /\ D = {n} /\ Declined(LastStep(r)))
  BY <1>1 DEF LastStep
<1>5. CreationsOf(q) = (C \ D) \cup {n + 1}
  <2>1. ASSUME NEW i \in DOMAIN r.steps, i # n
        PROVE  i \in CreationsOf(q) <=> i \in C
    <3>1. i + 1 \in DOMAIN r.steps /\ q.steps[i] = r.steps[i] /\ q.steps[i + 1] = r.steps[i + 1]
          /\ i \in DOMAIN q.steps /\ i + 1 \in DOMAIN q.steps
      BY <1>1, <2>1
    <3> QED  BY <3>1 DEF CreationsOf
  <2>2. ASSUME n # 0
        PROVE  n \in CreationsOf(q) <=> ~Declined(LastStep(r))
    <3>1. n \in DOMAIN q.steps /\ n + 1 \in DOMAIN q.steps /\ q.steps[n] = LastStep(r) /\ q.steps[n].removal = 0
      BY <1>1, <1>2, <1>3, <2>2 DEF LastStep
    <3>2. Declined(LastStep(r)) => q.steps[n + 1].action = "run-instances"
      BY <1>1, <1>3, <2>2
    <3> QED  BY <3>1, <3>2 DEF CreationsOf
  <2>3. n # 0 => n \in C
    BY <1>1, <1>2, <1>3 DEF CreationsOf
  <2>4. n + 1 \in CreationsOf(q)
    <3>1. n + 1 \in DOMAIN q.steps /\ ~(n + 1 + 1 \in DOMAIN q.steps)
      BY <1>1
    <3> QED  BY <1>1, <3>1 DEF CreationsOf
  <2>5. CreationsOf(q) \subseteq 1..(n + 1) /\ C \subseteq 1..n
    BY <1>1 DEF CreationsOf
  <2>6. \A i \in 1..(n + 1) : i \in CreationsOf(q) <=> i \in (C \ D) \cup {n + 1}
    <3>1. ASSUME NEW i \in 1..(n + 1)
          PROVE  i \in CreationsOf(q) <=> i \in (C \ D) \cup {n + 1}
      <4>1. CASE i = n + 1
        BY <2>4, <4>1
      <4>2. CASE i = n /\ n # 0
        BY <1>1, <1>3, <1>4, <2>2, <2>3, <4>2 DEF LastStep
      <4>3. CASE i \in 1..n /\ i # n
        BY <1>1, <2>1, <4>3
      <4> QED  BY <1>1, <3>1, <4>1, <4>2, <4>3
    <3> QED  BY <3>1
  <2>7. (C \ D) \cup {n + 1} \subseteq 1..(n + 1)
    BY <1>1, <2>5
  <2> QED  BY <2>5, <2>6, <2>7
<1>6. IsFiniteSet(C) /\ Cardinality(C) \in Nat /\ C \in SUBSET (1..n)
  BY CreationsCounted
<1>7. n # 0 => n \in C
  BY <1>1, <1>2, <1>3 DEF CreationsOf
<1>10. D \subseteq C /\ D \subseteq DOMAIN r.steps
  BY <1>1, <1>4, <1>7
<1> HIDE DEF C, D
<1>8. Rank(CreationsOf(q), n + 1) = NextRank(r)
  <2>1. {x \in CreationsOf(q) : x <= n + 1} = (C \ D) \cup {n + 1}
    <3>1. \A x \in CreationsOf(q) : x <= n + 1
      <4>1. \A x \in C : x <= n + 1
        BY <1>1, <1>6
      <4>2. n + 1 <= n + 1
        BY <1>1
      <4> QED  BY <1>5, <4>1, <4>2
    <3> QED  BY <1>5, <3>1
  <2>2. IsFiniteSet(C \ D) /\ n + 1 \notin C \ D
    <3>1. C \ D \subseteq C /\ n + 1 \notin C
      BY <1>1, <1>6
    <3> QED  BY <1>6, <3>1, FS_Subset
  <2>3. Cardinality((C \ D) \cup {n + 1}) = Cardinality(C \ D) + 1
    BY <2>2, FS_AddElement
  <2>4. CASE D = {}
    <3>1. ~(r.steps # <<>> /\ Declined(LastStep(r)))
      <4>1. r.steps # <<>> => n \in DOMAIN r.steps
        BY SeqFacts DEF Sound, Shaped
      <4> QED  BY <2>4, <4>1 DEF LastStep, D
    <3>2. C \ D = C
      BY <2>4
    <3> QED  BY <2>1, <2>3, <3>1, <3>2 DEF Rank, NextRank, C
  <2>5. CASE n # 0 /\ D = {n} /\ Declined(LastStep(r))
    <3>1. Cardinality(C \ {n}) = Cardinality(C) - 1
      BY <1>6, <1>7, <2>5, FS_RemoveElement
    <3>2. r.steps # <<>>
      BY <1>3, <2>5
    <3>3. NextRank(r) = Cardinality(C)
      BY <2>5, <3>2 DEF NextRank, C
    <3>4. Cardinality((C \ D) \cup {n + 1}) = Cardinality(C)
      BY <1>6, <2>3, <2>5, <3>1
    <3> QED  BY <2>1, <3>3, <3>4 DEF Rank
  <2> QED  BY <1>4, <2>4, <2>5
<1>9. ASSUME NEW i \in CreationsOf(q), i # n + 1
      PROVE  i \in C /\ Rank(CreationsOf(q), i) = Rank(C, i)
  <2>1. i \in C /\ i \notin D /\ i \in 1..n
    BY <1>5, <1>6, <1>9
  <2>2. i \in Nat /\ (D = {n} /\ n # 0 => i < n)
    BY <1>1, <2>1
  <2>3. \A x : x \in CreationsOf(q) /\ x <= i <=> x \in C /\ x <= i
    <3>1. ~(n + 1 <= i) /\ \A x \in D : ~(x <= i)
      BY <1>1, <1>4, <2>1, <2>2
    <3> QED  BY <1>5, <3>1
  <2>4. {x \in CreationsOf(q) : x <= i} = {x \in C : x <= i}
    BY <2>3
  <2> QED  BY <2>1, <2>4 DEF Rank
<1> QED  BY <1>5, <1>8, <1>9 DEF CreationsAfter, C, D

(* What is known of the creation that is due.                                *)
LEMMA CreationIsDue ==
  ASSUME NEW d, NEW r, NEW a, Sound(r, d), r.removals = 0, a = NextCreation(r), a # None
  PROVE  /\ a \notin Removing /\ Undoes(a) = {} /\ ~Returned(r, a)
         /\ r.steps # <<>> /\ Declined(LastStep(r)) => a = "run-instances"
         /\ a = "run-instances" => Launches(r) = {} \/ (r.steps # <<>> /\ Declined(LastStep(r)))
<1> DEFINE n == Len(r.steps)
           S == CreationPlan(r)
           C == CreationsOf(r)
           again == r.steps # <<>> /\ Declined(LastStep(r))
<1>1. PICK p \in S : a = CREATIONS[p] /\ Rank(S, p) = NextRank(r)
  BY DueCreation
<1>2. IsConsistent(r) /\ IsSeq(r.steps) /\ n \in Nat /\ DOMAIN r.steps = 1..n
  BY SeqFacts DEF Sound, Shaped
<1>3. /\ Cardinality(C) \in Nat
      /\ \A i \in C : Rank(C, i) \in Nat /\ Rank(C, i) <= Cardinality(C)
      /\ n \in C => Rank(C, n) = Cardinality(C)
  BY CreationsCounted
<1>4. S \in SUBSET (1..15) /\ \A x \in 1..15 : \A y \in 1..15 : CREATIONS[x] = CREATIONS[y] => x = y
  BY CreationsRemoveNothing DEF CreationPlan, Creations
<1>5. a \notin Removing /\ Undoes(a) = {}
  BY <1>1, <1>4, CreationsRemoveNothing
<1>6. \A i \in C : \E x \in S : r.steps[i].action = CREATIONS[x] /\ Rank(S, x) = Rank(C, i)
  BY <1>2 DEF IsConsistent, InPlan
<1>7. r.steps # <<>> => n \in DOMAIN r.steps /\ n \in C
  <2>1. ASSUME r.steps # <<>>
        PROVE  n \in DOMAIN r.steps /\ n \in C
    <3>1. n \in DOMAIN r.steps
      BY <1>2, <2>1, SeqFacts
    <3>2. r.steps[n].removal = 0 /\ n + 1 \notin DOMAIN r.steps
      BY <1>2, <3>1, CreationStep
    <3> QED  BY <3>1, <3>2, CreationStep
  <2> QED  BY <2>1
<1>8. again => a = "run-instances"
  <2>1. ASSUME again
        PROVE  a = "run-instances"
    <3>1. PICK x \in S : r.steps[n].action = CREATIONS[x] /\ Rank(S, x) = Rank(C, n)
      BY <1>6, <1>7, <2>1
    <3>2. Rank(S, x) = Rank(S, p)
      BY <1>1, <1>3, <1>7, <2>1, <3>1 DEF NextRank
    <3>3. x = p
      <4>1. x \in 1..15 /\ p \in 1..15 /\ 15 \in Nat
        BY <1>1, <1>4, <3>1
      <4>2. ~(x < p) /\ ~(p < x)
        BY <1>1, <1>4, <3>1, <3>2, <4>1, RankIncreases
      <4> QED  BY <4>1, <4>2
    <3> QED  BY <1>1, <2>1, <3>1, <3>3 DEF Declined, LastStep
  <2> QED  BY <2>1
<1>9. ASSUME NEW i \in C, r.steps[i].action = a
      PROVE  again
  <2>1. PICK x \in S : r.steps[i].action = CREATIONS[x] /\ Rank(S, x) = Rank(C, i)
    BY <1>6, <1>9
  <2>2. x = p
    BY <1>1, <1>4, <1>9, <2>1
  <2>3. NextRank(r) <= Cardinality(C)
    BY <1>1, <1>3, <1>9, <2>1, <2>2
  <2> QED  BY <1>3, <2>3 DEF NextRank
<1>10. ASSUME NEW i \in DOMAIN r.steps, r.steps[i].action = a, StepOf(r, a) = i
       PROVE  i \in C
  <2>1. i \in C \/ (Declined(r.steps[i]) /\ i + 1 \in DOMAIN r.steps /\ i + 1 \in Launches(r))
    BY <1>10, CreationStep
  <2>2. CASE Declined(r.steps[i]) /\ i + 1 \in DOMAIN r.steps /\ i + 1 \in Launches(r)
    <3>1. r.steps[i + 1].action = a /\ i + 1 > i
      BY <1>2, <1>10, <2>2 DEF Launches, Declined
    <3>2. \A j \in DOMAIN r.steps : j > i => r.steps[j].action # a
      <4>1. StepOf(r, a) # 0
        BY <1>2, <1>10
      <4> QED  BY <1>2, <1>10, <4>1, StepOfFound
    <3> QED  BY <2>2, <3>1, <3>2
  <2> QED  BY <2>1, <2>2
<1>11. ASSUME StepOf(r, a) # 0
       PROVE  /\ StepOf(r, a) \in DOMAIN r.steps /\ again /\ ~r.steps[StepOf(r, a)].returned
  <2>1. PICK i : i = StepOf(r, a)
    OBVIOUS
  <2>2. i \in DOMAIN r.steps /\ r.steps[i].action = a /\ \A j \in DOMAIN r.steps : j > i => r.steps[j].action # a
    BY <1>2, <1>11, <2>1, StepOfFound
  <2>3. i \in C
    BY <1>10, <2>1, <2>2
  <2>4. again
    BY <1>9, <2>2, <2>3
  <2>5. a = "run-instances" /\ r.steps[n].action = a /\ n \in DOMAIN r.steps
    BY <1>7, <1>8, <2>4 DEF Declined, LastStep
  <2>6. i = n
    BY <1>2, <2>2, <2>5
  <2>7. ~r.steps[n].returned
    BY <1>2, <2>4, <2>5 DEF Declined, LastStep, IsConsistent, WellFormed
  <2> QED  BY <2>1, <2>2, <2>4, <2>6, <2>7
<1>12. ~Returned(r, a)
  BY <1>11 DEF Returned
<1>13. a = "run-instances" => Launches(r) = {} \/ again
  <2>1. ASSUME a = "run-instances", NEW i \in Launches(r)
        PROVE  again
    <3>1. StepOf(r, a) # 0
      BY <1>2, <2>1, StepOfSome DEF Launches
    <3> QED  BY <1>11, <3>1
  <2> QED  BY <2>1
<1> QED  BY <1>5, <1>8, <1>12, <1>13

LEMMA AppendedLaunches ==
  ASSUME NEW d, NEW r, NEW q, NEW step, Sound(r, d), Appended(r, q, step), IsNew(step),
         step.action = "run-instances" =>
           /\ Launches(r) = {} \/ (r.steps # <<>> /\ Declined(LastStep(r)))
           /\ Cardinality(Launches(r)) < Slots(r)
  PROVE  LaunchesOrdered(q)
<1> DEFINE n == Len(r.steps)
<1>1. /\ n \in Nat /\ DOMAIN r.steps = 1..n /\ DOMAIN q.steps = 1..(n + 1)
      /\ \A i \in DOMAIN r.steps : q.steps[i] = r.steps[i]
      /\ q.steps[n + 1] = step
  BY AppendedSteps
<1>2. LaunchesOrdered(r)
  BY DEF Sound, IsConsistent
<1>3. Slots(q) = Slots(r)
  BY DEF Appended, Keeps, Fields, Slots
<1>4. Launches(r) \in SUBSET (1..n) /\ IsFiniteSet(Launches(r)) /\ Cardinality(Launches(r)) \in Nat
  <2>1. IsFiniteSet(1..n) /\ Launches(r) \subseteq 1..n
    BY <1>1, FS_Interval DEF Launches
  <2>2. IsFiniteSet(Launches(r))
    BY <2>1, FS_Subset
  <2> QED  BY <2>1, <2>2, FS_CardinalityType
<1>5. CASE step.action # "run-instances"
  <2>1. Launches(q) = Launches(r)
    BY <1>1, <1>5 DEF Launches
  <2>2. \A i \in Launches(r) : Declined(q.steps[i]) <=> Declined(r.steps[i])
    BY <1>1 DEF Launches
  <2> QED  BY <1>2, <1>3, <2>1, <2>2 DEF LaunchesOrdered
<1>6. CASE step.action = "run-instances"
  <2>1. Launches(q) = Launches(r) \cup {n + 1} /\ n + 1 \notin Launches(r)
    <3>1. n + 1 \notin DOMAIN r.steps
      BY <1>1
    <3>2. \A i \in DOMAIN q.steps : i \in DOMAIN r.steps \/ i = n + 1
      BY <1>1
    <3>3. DOMAIN r.steps \subseteq DOMAIN q.steps /\ n + 1 \in DOMAIN q.steps
      BY <1>1
    <3> QED  BY <1>1, <1>6, <3>1, <3>2, <3>3 DEF Launches
  <2>2. Slots(r) \in Nat
    BY SlotAssumption DEF Slots
  <2>3. Cardinality(Launches(q)) = Cardinality(Launches(r)) + 1
    BY <1>4, <2>1, FS_AddElement
  <2>4. Cardinality(Launches(q)) <= Slots(q)
    BY <1>3, <1>4, <1>6, <2>2, <2>3
  <2>5. ASSUME NEW i \in Launches(q), NEW j \in Launches(q), j > i
        PROVE  Declined(q.steps[i])
    <3>1. i \in Launches(r) /\ i \in DOMAIN r.steps /\ q.steps[i] = r.steps[i] /\ i \in 1..n
      BY <1>1, <1>4, <2>1, <2>5
    <3>2. r.steps # <<>> /\ Declined(LastStep(r)) /\ n \in DOMAIN r.steps
      BY <1>1, <1>6, <3>1 DEF LastStep
    <3>3. CASE i = n
      BY <3>1, <3>2, <3>3 DEF LastStep
    <3>4. CASE i # n
      <4>1. n \in Launches(r) /\ n > i
        BY <1>1, <3>1, <3>2, <3>4 DEF Launches, Declined, LastStep
      <4> QED  BY <1>2, <3>1, <4>1 DEF LaunchesOrdered
    <3> QED  BY <3>3, <3>4
  <2> QED  BY <2>4, <2>5 DEF LaunchesOrdered
<1> QED  BY <1>5, <1>6

LEMMA CreationAllowed ==
  ASSUME NEW d, NEW r, NEW q, NEW a, Sound(r, d), a = NextCreation(r), a # None, Appended(r, q, Step(a, 0)),
         r.removals = 0, ~r.abandoned, r.key, ~r.health, r.successor = None, r.termination = "confirmed",
         r.steps # <<>> =>
           \/ StateOf(LastStep(r)) = "verified"
           \/ Declined(LastStep(r)) /\ Cardinality(Launches(r)) < Slots(r)
  PROVE  Sound(q, d) /\ Allowed(r, q)
<1>1. PICK step : step = Step(a, 0)
  OBVIOUS
<1>2. IsNew(step) /\ step.action = a /\ step.removal = 0
  BY <1>1, StepIsNew
<1>3. Appended(r, q, step)
  BY <1>1
<1>4. /\ a \notin Removing /\ Undoes(a) = {} /\ ~Returned(r, a)
      /\ r.steps # <<>> /\ Declined(LastStep(r)) => a = "run-instances"
      /\ a = "run-instances" => Launches(r) = {} \/ (r.steps # <<>> /\ Declined(LastStep(r)))
  BY CreationIsDue
<1>5. PICK p \in CreationPlan(r) : a = CREATIONS[p] /\ Rank(CreationPlan(r), p) = NextRank(r)
  BY DueCreation
<1>6. r.steps # <<>> => Over(LastStep(r)) /\ Follows(LastStep(r), step)
  BY <1>2, <1>4 DEF Over, Follows, Declined, StateOf
<1>7. /\ \A i \in DOMAIN r.steps : q.steps[i] = r.steps[i]
      /\ q.steps[Len(r.steps) + 1] = step /\ Last(q.steps) = step
  BY <1>2, <1>3, AppendedSteps
<1>8. CreationPlan(q) = CreationPlan(r)
  BY <1>3 DEF Appended, Keeps, Fields, CreationPlan
<1>9. /\ Rank(CreationsOf(q), Len(r.steps) + 1) = NextRank(r)
      /\ \A i \in CreationsOf(q) : i # Len(r.steps) + 1 =>
           i \in CreationsOf(r) /\ Rank(CreationsOf(q), i) = Rank(CreationsOf(r), i)
  BY <1>2, <1>3, <1>4, AppendedCreations
<1>10. InOrder(q)
  <2>1. ASSUME NEW i \in CreationsOf(q)
        PROVE  \E x \in CreationPlan(q) :
                 q.steps[i].action = CREATIONS[x] /\ Rank(CreationPlan(q), x) = Rank(CreationsOf(q), i)
    <3>1. CASE i = Len(r.steps) + 1
      BY <1>2, <1>5, <1>7, <1>8, <1>9, <3>1
    <3>2. CASE i # Len(r.steps) + 1
      <4>1. i \in CreationsOf(r) /\ Rank(CreationsOf(q), i) = Rank(CreationsOf(r), i)
        BY <1>9, <3>2
      <4>2. i \in DOMAIN r.steps
        BY <4>1 DEF CreationsOf
      <4>3. \E x \in CreationPlan(r) :
              r.steps[i].action = CREATIONS[x] /\ Rank(CreationPlan(r), x) = Rank(CreationsOf(r), i)
        BY <4>1 DEF Sound, IsConsistent, InPlan
      <4> QED  BY <1>7, <1>8, <4>1, <4>2, <4>3
    <3> QED  BY <3>1, <3>2
  <2> QED  BY <2>1 DEF InOrder
<1>11. LaunchesOrdered(q)
  <2>1. a = "run-instances" => Cardinality(Launches(r)) < Slots(r)
    <3>1. Cardinality({}) = 0
      BY FS_EmptySet
    <3>2. Slots(r) \in Nat \ {0}
      BY SlotAssumption DEF Slots
    <3>3. Declined(LastStep(r)) => StateOf(LastStep(r)) # "verified"
      BY DEF Declined, StateOf
    <3>4. Launches(r) = {} => Cardinality(Launches(r)) < Slots(r)
      <4>1. 0 < Slots(r)
        BY <3>2
      <4> QED  BY <3>1, <4>1
    <3>5. r.steps # <<>> /\ Declined(LastStep(r)) => Cardinality(Launches(r)) < Slots(r)
      BY <3>3
    <3> QED  BY <1>4, <3>4, <3>5
  <2> QED  BY <1>2, <1>3, <1>4, <2>1, AppendedLaunches
<1>12. /\ q.key = r.key /\ q.health = r.health /\ q.successor = r.successor /\ q.abandoned = r.abandoned
       /\ q.removals = 0 /\ q.termination = "unconfirmed"
  BY <1>2, <1>3 DEF Appended, Keeps, Fields
<1>13. HealthRecorded(q) /\ SuccessorRecorded(q)
  BY <1>12 DEF HealthRecorded, SuccessorRecorded
<1>14. RequireNewStep(r, q)
  <2>1. StateOf(step) = "open"
    BY <1>2, NewIsOpen
  <2>2. r.steps # <<>> => StateOf(Last(r.steps)) = "verified" \/ Declined(Last(r.steps))
    BY DEF Last, LastStep
  <2> QED  BY <1>2, <1>7, <1>12, <2>1, <2>2 DEF RequireNewStep
<1>15. step.removal - r.removals \in {0, 1} /\ step.removal \in Nat
       /\ (\A made \in Undoes(step.action) : Returned(r, made)) /\ step.removal = 0
       /\ ~Returned(r, step.action)
  BY <1>2, <1>4
<1> HIDE DEF LastStep
<1> QED  BY <1>2, <1>3, <1>6, <1>10, <1>11, <1>13, <1>14, <1>15, AppendAllowed

LEMMA RemovalIsDue ==
  ASSUME NEW d, NEW r, NEW a, Sound(r, d), RemovalPlan(r) # {}, a = NextRemoval(r)
  PROVE  /\ a \in Removing /\ ~Verified(r, a)
         /\ \A made \in Undoes(a) : Returned(r, made)
<1>1. DOMAIN REMOVALS = 1..11 /\ \A x \in 1..11 : \A y \in 1..11 : REMOVALS[x][1] = REMOVALS[y][1] => x = y
  BY DEF REMOVALS
<1>2. RemovalPlan(r) \subseteq 1..11
  BY <1>1 DEF RemovalPlan, Removals
<1>3. PICK p \in RemovalPlan(r) : \A x \in RemovalPlan(r) : p <= x
  <2>1. RemovalPlan(r) \subseteq Nat
    BY <1>2
  <2> QED  BY <2>1, LeastNatural
<1>4. Min(RemovalPlan(r)) \in RemovalPlan(r)
  BY <1>3 DEF Min
<1>5. PICK m \in RemovalPlan(r) : a = REMOVALS[m][1]
  BY <1>4 DEF NextRemoval
<1>6. Returned(r, REMOVALS[m][2]) /\ ~Verified(r, a) /\ m \in 1..11
  BY <1>2, <1>5 DEF RemovalPlan
<1>7. ASSUME NEW made \in Undoes(a)
      PROVE  Returned(r, made)
  <2>1. PICK x \in 1..11 : REMOVALS[x][1] = a /\ made = REMOVALS[x][2]
    BY <1>1, <1>7 DEF Undoes, Removals
  <2>2. x = m
    BY <1>1, <1>5, <1>6, <2>1
  <2> QED  BY <1>6, <2>1, <2>2
<1>8. a \in Removing
  BY <1>1, <1>5, <1>6 DEF Removing
<1> QED  BY <1>6, <1>7, <1>8

(* A removal changes nothing of the creations, and of what is released.       *)
LEMMA AppendedRemoval ==
  ASSUME NEW d, NEW r, NEW q, NEW step, Sound(r, d), Appended(r, q, step), IsNew(step),
         step.removal # 0, step.action \in Removing, ~Returned(r, step.action)
  PROVE  /\ CreationsOf(q) = CreationsOf(r) /\ CreationPlan(q) = CreationPlan(r)
         /\ InOrder(q) /\ HealthRecorded(q) /\ SuccessorRecorded(q)
         /\ Quiet(r) => Quiet(q)
<1> DEFINE n == Len(r.steps)
<1>1. /\ n \in Nat /\ DOMAIN r.steps = 1..n /\ DOMAIN q.steps = 1..(n + 1)
      /\ \A i \in DOMAIN r.steps : q.steps[i] = r.steps[i]
      /\ q.steps[n + 1] = step
      /\ \A action : action # step.action => StepOf(q, action) = StepOf(r, action)
  BY AppendedSteps
<1>2. \A action : (Returned(q, action) <=> Returned(r, action)) /\ (Verified(q, action) <=> Verified(r, action))
  BY AppendedAnswers
<1>3. /\ q.reuse = r.reuse /\ q.health = r.health /\ q.successor = r.successor /\ q.id = r.id
      /\ q.latest = r.latest /\ q.implicit = r.implicit /\ q.abandoned = r.abandoned
  BY DEF Appended, Keeps, Fields
<1>4. IsConsistent(r)
  BY DEF Sound
<1>5. step.action # "run-instances" /\ step.action \notin RESOURCES /\ step.action # "create-volume"
  BY RemovingMakesNothing, CreationsRemoveNothing DEF RESOURCES
<1>6. CreationsOf(q) = CreationsOf(r)
  <2>1. \A i \in DOMAIN r.steps : i \in CreationsOf(q) <=> i \in CreationsOf(r)
    <3>1. ASSUME NEW i \in DOMAIN r.steps
          PROVE  i \in CreationsOf(q) <=> i \in CreationsOf(r)
      <4>1. i \in DOMAIN q.steps /\ i + 1 \in DOMAIN q.steps /\ q.steps[i] = r.steps[i]
        BY <1>1
      <4>2. CASE i = n
        <5>1. q.steps[i + 1] = step /\ i + 1 \notin DOMAIN r.steps
          BY <1>1, <4>2
        <5> QED  BY <1>5, <4>1, <5>1 DEF CreationsOf
      <4>3. CASE i # n
        <5>1. i + 1 \in DOMAIN r.steps /\ q.steps[i + 1] = r.steps[i + 1]
          BY <1>1, <4>3
        <5> QED  BY <4>1, <5>1 DEF CreationsOf
      <4> QED  BY <4>2, <4>3
    <3> QED  BY <3>1
  <2>2. \A i \in DOMAIN q.steps : i \in DOMAIN r.steps \/ i = n + 1
    BY <1>1
  <2>3. n + 1 \notin CreationsOf(q)
    BY <1>1 DEF CreationsOf
  <2>4. CreationsOf(q) \subseteq DOMAIN q.steps /\ CreationsOf(r) \subseteq DOMAIN r.steps
    BY DEF CreationsOf
  <2> QED  BY <2>1, <2>2, <2>3, <2>4
<1>7. CreationPlan(q) = CreationPlan(r)
  BY <1>3 DEF CreationPlan
<1>8. InOrder(q)
  <2>1. \A i \in CreationsOf(r) : i \in DOMAIN r.steps
    BY DEF CreationsOf
  <2>2. InOrder(r)
    BY <1>4 DEF IsConsistent, InPlan, InOrder
  <2> QED  BY <1>1, <1>6, <1>7, <2>1, <2>2 DEF InOrder
<1>9. HealthRecorded(q)
  <2>1. \A i \in CreationsOf(r) : q.steps[i] = r.steps[i]
    BY <1>1 DEF CreationsOf
  <2>2. HealthRecorded(r)
    BY <1>4 DEF IsConsistent
  <2> QED  BY <1>3, <1>6, <1>7, <2>1, <2>2 DEF HealthRecorded, CreationVerified
<1>10. Unnamed(q) = Unnamed(r)
  <2>1. \A i \in DOMAIN q.steps : i \in DOMAIN r.steps \/ i = n + 1
    BY <1>1
  <2>2. n + 1 \notin Unnamed(q)
    BY <1>1, <1>5 DEF Unnamed
  <2>3. \A i \in DOMAIN r.steps : i \in DOMAIN q.steps /\ (i \in Unnamed(q) <=> i \in Unnamed(r))
    BY <1>1 DEF Unnamed
  <2>4. Unnamed(q) \subseteq DOMAIN q.steps /\ Unnamed(r) \subseteq DOMAIN r.steps
    BY DEF Unnamed
  <2> QED  BY <2>1, <2>2, <2>3, <2>4
<1>11. Resources(q) = Resources(r)
  <2>1. {a \in RESOURCES \cap Included : Returned(q, a)} = {a \in RESOURCES \cap Included : Returned(r, a)}
    BY <1>2
  <2> QED  BY <1>3, <2>1 DEF Resources
<1>12. Unreleased(q) = Unreleased(r)
  <2>1. \A key : Released(q, key) <=> Released(r, key)
    <3>1. \A key : RemovedBy(q, key) = RemovedBy(r, key) /\ SeenBy(q, key) = SeenBy(r, key)
      BY <1>3 DEF RemovedBy, SeenBy
    <3> QED  BY <1>2, <1>3, <3>1 DEF Released
  <2> QED  BY <1>11, <2>1 DEF Unreleased
<1>13. VolumeId(q) = VolumeId(r) /\ (HoldsVolume(q) <=> HoldsVolume(r))
  BY <1>1, <1>2, <1>3, <1>5 DEF VolumeId, HoldsVolume
<1>14. SuccessorRecorded(q)
  <2>1. SuccessorRecorded(r)
    BY <1>4 DEF IsConsistent
  <2> QED  BY <1>3, <1>10, <1>12, <1>13, <2>1 DEF SuccessorRecorded
<1>15. Quiet(r) => Quiet(q)
  BY <1>10, <1>12 DEF Quiet
<1> QED  BY <1>6, <1>7, <1>8, <1>9, <1>14, <1>15

LEMMA RemovalAllowed ==
  ASSUME NEW d, NEW r, NEW q, NEW a, NEW attempt, Sound(r, d), RemovalPlan(r) # {}, a = NextRemoval(r),
         Appended(r, q, Step(a, attempt)), ~r.abandoned, r.termination = "confirmed", r.steps # <<>>,
         \/ /\ attempt = r.removals + 1
            /\ Removable(r) /\ Matches(r, r.latest) /\ Over(LastStep(r))
         \/ /\ attempt = r.removals /\ attempt # 0
            /\ StateOf(LastStep(r)) = "verified"
  PROVE  Sound(q, d) /\ Allowed(r, q) /\ q.removals # 0 /\ (Quiet(r) => Quiet(q))
<1>1. PICK step : step = Step(a, attempt)
  OBVIOUS
<1>2. IsNew(step) /\ step.action = a /\ step.removal = attempt
  BY <1>1, StepIsNew
<1>3. Appended(r, q, step)
  BY <1>1
<1>4. r.removals \in Nat /\ IsConsistent(r) /\ IsSeq(r.steps) /\ Len(r.steps) \in DOMAIN r.steps
  <2>1. IsSeq(r.steps)
    BY DEF Sound, Shaped
  <2> QED  BY <2>1, SeqFacts DEF Sound, Typed
<1>5. attempt \in Nat /\ attempt # 0 /\ attempt - r.removals \in {0, 1}
  BY <1>4
<1>6. a \in Removing /\ ~Verified(r, a) /\ \A made \in Undoes(a) : Returned(r, made)
  BY RemovalIsDue
<1>7. Over(LastStep(r))
  BY DEF Over
<1>8. ~Returned(r, a)
  <2>1. SUFFICES ASSUME Returned(r, a) PROVE FALSE
    OBVIOUS
  <2>2. PICK i \in DOMAIN r.steps : i = StepOf(r, a) /\ r.steps[i].returned /\ ~r.steps[i].verified
    BY <1>4, <1>6, <2>1, StepOfFound DEF Returned, Verified
  <2>3. Over(r.steps[i])
    BY <1>7, <2>2 DEF Sound, Typed, LastStep
  <2>4. r.steps[i].outcome = "none"
    BY <1>4, <2>2 DEF IsConsistent, WellFormed
  <2> QED  BY <2>2, <2>3, <2>4 DEF Over, StateOf
<1>9. LastStep(r).removal = r.removals
  BY <1>4, CreationStep
<1>10. Follows(LastStep(r), step)
  <2>1. CASE attempt = r.removals + 1
    <3>1. ~(attempt \in {0, LastStep(r).removal})
      BY <1>4, <1>5, <1>9, <2>1
    <3>2. Settled(LastStep(r))
      BY <1>7 DEF Over, Settled
    <3> QED  BY <1>2, <3>1, <3>2 DEF Follows
  <2>2. CASE StateOf(LastStep(r)) = "verified"
    <3>1. Settled(LastStep(r))
      BY <2>2 DEF Settled
    <3> QED  BY <2>2, <3>1 DEF Follows
  <2> QED  BY <2>1, <2>2
<1>11. /\ InOrder(q) /\ HealthRecorded(q) /\ SuccessorRecorded(q)
       /\ Quiet(r) => Quiet(q)
  BY <1>2, <1>3, <1>5, <1>6, <1>8, AppendedRemoval
<1>12. LaunchesOrdered(q)
  <2>1. a # "run-instances"
    BY <1>6, CreationsRemoveNothing
  <2> QED  BY <1>2, <1>3, <2>1, AppendedLaunches
<1>13. q.removals = attempt /\ q.termination = "unconfirmed" /\ q.latest = r.latest
  BY <1>2, <1>3 DEF Appended, Keeps, Fields
<1>14. Last(q.steps) = step /\ Last(r.steps) = LastStep(r)
  BY <1>2, <1>3, AppendedSteps DEF Last, LastStep
<1>15. RequireNewStep(r, q)
  <2>1. StateOf(step) = "open"
    BY <1>2, NewIsOpen
  <2>2. CASE attempt = r.removals + 1 /\ Removable(r) /\ Matches(r, r.latest)
    <3>1. Settled(LastStep(r)) /\ Refusals(r) < MaxRefusals
      BY <1>7, <2>2 DEF Removable, Over, Settled
    <3> QED  BY <1>2, <1>4, <1>5, <1>13, <1>14, <2>1, <2>2, <3>1 DEF RequireNewStep
  <2>3. CASE attempt = r.removals /\ StateOf(LastStep(r)) = "verified"
    <3>1. ~(q.removals > r.removals)
      BY <1>4, <1>13, <2>3
    <3> QED  BY <1>2, <1>5, <1>9, <1>13, <1>14, <2>1, <2>3, <3>1 DEF RequireNewStep
  <2> QED  BY <2>2, <2>3
<1>16. r.key
  BY <1>4 DEF IsConsistent, Keyed
<1>17. Sound(q, d) /\ Allowed(r, q)
  <2>1. step.removal - r.removals \in {0, 1} /\ step.removal \in Nat /\ ~Returned(r, step.action)
        /\ (\A made \in Undoes(step.action) : Returned(r, made)) /\ step.action \in Removing
    BY <1>2, <1>5, <1>6, <1>8
  <2> QED  BY <1>2, <1>3, <1>7, <1>10, <1>11, <1>12, <1>15, <1>16, <2>1, AppendAllowed
<1> QED  BY <1>5, <1>11, <1>13, <1>17

LEMMA FenceAppends ==
  ASSUME NEW r, NEW step, DOMAIN r = Fields,
         NEW q, q = [Fenced(r) EXCEPT !.steps = Append(@, step), !.removals = step.removal]
  PROVE  Appended(r, q, step)
  BY DEF Appended, Keeps, Fenced, Fields

-----------------------------------------------------------------------------
(* A plan whose creations were all made is verified.                        *)

LEMMA RanksAreFilled ==
  ASSUME NEW n \in Nat, NEW S \in SUBSET (1..n)
  PROVE  /\ IsFiniteSet(S) /\ Cardinality(S) \in Nat
         /\ \A k \in 1..Cardinality(S) : \E p \in S : Rank(S, p) = k
         /\ \A p \in S : Rank(S, p) \in 1..Cardinality(S)
<1>1. IsFiniteSet(S) /\ Cardinality(S) \in Nat
  <2>1. IsFiniteSet(1..n)
    BY FS_Interval
  <2>2. IsFiniteSet(S)
    BY <2>1, FS_Subset
  <2> QED  BY <2>2, FS_CardinalityType
<1>2. ASSUME NEW p \in S
      PROVE  Rank(S, p) \in 1..Cardinality(S)
  <2>1. PICK below : below = {q \in S : q <= p}
    OBVIOUS
  <2>2. below \subseteq S /\ p \in below
    BY <2>1
  <2>3. IsFiniteSet(below) /\ Cardinality(below) <= Cardinality(S)
    BY <1>1, <2>2, FS_Subset
  <2>4. Cardinality(below) \in Nat /\ Cardinality(below) # 0
    BY <2>2, <2>3, FS_CardinalityType, FS_EmptySet
  <2> QED  BY <1>1, <2>1, <2>3, <2>4 DEF Rank
<1>3. PICK f : f = [p \in S |-> Rank(S, p)]
  OBVIOUS
<1>4. f \in [S -> 1..Cardinality(S)] /\ DOMAIN f = S /\ \A p \in S : f[p] = Rank(S, p)
  BY <1>2, <1>3
<1>5. ASSUME NEW p \in S, NEW q \in S, f[p] = f[q]
      PROVE  p = q
  <2>1. Rank(S, p) = Rank(S, q)
    BY <1>4, <1>5
  <2>2. ~(p < q) /\ ~(q < p)
    BY <2>1, RankIncreases
  <2> QED  BY <2>2
<1>6. f \in Injection(S, 1..Cardinality(S))
  BY <1>4, <1>5 DEF Injection, IsInjective
<1>7. IsFiniteSet(1..Cardinality(S)) /\ Cardinality(1..Cardinality(S)) = Cardinality(S)
  <2>1. PICK c \in Nat : c = Cardinality(S)
    BY <1>1
  <2>3. 1 \in Int /\ c \in Int
    BY <2>1
  <2>2. IsFiniteSet(1..c) /\ Cardinality(1..c) = IF 1 > c THEN 0 ELSE c - 1 + 1
    BY <2>3, FS_Interval
  <2> QED  BY <2>1, <2>2
<1>8. f \in Surjection(S, 1..Cardinality(S))
  BY <1>6, <1>7, FS_Injection
<1>9. \A k \in 1..Cardinality(S) : \E p \in S : Rank(S, p) = k
  BY <1>4, <1>8 DEF Surjection
<1> QED  BY <1>1, <1>2, <1>9

LEMMA CreationFinished ==
  ASSUME NEW d, NEW r, Sound(r, d), r.removals = 0, NextCreation(r) = None, ~r.health,
         r.steps # <<>> => StateOf(LastStep(r)) = "verified" \/ Declined(LastStep(r))
  PROVE  HealthDue(r)
<1> DEFINE n == Len(r.steps)
           S == CreationPlan(r)
           C == CreationsOf(r)
           again == r.steps # <<>> /\ Declined(LastStep(r))
<1>1. IsConsistent(r) /\ IsSeq(r.steps) /\ n \in Nat /\ DOMAIN r.steps = 1..n
  BY SeqFacts DEF Sound, Shaped
<1>2. S \in SUBSET (1..15)
  BY CreationsRemoveNothing DEF CreationPlan, Creations
<1>3. /\ IsFiniteSet(S) /\ Cardinality(S) \in Nat
      /\ \A k \in 1..Cardinality(S) : \E p \in S : Rank(S, p) = k
      /\ \A p \in S : Rank(S, p) \in 1..Cardinality(S)
  <2> HIDE DEF S
  <2>1. 15 \in Nat
    OBVIOUS
  <2> QED  BY <1>2, <2>1, RanksAreFilled
<1>4. Cardinality(S) # 0
  <2>1. CREATIONS[11] = "run-instances" /\ 11 \in DOMAIN CREATIONS
    BY DEF CREATIONS
  <2>2. 11 \in S
    BY <2>1, IncludedAssumption DEF CreationPlan, Creations
  <2> QED  BY <1>3, <2>2
<1>5. {p \in S : Rank(S, p) = NextRank(r)} = {}
  <2>1. \A p \in S : CREATIONS[p] # None
    BY NoneAssumption DEF CreationPlan, Creations
  <2>2. NextCreation(r) =
          IF {p \in S : Rank(S, p) = NextRank(r)} = {} THEN None
          ELSE CREATIONS[CHOOSE p \in {p \in S : Rank(S, p) = NextRank(r)} : TRUE]
    BY DEF NextCreation, NextRank, Last, LastStep
  <2> QED  BY <2>1, <2>2
<1>6. Cardinality(C) \in Nat /\ (n \in C => Rank(C, n) = Cardinality(C))
  BY CreationsCounted
<1>7. \A i \in C : \E p \in S : r.steps[i].action = CREATIONS[p] /\ Rank(S, p) = Rank(C, i)
  BY <1>1 DEF IsConsistent, InPlan
<1>8. r.steps # <<>> => n \in C /\ n \in DOMAIN r.steps
  <2>1. ASSUME r.steps # <<>>
        PROVE  n \in C /\ n \in DOMAIN r.steps
    <3>1. n \in DOMAIN r.steps
      BY <1>1, <2>1, SeqFacts
    <3>2. r.steps[n].removal = 0 /\ n + 1 \notin DOMAIN r.steps
      BY <1>1, <3>1, CreationStep
    <3> QED  BY <3>1, <3>2, CreationStep
  <2> QED  BY <2>1
<1>9. NextRank(r) \notin 1..Cardinality(S)
  BY <1>3, <1>5
<1>10. r.steps # <<>> => Cardinality(C) \in 1..Cardinality(S)
  BY <1>3, <1>6, <1>7, <1>8
<1>11. ~again
  BY <1>9, <1>10 DEF NextRank
<1>12. r.steps # <<>>
  <2>1. SUFFICES ASSUME r.steps = <<>> PROVE FALSE
    OBVIOUS
  <2>2. C = {}
    BY <1>1, <2>1, EmptySteps DEF CreationsOf
  <2>3. Cardinality(C) = 0
    BY <2>2, FS_EmptySet
  <2>4. NextRank(r) = 1
    BY <1>11, <2>3 DEF NextRank
  <2> QED  BY <1>3, <1>4, <1>9, <2>4
<1>13. Cardinality(C) = Cardinality(S)
  <2>1. NextRank(r) = Cardinality(C) + 1
    BY <1>11 DEF NextRank
  <2> QED  BY <1>3, <1>6, <1>9, <1>10, <1>12, <2>1
<1>14. ASSUME NEW i \in C
       PROVE  StateOf(r.steps[i]) = "verified"
  <2>1. i \in DOMAIN r.steps
    BY DEF CreationsOf
  <2>2. CASE i = n
    BY <1>11, <1>12, <2>2 DEF LastStep
  <2>3. CASE i # n
    <3>1. i + 1 \in DOMAIN r.steps /\ i + 1 > 1 /\ (i + 1) - 1 = i
      BY <1>1, <2>1, <2>3
    <3>2. Follows(r.steps[i], r.steps[i + 1]) /\ r.steps[i + 1].removal = 0
      BY <1>1, <3>1, CreationStep DEF IsConsistent
    <3>3. StateOf(r.steps[i]) = "verified" \/ (Declined(r.steps[i]) /\ r.steps[i + 1].action = r.steps[i].action)
      BY <3>2 DEF Follows
    <3>4. ~(Declined(r.steps[i]) /\ r.steps[i + 1].action = "run-instances")
      BY <1>14, <3>1 DEF CreationsOf
    <3> QED  BY <3>3, <3>4 DEF Declined
  <2> QED  BY <2>2, <2>3
<1> QED  BY <1>13, <1>14 DEF HealthDue, CreationVerified

-----------------------------------------------------------------------------
(* What every write keeps.                                                  *)

Known == FenceInv /\ LaunchInv /\ ParsedInv /\ SightInv /\ ChainInv /\ RulesInv

LEMMA RecordIsSound ==
  ASSUME Known, NEW d \in Existing
  PROVE  Sound(disk[d], d)
  BY DEF Known, LaunchInv, RecordsFit, ParsedInv, SightInv, RecordsSee, ChainInv, ChainHolds, RecordInChain,
         RulesInv, Sound

LEMMA CommandIsSound ==
  ASSUME Known, cmd # None
  PROVE  /\ IsCommand(cmd) /\ cmd.dep \in Existing
         /\ Sound(cmd.mem, cmd.dep) /\ Sees(cmd.mem, cmd.dep)
         /\ cmd.pc \notin {"fail", "end"} => cmd.mem = disk[cmd.dep]
         /\ Prepared(cmd) /\ InChain(cmd) /\ Knows(cmd)
         /\ Reuses(cmd.dep + 1) => Quiet(cmd.mem)
         /\ \A e \in Existing \ {cmd.dep} : disk[e].termination = "confirmed"
<1>1. IsCommand(cmd) /\ cmd.dep \in Existing /\ Knows(cmd) /\ Shaped(cmd.mem, cmd.dep)
  BY CommandKnows DEF Known
<1>2. InChain(cmd) /\ Prepared(cmd) /\ IsConsistent(cmd.mem) /\ Aware(cmd)
  BY DEF Known, ChainInv, RulesInv, ParsedInv, SightInv
<1>3. Sound(cmd.mem, cmd.dep)
  BY <1>1, <1>2 DEF Sound, InChain, Prepared
<1> QED  BY <1>1, <1>2, <1>3 DEF InChain, Aware, Known, RulesInv

(* The reports of a child are kept while it waits, or go with it.             *)
LEMMA QuietReports ==
  ASSUME Known, children' \subseteq children, cmd' = None \/ cmd'.pc # "call", DiskGrows
  PROVE  ReportsFit'
<1>1. \A c \in children' :
        /\ c \in children /\ c.dep \in Existing /\ c.step \in DOMAIN disk[c.dep].steps
        /\ disk'[c.dep].steps[c.step].action = disk[c.dep].steps[c.step].action
  BY DEF Known, LaunchInv, ChildrenFit, FenceInv, ChildShape, DiskGrows
<1>2. ASSUME NEW c \in children'
      PROVE  ~Attended(c)'
  BY <1>2 DEF Attended, At
<1> QED  BY <1>1, <1>2 DEF ReportsFit, Known, RulesInv

LEMMA SameDiskGrows ==
  ASSUME UNCHANGED disk
  PROVE  DiskGrows
  BY DEF DiskGrows, Existing

LEMMA AllowedGrows ==
  ASSUME Known, NEW d \in Existing, NEW record, Sound(record, d), Allowed(disk[d], record),
         disk' \in {disk, [disk EXCEPT ![d] = record]}
  PROVE  DiskGrows
<1>1. /\ DOMAIN disk[d].steps \subseteq DOMAIN record.steps
      /\ \A i \in DOMAIN disk[d].steps : record.steps[i].action = disk[d].steps[i].action
  <2>1. Shaped(disk[d], d) /\ Shaped(record, d) /\ Accepted(d, record)
    BY RecordIsSound DEF Sound, Allowed, Accepted
  <2> QED  BY <2>1, AcceptedGrows
<1>2. DOMAIN disk' = DOMAIN disk /\ \A e \in Existing : disk'[e] = disk[e] \/ (e = d /\ disk'[e] = record)
  BY DEF Existing
<1> QED  BY <1>1, <1>2 DEF DiskGrows, Existing

(* A write of any record that the rules allow, when it leaves the command     *)
(* prepared for what it does next.                                           *)
LEMMA AllowedWrite ==
  ASSUME Known, cmd # None, NEW d \in Existing, NEW record, Sound(record, d), Allowed(disk[d], record),
         Reuses(d + 1) => Quiet(record),
         d # cmd.dep => record.termination = "confirmed",
         NEW done, NEW failed, Write(d, record, done, failed), ReportsFit',
         cmd' = done => Prepared(done),
         cmd' = failed => Prepared(failed),
         done.dep = cmd.dep, failed.dep = cmd.dep, done.pc # "reserve", failed.pc # "reserve",
         Reuses(cmd.dep + 1) => Quiet(done.mem) /\ Quiet(failed.mem)
  PROVE  RulesInv'
<1>1. Accepted(d, record)
  BY DEF Accepted, Allowed
<1>2. /\ refused' = refused /\ disk' \in {disk, [disk EXCEPT ![d] = record]}
      /\ \/ cmd' = done /\ disk' = [disk EXCEPT ![d] = record]
         \/ cmd' = failed
  BY <1>1 DEF Write
<1>3. /\ DOMAIN disk' = DOMAIN disk
      /\ \A e \in Existing : disk'[e] = disk[e] \/ (e = d /\ disk'[e] = record)
  BY <1>2 DEF Existing
<1>4. record.reuse = disk[d].reuse
  BY DEF Allowed, RequireTransition, RequireFixedFields
<1>5. \A e : Reuses(e)' <=> Reuses(e)
  BY <1>3, <1>4 DEF Reuses, Existing
<1>6. \A e \in Existing : Typed(disk'[e])
  BY <1>3 DEF Known, RulesInv, Sound
<1>7. ASSUME NEW e \in Existing, Reuses(e)
      PROVE  Quiet(disk'[e - 1])
  <2>1. e - 1 \in Existing /\ e \in Nat /\ d \in Nat /\ (e - 1 = d => e = d + 1)
    BY <1>7, ExistingIsInterval DEF Known, ChainInv, ChainHolds, ReuseInChain
  <2>2. Quiet(disk[e - 1])
    BY <1>7 DEF Known, RulesInv
  <2> QED  BY <1>3, <1>7, <2>1, <2>2
<1>8. Prepared(cmd') /\ cmd'.dep = cmd.dep /\ cmd'.pc # "reserve" /\ (Reuses(cmd.dep + 1) => Quiet(cmd'.mem))
  BY <1>2
<1>9. \A e \in Existing \ {cmd.dep} : disk'[e].termination = "confirmed"
  BY <1>3, CommandIsSound
<1>10. Existing' = Existing
  BY <1>3 DEF Existing
<1> QED  BY <1>2, <1>3, <1>5, <1>6, <1>7, <1>8, <1>9, <1>10 DEF RulesInv, Known

(* A command that gives up, or ends.                                         *)
LEMMA GivenUp ==
  ASSUME Known, cmd # None, NEW q, Sound(q, cmd.dep),
         Len(q.steps) = Len(cmd.mem.steps), q.removals = cmd.mem.removals, Acts(cmd) => ~q.abandoned,
         NEW k, k.mem = q, k.op = cmd.op, k.fence = cmd.fence, k.pc \in {"fail", "end"},
         k.pc = "fail" => k.outcome = "uncertain" /\ cmd.pc # "end"
  PROVE  Prepared(k)
<1>1. Prepared(cmd) /\ Sound(cmd.mem, cmd.dep)
  BY CommandIsSound
<1>2. Acts(k) => ~q.abandoned
  BY DEF Acts
<1>3. Typed(q) /\ Directed(q) /\ IsSeq(q.steps) /\ IsSeq(cmd.mem.steps)
  BY <1>1 DEF Sound, Shaped
<1>4. q.steps # <<>> <=> cmd.mem.steps # <<>>
  BY <1>3, SeqFacts, EmptySteps
<1>5. q.steps # <<>> => LastStep(q).removal = q.removals /\ LastStep(cmd.mem).removal = cmd.mem.removals
  <2>1. ASSUME q.steps # <<>>
        PROVE  Len(q.steps) \in DOMAIN q.steps /\ Len(cmd.mem.steps) \in DOMAIN cmd.mem.steps
    BY <1>3, <1>4, <2>1, SeqFacts
  <2> QED  BY <1>1, <2>1, CreationStep
<1>6. k.fence # 0 /\ k.pc # "end" => q.steps # <<>> /\ k.fence = Len(q.steps)
  BY <1>1, <1>4 DEF Prepared
<1>7. IF k.op = "create" THEN ToCreate(k) ELSE ToRemove(k)
  BY <1>1, <1>5, <1>6 DEF Prepared, ToCreate, ToRemove, Ended
<1>8. ToAbandon(k) /\ ToObserve(k) /\ ToFail(k)
  BY DEF ToAbandon, ToObserve, ToFail
<1> QED  BY <1>1, <1>2, <1>3, <1>6, <1>7, <1>8 DEF Prepared, Ended

(* The command goes on with a record.                                        *)
Moves(k, pc, record) ==
  /\ k.pc = pc /\ k.mem = record
  /\ k.op = cmd.op /\ k.dep = cmd.dep /\ k.fence = cmd.fence /\ k.approval = cmd.approval
  /\ k.observation = cmd.observation /\ k.outcome = cmd.outcome /\ k.confirmed = cmd.confirmed

LEMMA ToMoves ==
  ASSUME IsCommand(cmd), NEW pc, NEW record
  PROVE  /\ Moves([To(pc) EXCEPT !.mem = record], pc, record)
         /\ DOMAIN To(pc) = DOMAIN cmd /\ To(pc).dep = cmd.dep /\ To(pc).pc = pc
         /\ Moves(To(pc), pc, cmd.mem)
  BY DEF IsCommand, Moves, To

LEMMA FailingGivesUp ==
  ASSUME Known, cmd # None, NEW record, Sound(record, cmd.dep), cmd.pc # "end",
         Len(record.steps) = Len(cmd.mem.steps), record.removals = cmd.mem.removals,
         Acts(cmd) => ~record.abandoned
  PROVE  /\ Prepared(Failing(record)) /\ Failing(record).dep = cmd.dep
         /\ Failing(record).pc = "fail" /\ Failing(record).mem = record
<1>1. Held(record) = record
  BY DEF Held, Sound
<1>2. IsCommand(cmd)
  BY CommandIsSound
<1>3. PICK k : k = Failing(record)
  OBVIOUS
<1>4. /\ k.mem = record /\ k.op = cmd.op /\ k.fence = cmd.fence /\ k.pc = "fail" /\ k.outcome = "uncertain"
      /\ k.dep = cmd.dep
  BY <1>1, <1>2, <1>3 DEF Failing, IsCommand
<1>5. Prepared(k)
  BY <1>4, GivenUp
<1> QED  BY <1>3, <1>4, <1>5

LEMMA PersistRules ==
  ASSUME Known, cmd # None, cmd.pc \notin {"fail", "end"},
         NEW record, Sound(record, cmd.dep), Allowed(cmd.mem, record), Quiet(cmd.mem) => Quiet(record),
         Len(record.steps) = Len(cmd.mem.steps), record.removals = cmd.mem.removals,
         Acts(cmd) => ~record.abandoned,
         NEW next, DOMAIN next = DOMAIN cmd, next.dep = cmd.dep, next.pc # "reserve",
         NEW done, done = [next EXCEPT !.mem = record], Prepared(done),
         Persist(record, next), ReportsFit'
  PROVE  RulesInv'
<1>1. IsCommand(cmd) /\ cmd.dep \in Existing /\ cmd.mem = disk[cmd.dep] /\ (Reuses(cmd.dep + 1) => Quiet(cmd.mem))
  BY CommandIsSound
<1>2. done.dep = cmd.dep /\ done.pc # "reserve" /\ done.mem = record
  BY <1>1 DEF IsCommand
<1>3. PICK failed : failed = Failing(record)
  OBVIOUS
<1>4. Prepared(failed) /\ failed.dep = cmd.dep /\ failed.pc = "fail" /\ failed.mem = record
  BY <1>3, FailingGivesUp
<1>5. Write(cmd.dep, record, done, failed)
  BY <1>3 DEF Persist
<1> QED  BY <1>1, <1>2, <1>4, <1>5, AllowedWrite

LEMMA PersistQuietly ==
  ASSUME Known, cmd # None, cmd.pc \notin {"fail", "end"}, children' \subseteq children,
         NEW record, Sound(record, cmd.dep), Allowed(cmd.mem, record), Quiet(cmd.mem) => Quiet(record),
         Len(record.steps) = Len(cmd.mem.steps), record.removals = cmd.mem.removals,
         Acts(cmd) => ~record.abandoned,
         NEW next, DOMAIN next = DOMAIN cmd, next.dep = cmd.dep, next.pc \notin {"reserve", "call"},
         NEW done, done = [next EXCEPT !.mem = record], Prepared(done),
         Persist(record, next)
  PROVE  RulesInv'
<1>1. IsCommand(cmd) /\ cmd.dep \in Existing /\ cmd.mem = disk[cmd.dep]
  BY CommandIsSound
<1>2. ReportsFit'
  <2>1. PICK failed : failed = Failing(record)
    OBVIOUS
  <2>2. failed.pc = "fail" /\ done.pc = next.pc
    BY <1>1, <2>1 DEF Failing, IsCommand
  <2>3. Write(cmd.dep, record, done, failed)
    BY <2>1 DEF Persist
  <2>4. cmd' \in {done, failed} /\ disk' \in {disk, [disk EXCEPT ![cmd.dep] = record]}
    BY <2>3 DEF Write
  <2>5. DiskGrows
    BY <1>1, <2>4, AllowedGrows
  <2>6. cmd'.pc # "call"
    BY <2>2, <2>4
  <2> QED  BY <2>5, <2>6, QuietReports
<1> QED  BY <1>2, PersistRules

LEMMA PersistToRules ==
  ASSUME Known, cmd # None, cmd.pc \notin {"fail", "end"}, children' \subseteq children,
         NEW record, Sound(record, cmd.dep), Allowed(cmd.mem, record), Quiet(cmd.mem) => Quiet(record),
         Len(record.steps) = Len(cmd.mem.steps), record.removals = cmd.mem.removals,
         Acts(cmd) => ~record.abandoned,
         NEW pc, pc \notin {"reserve", "call"}, Persist(record, To(pc)),
         \A k : Moves(k, pc, record) => Prepared(k)
  PROVE  RulesInv'
<1>1. IsCommand(cmd)
  BY CommandIsSound
<1>2. PICK next : next = To(pc)
  OBVIOUS
<1>3. PICK done : done = [next EXCEPT !.mem = record]
  OBVIOUS
<1>4. /\ Moves(done, pc, record)
      /\ DOMAIN next = DOMAIN cmd /\ next.dep = cmd.dep /\ next.pc = pc
  BY <1>1, <1>2, <1>3, ToMoves
<1>5. Prepared(done)
  BY <1>4
<1>6. Persist(record, next)
  BY <1>2
<1> QED  BY <1>3, <1>4, <1>5, <1>6, PersistQuietly

-----------------------------------------------------------------------------
(* The writes of the coordinator between two calls.                         *)

(* Two records that differ in their termination only.                        *)
Alike(r, q) ==
  /\ q.steps = r.steps /\ LastStep(q) = LastStep(r) /\ Launches(q) = Launches(r) /\ Slots(q) = Slots(r)
  /\ q.removals = r.removals /\ q.key = r.key /\ q.health = r.health /\ q.abandoned = r.abandoned
  /\ q.latest = r.latest /\ q.reuse = r.reuse /\ q.successor = r.successor
  /\ \A action : Returned(q, action) <=> Returned(r, action)
  /\ Stuck(q) <=> Stuck(r)
  /\ Quiet(q) <=> Quiet(r)
  /\ \A observation : Matches(q, observation) <=> Matches(r, observation)
  /\ HealthDue(r) => HealthDue(q)

LEMMA TerminationAlike ==
  ASSUME NEW d, NEW r, NEW q, Sound(r, d), q \in {Fenced(r), Confirmed(r)}
  PROVE  Sound(q, d) /\ Allowed(r, q) /\ Alike(r, q) /\ (q = Confirmed(r) => q.termination = "confirmed")
<1>1. /\ Sound(q, d) /\ Allowed(r, q) /\ Keeps(r, q, {"termination"})
      /\ (q = Confirmed(r) => q.termination = "confirmed")
  BY TerminationAllowed
<1>2. \A field \in Fields \ {"termination"} : q[field] = r[field]
  BY <1>1 DEF Keeps
<1>3. /\ q.steps = r.steps /\ q.removals = r.removals /\ q.key = r.key /\ q.health = r.health
      /\ q.abandoned = r.abandoned /\ q.latest = r.latest /\ q.reuse = r.reuse /\ q.successor = r.successor
      /\ q.implicit = r.implicit /\ q.id = r.id
  BY <1>2 DEF Fields
<1>4. \A field \in {"id", "reuse", "steps", "implicit", "latest"} : q[field] = r[field]
  BY <1>3
<1>5. /\ \A action : Returned(q, action) <=> Returned(r, action)
      /\ Launches(q) = Launches(r)
      /\ Stuck(q) <=> Stuck(r)
  BY <1>3, SameSteps
<1>6. /\ Resources(q) = Resources(r) /\ Slots(q) = Slots(r)
      /\ CreationVerified(q) <=> CreationVerified(r)
      /\ Quiet(q) <=> Quiet(r)
  BY <1>4, SameResources
<1>7. \A observation : Matches(q, observation) <=> Matches(r, observation)
  <2>1. Active(q) = Active(r)
    BY <1>3, <1>6 DEF Active, HandedOff
  <2>2. \A key : Present(q, key) <=> Present(r, key)
    BY <1>5 DEF Present, RemovedBy
  <2>3. Launching(q) <=> Launching(r)
    BY <1>3, <2>1, <2>2 DEF Launching
  <2>4. Expectation(q) = Expectation(r)
    <3>1. Launching(q) \in BOOLEAN /\ Launching(r) \in BOOLEAN
      BY <1>1 DEF Launching, Sound, Typed
    <3> QED  BY <2>1, <2>2, <2>3, <3>1 DEF Expectation
  <2> QED  BY <2>4 DEF Matches
<1>8. HealthDue(r) => HealthDue(q)
  BY <1>3, <1>6 DEF HealthDue
<1>9. LastStep(q) = LastStep(r)
  BY <1>3 DEF LastStep
<1> QED  BY <1>1, <1>3, <1>5, <1>6, <1>7, <1>8, <1>9 DEF Alike

LEMMA TerminationRules ==
  ASSUME Known, cmd # None, cmd.pc \notin {"fail", "end"}, UNCHANGED children,
         NEW q, q \in {Fenced(cmd.mem), Confirmed(cmd.mem)}, NEW pc, pc \notin {"reserve", "call"},
         Persist(q, To(pc)),
         Sound(q, cmd.dep) /\ Alike(cmd.mem, q) => \A k : Moves(k, pc, q) => Prepared(k)
  PROVE  RulesInv'
<1>1. PICK r : r = cmd.mem
  OBVIOUS
<1>2. Sound(r, cmd.dep) /\ Prepared(cmd)
  BY <1>1, CommandIsSound
<1>3. Sound(q, cmd.dep) /\ Allowed(r, q) /\ Alike(r, q)
  BY <1>1, <1>2, TerminationAlike
<1>4. /\ children' \subseteq children
      /\ Len(q.steps) = Len(cmd.mem.steps) /\ q.removals = cmd.mem.removals
      /\ Acts(cmd) => ~q.abandoned
      /\ Quiet(cmd.mem) => Quiet(q)
  BY <1>1, <1>2, <1>3 DEF Alike, Prepared
<1>5. \A k : Moves(k, pc, q) => Prepared(k)
  BY <1>1, <1>3
<1> QED  BY <1>1, <1>3, <1>4, <1>5, PersistToRules

LEMMA FenceKeyRules ==
  ASSUME Known, FenceKey
  PROVE  RulesInv'
<1>1. PICK r : r = cmd.mem
  OBVIOUS
<1>2. PICK q : q = Fenced(r)
  OBVIOUS
<1>3. cmd # None /\ cmd.pc = "key" /\ Persist(q, To("keyed")) /\ children' = children
  BY <1>1, <1>2 DEF FenceKey, At
<1>4. Sound(r, cmd.dep) /\ Prepared(cmd)
  BY <1>1, <1>3, CommandIsSound
<1>5. cmd.op = "create" /\ r.steps = <<>> /\ ~r.health /\ r.removals = 0 /\ ~r.abandoned /\ (cmd.fence # 0 => FALSE)
  BY <1>1, <1>3, <1>4 DEF Prepared, ToCreate, ToRemove, Acts, Ended
<1>6. ASSUME Sound(q, cmd.dep), Alike(r, q), NEW k, Moves(k, "keyed", q)
      PROVE  Prepared(k)
  <2>1. Typed(q) /\ Directed(q)
    BY <1>6 DEF Sound
  <2>2. ToCreate(k)
    BY <1>5, <1>6 DEF ToCreate, Moves, Ended, Alike
  <2>3. ToAbandon(k) /\ ToObserve(k) /\ ToFail(k)
    BY <1>5, <1>6 DEF ToAbandon, ToObserve, ToFail, Moves
  <2> QED  BY <1>3, <1>4, <1>5, <1>6, <2>1, <2>2, <2>3 DEF Prepared, Moves, Acts, Ended, Alike
<1> QED  BY <1>1, <1>2, <1>3, <1>6, TerminationRules

LEMMA FenceObserveRules ==
  ASSUME Known, FenceObserve
  PROVE  RulesInv'
<1>1. PICK r : r = cmd.mem
  OBVIOUS
<1>2. PICK q : q = Fenced(r)
  OBVIOUS
<1>3. cmd # None /\ cmd.pc = "observe" /\ Persist(q, To("look")) /\ children' = children
  BY <1>1, <1>2 DEF FenceObserve, At
<1>4. Sound(r, cmd.dep) /\ Prepared(cmd)
  BY <1>1, <1>3, CommandIsSound
<1>5. ASSUME Sound(q, cmd.dep), Alike(r, q), NEW k, Moves(k, "look", q)
      PROVE  Prepared(k)
  <2>1. Typed(q) /\ Directed(q)
    BY <1>5 DEF Sound
  <2>2. IF k.op = "create" THEN ToCreate(k) ELSE ToRemove(k)
    BY <1>1, <1>3, <1>4, <1>5 DEF Prepared, ToCreate, ToRemove, Moves, Ended, Alike
  <2>3. ToAbandon(k)
    BY <1>1, <1>3, <1>4, <1>5 DEF Prepared, ToAbandon, Moves, Alike
  <2>4. ToObserve(k)
    BY <1>1, <1>3, <1>4, <1>5 DEF Prepared, ToObserve, Moves, Alike
  <2>5. ToFail(k)
    BY <1>5 DEF ToFail, Moves
  <2> QED  BY <1>1, <1>3, <1>4, <1>5, <2>1, <2>2, <2>3, <2>4, <2>5 DEF Prepared, Moves, Acts, Ended, Alike
<1> QED  BY <1>1, <1>2, <1>3, <1>5, TerminationRules

LEMMA FenceHealthRules ==
  ASSUME Known, FenceHealth
  PROVE  RulesInv'
<1>1. PICK r : r = cmd.mem
  OBVIOUS
<1>2. PICK q : q = Fenced(r)
  OBVIOUS
<1>3. cmd # None /\ cmd.pc = "health" /\ Persist(q, To("probe")) /\ children' = children
  BY <1>1, <1>2 DEF FenceHealth, At
<1>4. Sound(r, cmd.dep) /\ Prepared(cmd)
  BY <1>1, <1>3, CommandIsSound
<1>5. ASSUME Sound(q, cmd.dep), Alike(r, q), NEW k, Moves(k, "probe", q)
      PROVE  Prepared(k)
  <2>1. Typed(q) /\ Directed(q)
    BY <1>5 DEF Sound
  <2>2. IF k.op = "create" THEN ToCreate(k) ELSE ToRemove(k)
    BY <1>1, <1>3, <1>4, <1>5 DEF Prepared, ToCreate, ToRemove, Moves, Ended, Alike
  <2>3. ToAbandon(k)
    BY <1>1, <1>3, <1>4, <1>5 DEF Prepared, ToAbandon, Moves, Alike
  <2>4. ToObserve(k)
    BY <1>1, <1>3, <1>4, <1>5 DEF Prepared, ToObserve, Moves, Alike
  <2>5. ToFail(k)
    BY <1>5 DEF ToFail, Moves
  <2> QED  BY <1>1, <1>3, <1>4, <1>5, <2>1, <2>2, <2>3, <2>4, <2>5 DEF Prepared, Moves, Acts, Ended, Alike
<1> QED  BY <1>1, <1>2, <1>3, <1>5, TerminationRules

LEMMA ProbeRules ==
  ASSUME Known, Probe
  PROVE  RulesInv'
<1>1. PICK r : r = cmd.mem
  OBVIOUS
<1>2. PICK q : q = Confirmed(r)
  OBVIOUS
<1>3. cmd # None /\ cmd.pc = "probe" /\ children' = children
  BY DEF Probe, At
<1>4. PICK pc \in {"end", "healthy"} : Persist(q, To(pc))
  <2>1. \A pc : pc \in {"end"} \cup (IF InstanceOf(cmd.dep) # {} THEN {"healthy"} ELSE {}) => pc \in {"end", "healthy"}
    OBVIOUS
  <2> QED  BY <1>1, <1>2, <2>1 DEF Probe
<1>5. Sound(r, cmd.dep) /\ Prepared(cmd)
  BY <1>1, <1>3, CommandIsSound
<1>6. q.termination = "confirmed"
  BY <1>2, <1>5, TerminationAlike
<1>7. ASSUME Sound(q, cmd.dep), Alike(r, q), NEW k, Moves(k, pc, q)
      PROVE  Prepared(k)
  <2>1. Typed(q) /\ Directed(q)
    BY <1>7 DEF Sound
  <2>2. IF k.op = "create" THEN ToCreate(k) ELSE ToRemove(k)
    BY <1>1, <1>3, <1>4, <1>5, <1>7 DEF Prepared, ToCreate, ToRemove, Moves, Ended, Alike
  <2>3. ToAbandon(k)
    BY <1>1, <1>3, <1>4, <1>5, <1>7 DEF Prepared, ToAbandon, Moves, Alike
  <2>4. ToObserve(k)
    BY <1>1, <1>3, <1>4, <1>5, <1>7 DEF Prepared, ToObserve, Moves, Alike
  <2>5. ToFail(k)
    BY <1>4, <1>7 DEF ToFail, Moves
  <2> QED  BY <1>1, <1>3, <1>4, <1>5, <1>6, <1>7, <2>1, <2>2, <2>3, <2>4, <2>5 DEF Prepared, Moves, Acts, Ended, Alike
<1> QED  BY <1>1, <1>2, <1>3, <1>4, <1>7, TerminationRules

LEMMA KeyGeneratedRules ==
  ASSUME Known, KeyGenerated
  PROVE  RulesInv'
<1>1. PICK r : r = cmd.mem
  OBVIOUS
<1>2. PICK q : q = [Confirmed(r) EXCEPT !.key = TRUE]
  OBVIOUS
<1>3. cmd # None /\ cmd.pc = "keyed" /\ Persist(q, To("next")) /\ children' = children
  BY <1>1, <1>2 DEF KeyGenerated, At
<1>4. Sound(r, cmd.dep) /\ Prepared(cmd)
  BY <1>1, <1>3, CommandIsSound
<1>5. cmd.op = "create" /\ r.steps = <<>> /\ ~r.health /\ r.removals = 0 /\ ~r.abandoned /\ (cmd.fence # 0 => FALSE)
  BY <1>1, <1>3, <1>4 DEF Prepared, ToCreate, ToRemove, Acts, Ended
<1>6. /\ Sound(q, cmd.dep) /\ Allowed(r, q)
      /\ Keeps(r, q, {"termination", "key"}) /\ q.termination = "confirmed" /\ q.key
  <2>1. Sound(r, cmd.dep) /\ r.steps = <<>> /\ q = [Confirmed(r) EXCEPT !.key = TRUE]
    BY <1>2, <1>4, <1>5
  <2> QED  BY ONLY <2>1, KeyAllowed
<1>7. /\ q.steps = r.steps /\ q.removals = r.removals /\ q.health = r.health /\ q.abandoned = r.abandoned
      /\ \A field \in {"id", "reuse", "steps", "implicit", "latest"} : q[field] = r[field]
  BY <1>6 DEF Keeps, Fields
<1>8. Quiet(r) => Quiet(q)
  BY <1>7, SameResources
<1>9. ASSUME NEW k, Moves(k, "next", q)
      PROVE  Prepared(k)
  <2>1. Typed(q) /\ Directed(q)
    BY <1>6 DEF Sound
  <2>2. ToCreate(k)
    BY <1>5, <1>6, <1>7, <1>9 DEF ToCreate, Moves, Ended
  <2>3. ToAbandon(k) /\ ToObserve(k) /\ ToFail(k)
    BY <1>5, <1>9 DEF ToAbandon, ToObserve, ToFail, Moves
  <2> QED  BY <1>3, <1>4, <1>5, <1>6, <1>7, <1>9, <2>1, <2>2, <2>3 DEF Prepared, Moves, Acts, Ended
<1>10. /\ cmd.pc \notin {"fail", "end"} /\ children' \subseteq children
       /\ Len(q.steps) = Len(cmd.mem.steps) /\ q.removals = cmd.mem.removals
       /\ Acts(cmd) => ~q.abandoned
  BY <1>1, <1>3, <1>5, <1>7
<1> QED  BY <1>1, <1>3, <1>6, <1>8, <1>9, <1>10, PersistToRules

LEMMA RecordHealthRules ==
  ASSUME Known, RecordHealth
  PROVE  RulesInv'
<1>1. PICK r : r = cmd.mem
  OBVIOUS
<1>2. PICK q : q = [r EXCEPT !.health = TRUE]
  OBVIOUS
<1>3. cmd # None /\ cmd.pc = "healthy" /\ Persist(q, To("end")) /\ children' = children
  BY <1>1, <1>2 DEF RecordHealth, At
<1>4. Sound(r, cmd.dep) /\ Prepared(cmd)
  BY <1>1, <1>3, CommandIsSound
<1>5. HealthDue(r) /\ r.termination = "confirmed" /\ (Acts(cmd) => ~r.abandoned)
  BY <1>1, <1>3, <1>4 DEF Prepared, ToObserve
<1>6. Sound(q, cmd.dep) /\ Allowed(r, q) /\ Keeps(r, q, {"health"})
  BY <1>2, <1>4, <1>5, HealthAllowed
<1>7. /\ q.steps = r.steps /\ q.removals = r.removals /\ q.abandoned = r.abandoned
      /\ \A field \in {"id", "reuse", "steps", "implicit", "latest"} : q[field] = r[field]
  BY <1>6 DEF Keeps, Fields
<1>8. Quiet(r) => Quiet(q)
  BY <1>7, SameResources
<1>9. /\ cmd.pc \notin {"fail", "end"} /\ children' \subseteq children
      /\ Len(q.steps) = Len(cmd.mem.steps) /\ q.removals = cmd.mem.removals
      /\ Acts(cmd) => ~q.abandoned
  BY <1>1, <1>3, <1>5, <1>7
<1>10. ASSUME NEW k, Moves(k, "end", q)
       PROVE  Prepared(k)
  <2>1. /\ k.mem = q /\ k.op = cmd.op /\ k.fence = cmd.fence /\ k.pc \in {"fail", "end"}
        /\ k.pc = "fail" => k.outcome = "uncertain" /\ cmd.pc # "end"
    BY <1>10 DEF Moves
  <2> QED  BY <1>3, <1>6, <1>9, <2>1, GivenUp
<1> QED  BY <1>1, <1>3, <1>6, <1>8, <1>9, <1>10, PersistToRules

LEMMA LookRules ==
  ASSUME Known, Look
  PROVE  RulesInv'
<1>1. PICK r : r = cmd.mem
  OBVIOUS
<1>2. PICK q : q = Confirmed(r)
  OBVIOUS
<1>3. PICK next : next = [cmd EXCEPT !.pc = "reconcile", !.observation = Observe(r)]
  OBVIOUS
<1>4. cmd # None /\ cmd.pc = "look" /\ Persist(q, next) /\ children' = children
  BY <1>1, <1>2, <1>3 DEF Look, At
<1>5. Sound(r, cmd.dep) /\ Prepared(cmd) /\ IsCommand(cmd) /\ Sees(r, cmd.dep)
  BY <1>1, <1>4, CommandIsSound
<1>6. Sound(q, cmd.dep) /\ Allowed(r, q) /\ Alike(r, q) /\ q.termination = "confirmed"
  BY <1>2, <1>5, TerminationAlike
<1>7. Fresh(Observe(r), q)
  <2>1. Fresh(Observe(r), r)
    BY <1>5, ObservedIsFresh
  <2>2. Keeps(r, q, {"termination"})
    BY <1>2, <1>5, TerminationAllowed
  <2> QED  BY <2>1, <2>2, FreshStays
<1>8. PICK k : k = [next EXCEPT !.mem = q]
  OBVIOUS
<1>9. /\ k.pc = "reconcile" /\ k.mem = q /\ k.observation = Observe(r) /\ k.op = cmd.op /\ k.fence = cmd.fence
      /\ k.approval = cmd.approval /\ k.confirmed = cmd.confirmed
      /\ DOMAIN next = DOMAIN cmd /\ next.dep = cmd.dep /\ next.pc = "reconcile"
  BY <1>3, <1>5, <1>8 DEF IsCommand
<1>10. Prepared(k)
  <2>1. Typed(q) /\ Directed(q)
    BY <1>6 DEF Sound
  <2>2. IF k.op = "create" THEN ToCreate(k) ELSE ToRemove(k)
    BY <1>1, <1>4, <1>5, <1>6, <1>9 DEF Prepared, ToCreate, ToRemove, Ended, Alike
  <2>3. ToAbandon(k)
    BY <1>1, <1>4, <1>5, <1>6, <1>9 DEF Prepared, ToAbandon, Alike
  <2>4. ToObserve(k)
    BY <1>1, <1>4, <1>5, <1>6, <1>7, <1>9 DEF Prepared, ToObserve, Alike
  <2>5. ToFail(k)
    BY <1>9 DEF ToFail
  <2> QED  BY <1>1, <1>4, <1>5, <1>6, <1>9, <2>1, <2>2, <2>3, <2>4, <2>5 DEF Prepared, Acts, Ended, Alike
<1>11. /\ cmd.pc \notin {"fail", "end"} /\ children' \subseteq children
       /\ Len(q.steps) = Len(cmd.mem.steps) /\ q.removals = cmd.mem.removals
       /\ Acts(cmd) => ~q.abandoned
       /\ Quiet(cmd.mem) => Quiet(q)
       /\ next.pc \notin {"reserve", "call"}
  BY <1>1, <1>4, <1>5, <1>6, <1>9 DEF Alike, Prepared
<1> QED  BY <1>1, <1>4, <1>6, <1>8, <1>9, <1>10, <1>11, PersistQuietly

-----------------------------------------------------------------------------
(* What a reconciled record keeps of the record.                             *)
LEMMA ReconciledKeeps ==
  ASSUME NEW d, NEW r, NEW q, NEW observation, Sound(r, d), q = Reconciled(r, observation), Fresh(observation, r)
  PROVE  /\ Sound(q, d) /\ Allowed(r, q) /\ (Quiet(r) => Quiet(q))
         /\ q.termination = r.termination /\ q.removals = r.removals /\ q.key = r.key /\ q.health = r.health
         /\ q.abandoned = r.abandoned /\ q.reuse = r.reuse /\ q.latest = observation
         /\ Len(q.steps) = Len(r.steps) /\ (q.steps # <<>> <=> r.steps # <<>>)
         /\ r.steps # <<>> => LastStep(q).removal = LastStep(r).removal /\ LastStep(q).action = LastStep(r).action
         /\ Returned(q, "attach-volume") <=> Returned(r, "attach-volume")
         /\ Stuck(q) => Stuck(r)
<1>1. Sound(q, d) /\ Allowed(r, q) /\ (Quiet(r) => Quiet(q))
  BY ReconciledIsAllowed, ReconciledIsQuiet
<1>2. /\ Advances(r, q) /\ Shaped(q, d) /\ Keeps(r, q, {"steps", "latest", "implicit"}) /\ q.latest = observation
      /\ \A i \in DOMAIN r.steps : q.steps[i].returned = r.steps[i].returned
  BY ReconciledSteps
<1>3. /\ q.termination = r.termination /\ q.removals = r.removals /\ q.key = r.key /\ q.health = r.health
      /\ q.abandoned = r.abandoned /\ q.reuse = r.reuse
  BY <1>2 DEF Keeps, Fields
<1>4. Shaped(r, d)
  BY DEF Sound
<1>5. /\ Len(q.steps) = Len(r.steps)
      /\ \A i \in DOMAIN r.steps :
           /\ q.steps[i].action = r.steps[i].action /\ q.steps[i].removal = r.steps[i].removal
           /\ IsOpen(q.steps[i]) => IsOpen(r.steps[i])
      /\ StepOf(q, "attach-volume") = StepOf(r, "attach-volume")
  BY <1>2, <1>4, AdvancesStates
<1>6. IsSeq(r.steps) /\ IsSeq(q.steps) /\ DOMAIN q.steps = DOMAIN r.steps
  BY <1>2, <1>4 DEF Shaped, Advances
<1>7. (q.steps # <<>> <=> r.steps # <<>>) /\ (r.steps # <<>> => Len(r.steps) \in DOMAIN r.steps)
  BY <1>5, <1>6, SeqFacts, EmptySteps
<1>8. r.steps # <<>> => LastStep(q).removal = LastStep(r).removal /\ LastStep(q).action = LastStep(r).action
  BY <1>5, <1>7 DEF LastStep
<1>9. Returned(q, "attach-volume") <=> Returned(r, "attach-volume")
  <2>1. StepOf(r, "attach-volume") # 0 => StepOf(r, "attach-volume") \in DOMAIN r.steps
    BY <1>6, StepOfFound
  <2> QED  BY <1>2, <1>5, <2>1 DEF Returned
<1>10. Stuck(q) => Stuck(r)
  BY <1>5, <1>6 DEF Stuck
<1> QED  BY <1>1, <1>2, <1>3, <1>5, <1>7, <1>8, <1>9, <1>10

LEMMA ReconcileRules ==
  ASSUME Known, Reconcile
  PROVE  RulesInv'
<1>1. PICK r : r = cmd.mem
  OBVIOUS
<1>2. PICK observation : observation = cmd.observation
  OBVIOUS
<1>3. PICK q : q = Reconciled(r, observation)
  OBVIOUS
<1>4. PICK next : next = IF ~Verifying THEN To("observed")
             ELSE IF ~Matches(r, observation)
             THEN [cmd EXCEPT !.pc = "fail", !.outcome = "uncertain"]
             ELSE IF LastStep(r).action = "attach-volume" /\ r.reuse # None
             THEN To("settle") ELSE To("next")
  OBVIOUS
<1>5. cmd # None /\ cmd.pc = "reconcile" /\ Persist(q, next) /\ children' = children
  BY <1>1, <1>2, <1>3, <1>4 DEF Reconcile, At
<1>6. Sound(r, cmd.dep) /\ Prepared(cmd) /\ IsCommand(cmd)
  BY <1>1, <1>5, CommandIsSound
<1>7. Fresh(observation, r) /\ (cmd.fence # 0 => LastStep(r).returned) /\ observation # None
  BY <1>1, <1>2, <1>5, <1>6 DEF Prepared, ToObserve, Fresh
<1>8. /\ Sound(q, cmd.dep) /\ Allowed(r, q) /\ (Quiet(r) => Quiet(q))
      /\ q.termination = r.termination /\ q.removals = r.removals /\ q.key = r.key /\ q.health = r.health
      /\ q.abandoned = r.abandoned /\ q.reuse = r.reuse /\ q.latest = observation
      /\ Len(q.steps) = Len(r.steps) /\ (q.steps # <<>> <=> r.steps # <<>>)
      /\ r.steps # <<>> => LastStep(q).removal = LastStep(r).removal /\ LastStep(q).action = LastStep(r).action
      /\ Returned(q, "attach-volume") <=> Returned(r, "attach-volume")
      /\ Stuck(q) => Stuck(r)
  BY <1>3, <1>6, <1>7, ReconciledKeeps
<1>9. r.steps # <<>> =>
        /\ Matches(q, observation) => StateOf(LastStep(q)) # "returned"
        /\ Matches(r, observation) /\ LastStep(r).returned => StateOf(LastStep(q)) = "verified"
  BY <1>3, <1>6, ReconciledEnds
<1>10. PICK k : k = [next EXCEPT !.mem = q]
  OBVIOUS
<1>11. /\ DOMAIN next = DOMAIN cmd /\ next.dep = cmd.dep /\ next.pc = k.pc
       /\ k.mem = q /\ k.op = cmd.op /\ k.fence = cmd.fence /\ k.approval = cmd.approval
       /\ k.observation = observation /\ k.confirmed = cmd.confirmed
       /\ \/ k.pc = "observed" /\ cmd.fence = 0
          \/ k.pc = "fail" /\ k.outcome = "uncertain"
          \/ k.pc \in {"settle", "next"} /\ cmd.fence # 0 /\ Matches(r, observation)
  BY <1>2, <1>4, <1>6, <1>10 DEF IsCommand, To, Verifying
<1>12. /\ cmd.pc \notin {"fail", "end"} /\ children' \subseteq children
       /\ Len(q.steps) = Len(cmd.mem.steps) /\ q.removals = cmd.mem.removals
       /\ Acts(cmd) => ~q.abandoned
  BY <1>1, <1>5, <1>6, <1>8 DEF Prepared
<1>13. Prepared(k)
  <2>1. CASE k.pc = "fail"
    BY <1>5, <1>8, <1>11, <1>12, <2>1, GivenUp
  <2>2. CASE k.pc # "fail"
    <3>1. Typed(q) /\ Directed(q)
      BY <1>8 DEF Sound
    <3>2. /\ r.termination = "confirmed" /\ cmd.confirmed /\ ~(cmd.op # "create" /\ cmd.approval /\ cmd.fence # 0)
          /\ cmd.fence # 0 => r.steps # <<>> /\ cmd.fence = Len(r.steps) /\ cmd.op \in {"create", "remove"}
          /\ Acts(cmd) => ~r.abandoned
      BY <1>1, <1>5, <1>6 DEF Prepared, Ended
    <3>3. k.pc \in {"settle", "next"} => q.steps # <<>> /\ StateOf(LastStep(q)) = "verified"
      BY <1>7, <1>8, <1>9, <1>11, <2>2, <3>2
    <3>4. ASSUME k.op = "create"
          PROVE  ToCreate(k)
      <4>1. r.removals = 0 /\ ~r.health /\ r.key
        BY <1>1, <1>5, <1>6, <1>11, <3>4 DEF Prepared, ToCreate, Ended
      <4> QED  BY <1>8, <1>11, <2>2, <3>3, <4>1 DEF ToCreate, Ended
    <3>5. ASSUME k.op # "create"
          PROVE  ToRemove(k)
      <4>1. cmd.fence # 0 => LastStep(r).removal # 0
        BY <1>1, <1>5, <1>6, <1>11, <3>5 DEF Prepared, ToRemove
      <4> QED  BY <1>8, <1>11, <2>2, <3>2, <3>3, <3>5, <4>1 DEF ToRemove
    <3>6. ToAbandon(k)
      <4>1. cmd.op = "abandon" =>
              /\ ~r.abandoned
              /\ ~Returned(r, "attach-volume")
              /\ ~Stuck(r)
              /\ Quiet(r)
        BY <1>1, <1>5, <1>6 DEF Prepared, ToAbandon
      <4> QED  BY <1>8, <1>11, <4>1 DEF ToAbandon
    <3>7. ToObserve(k)
      BY <1>7, <1>8, <1>9, <1>11, <2>2 DEF ToObserve
    <3>8. ToFail(k)
      BY <2>2 DEF ToFail
    <3> QED  BY <1>8, <1>11, <2>2, <3>1, <3>2, <3>4, <3>5, <3>6, <3>7, <3>8 DEF Prepared, Acts, Ended
  <2> QED  BY <2>1, <2>2
<1>14. next.pc \notin {"reserve", "call"}
  BY <1>11
<1> QED  BY <1>1, <1>5, <1>8, <1>10, <1>11, <1>12, <1>13, <1>14, PersistQuietly

-----------------------------------------------------------------------------
(* The command goes on, or ends, and writes nothing.                         *)

LEMMA MoveRules ==
  ASSUME Known, cmd # None, UNCHANGED <<disk, refused>>, NEW k, cmd' = k, Prepared(k),
         Quiet(cmd.mem) => Quiet(k.mem), k.dep = cmd.dep, k.pc # "reserve", ReportsFit'
  PROVE  RulesInv'
<1>1. Existing' = Existing /\ \A d : Reuses(d)' <=> Reuses(d)
  BY DEF Existing, Reuses
<1>2. /\ refused' = FALSE
      /\ \A d \in Existing : Typed(disk'[d])
      /\ \A e \in Existing : Reuses(e) => Quiet(disk'[e - 1])
  BY DEF Known, RulesInv
<1>3. /\ Reuses(k.dep + 1) => Quiet(k.mem)
      /\ \A d \in Existing \ {k.dep} : disk'[d].termination = "confirmed"
  BY DEF Known, RulesInv
<1> QED  BY <1>1, <1>2, <1>3 DEF RulesInv

LEMMA QuietMoveRules ==
  ASSUME Known, cmd # None, UNCHANGED <<disk, refused>>, children' \subseteq children, NEW k, cmd' = k, Prepared(k),
         k.mem = cmd.mem, k.dep = cmd.dep, k.pc \notin {"reserve", "call"}
  PROVE  RulesInv'
BY SameDiskGrows, QuietReports, MoveRules

(* One that gives up, or ends.                                               *)
LEMMA GivingUpRules ==
  ASSUME Known, cmd # None, UNCHANGED <<disk, refused>>, children' \subseteq children, NEW k, cmd' = k,
         k.mem = cmd.mem, k.dep = cmd.dep, k.op = cmd.op, k.fence = cmd.fence, k.pc \in {"fail", "end"},
         k.pc = "fail" => k.outcome = "uncertain" /\ cmd.pc # "end"
  PROVE  RulesInv'
<1>1. Sound(cmd.mem, cmd.dep) /\ (Acts(cmd) => ~cmd.mem.abandoned)
  BY CommandIsSound DEF Prepared
<1>2. Prepared(k)
  BY <1>1, GivenUp
<1> QED  BY <1>2, QuietMoveRules

LEMMA FinishRules ==
  ASSUME Known, Finish
  PROVE  RulesInv'
<1>1. PICK r : r = cmd.mem
  OBVIOUS
<1>2. PICK k : k = To(IF cmd.op = "create" THEN "health" ELSE "end")
  OBVIOUS
<1>3. /\ cmd # None /\ cmd.pc = "next" /\ Planned = None /\ cmd' = k /\ UNCHANGED <<disk, refused>>
      /\ children' \subseteq children
  BY <1>2 DEF Finish, At
<1>4. Sound(r, cmd.dep) /\ Prepared(cmd) /\ IsCommand(cmd)
  BY <1>1, <1>3, CommandIsSound
<1>5. Moves(k, k.pc, r) /\ k.pc = IF cmd.op = "create" THEN "health" ELSE "end"
  BY <1>1, <1>2, <1>4, ToMoves DEF Moves
<1>6. CASE cmd.op # "create"
  BY <1>1, <1>3, <1>5, <1>6, GivingUpRules DEF Moves
<1>7. CASE cmd.op = "create"
  <2>1. /\ r.removals = 0 /\ ~r.health /\ r.key /\ NextCreation(r) = None
        /\ r.steps # <<>> => StateOf(LastStep(r)) = "verified" \/ Declined(LastStep(r))
    BY <1>1, <1>3, <1>4, <1>7 DEF Prepared, ToCreate, Ended, Planned
  <2>2. HealthDue(r)
    BY <1>4, <2>1, CreationFinished
  <2>3. ToCreate(k)
    BY <1>5, <1>7, <2>1 DEF ToCreate, Moves, Ended
  <2>4. ToAbandon(k) /\ ToObserve(k) /\ ToFail(k)
    BY <1>5, <1>7, <2>2 DEF ToAbandon, ToObserve, ToFail, Moves
  <2>5. Prepared(k)
    BY <1>1, <1>3, <1>4, <1>5, <1>7, <2>3, <2>4 DEF Prepared, Moves, Acts, Ended
  <2> QED  BY <1>1, <1>3, <1>5, <1>7, <2>5, QuietMoveRules DEF Moves
<1> QED  BY <1>6, <1>7

LEMMA CallBreaksRules ==
  ASSUME Known, CallBreaks
  PROVE  RulesInv'
<1>1. PICK confirmed \in BOOLEAN :
        /\ cmd' = [cmd EXCEPT !.pc = "fail", !.outcome = "uncertain", !.confirmed = confirmed]
        /\ children' = IF confirmed THEN {c \in children : ~Attended(c)} ELSE children
  BY DEF CallBreaks
<1>2. PICK k : k = [cmd EXCEPT !.pc = "fail", !.outcome = "uncertain", !.confirmed = confirmed]
  OBVIOUS
<1>3. cmd # None /\ cmd.pc # "end" /\ children' \subseteq children /\ UNCHANGED <<disk, refused>>
  BY <1>1 DEF CallBreaks, At
<1>4. IsCommand(cmd)
  BY <1>3, CommandIsSound
<1>5. /\ k.mem = cmd.mem /\ k.dep = cmd.dep /\ k.op = cmd.op /\ k.fence = cmd.fence
      /\ k.pc = "fail" /\ k.outcome = "uncertain"
  BY <1>2, <1>4 DEF IsCommand
<1> QED  BY <1>1, <1>2, <1>3, <1>5, GivingUpRules

LEMMA CancelRules ==
  ASSUME Known, Cancel
  PROVE  RulesInv'
<1>1. PICK k : k = [cmd EXCEPT !.pc = "fail",
                        !.outcome = IF cmd.pc = "fenced" THEN "unattempted" ELSE "uncertain"]
  OBVIOUS
<1>2. /\ cmd # None /\ cmd.pc \in {"next", "fenced", "observe", "health"} /\ cmd' = k
      /\ children' \subseteq children /\ UNCHANGED <<disk, refused>>
  BY <1>1 DEF Cancel, At
<1>3. IsCommand(cmd) /\ Prepared(cmd)
  BY <1>2, CommandIsSound
<1>4. /\ k.mem = cmd.mem /\ k.dep = cmd.dep /\ k.op = cmd.op /\ k.fence = cmd.fence /\ k.pc = "fail"
      /\ k.confirmed = cmd.confirmed /\ k.approval = cmd.approval
      /\ k.outcome = IF cmd.pc = "fenced" THEN "unattempted" ELSE "uncertain"
  BY <1>1, <1>3 DEF IsCommand
<1>5. CASE cmd.pc # "fenced"
  BY <1>2, <1>4, <1>5, GivingUpRules
<1>6. CASE cmd.pc = "fenced"
  <2>1. IF k.op = "create" THEN ToCreate(k) ELSE ToRemove(k)
    BY <1>3, <1>4, <1>6 DEF Prepared, ToCreate, ToRemove, Ended
  <2>2. ToAbandon(k) /\ ToObserve(k) /\ ToFail(k)
    BY <1>3, <1>4, <1>6 DEF Prepared, ToAbandon, ToObserve, ToFail, Ended
  <2>3. Prepared(k)
    BY <1>3, <1>4, <1>6, <2>1, <2>2 DEF Prepared, Acts, Ended
  <2> QED  BY <1>2, <1>4, <2>3, QuietMoveRules
<1> QED  BY <1>5, <1>6

LEMMA SpawnRules ==
  ASSUME Known, Spawn
  PROVE  RulesInv'
<1>1. PICK k : k = To("call")
  OBVIOUS
<1>2. cmd # None /\ cmd.pc = "fenced" /\ cmd' = k /\ UNCHANGED <<disk, refused>>
  BY <1>1 DEF Spawn, At
<1>3. IsCommand(cmd) /\ Prepared(cmd)
  BY <1>2, CommandIsSound
<1>4. Moves(k, "call", cmd.mem)
  BY <1>1, <1>3, ToMoves
<1>5. children = {}
  BY <1>2, NoChildNoCall DEF Known, MayHaveChild
<1>6. \A c \in children' : c.phase = "spawned"
  BY <1>5 DEF Spawn
<1>7. ReportsFit'
  BY <1>6 DEF ReportsFit
<1>8. IF k.op = "create" THEN ToCreate(k) ELSE ToRemove(k)
  BY <1>2, <1>3, <1>4 DEF Prepared, ToCreate, ToRemove, Ended, Moves
<1>9. ToAbandon(k) /\ ToObserve(k) /\ ToFail(k)
  BY <1>2, <1>3, <1>4 DEF Prepared, ToAbandon, ToObserve, ToFail, Ended, Moves
<1>10. Prepared(k)
  BY <1>2, <1>3, <1>4, <1>8, <1>9 DEF Prepared, Acts, Ended, Moves
<1> QED  BY <1>2, <1>4, <1>7, <1>10, MoveRules DEF Moves

LEMMA DecideRules ==
  ASSUME Known, Decide
  PROVE  RulesInv'
<1>1. PICK r : r = cmd.mem
  OBVIOUS
<1>2. PICK k : k = cmd'
  OBVIOUS
<1>3. /\ cmd # None /\ cmd.pc = "observed" /\ cmd' = k /\ UNCHANGED <<disk, refused>> /\ children' \subseteq children
  BY <1>2 DEF Decide, At
<1>4. Sound(r, cmd.dep) /\ Prepared(cmd) /\ IsCommand(cmd)
  BY <1>1, <1>3, CommandIsSound
<1>5. /\ k.mem = r /\ k.dep = cmd.dep /\ k.op = cmd.op /\ k.fence = cmd.fence /\ k.confirmed = cmd.confirmed
      /\ \/ k.pc = "end"
         \/ /\ k.pc = "next" /\ cmd.op = "remove" /\ k.approval
            /\ Unreleased(r) # {} /\ Removable(r) /\ Matches(r, cmd.observation)
         \/ k.pc = "approve" /\ cmd.op = "reuse"
         \/ k.pc = "abandon" /\ cmd.op = "abandon" /\ Matches(r, cmd.observation)
         \/ k.pc = "health" /\ cmd.op = "inspect" /\ HealthDue(r)
  BY <1>1, <1>2, <1>3, <1>4 DEF Decide, To, IsCommand
<1>6. /\ cmd.fence = 0 /\ cmd.confirmed /\ r.latest = cmd.observation /\ r.latest # None
      /\ Matches(r, r.latest) /\ r.steps # <<>> => StateOf(LastStep(r)) # "returned"
      /\ r.termination = "confirmed"
  BY <1>1, <1>3, <1>4 DEF Prepared, ToObserve, Ended
<1>7. CASE k.pc = "end"
  BY <1>1, <1>3, <1>5, <1>7, GivingUpRules
<1>8. CASE k.pc # "end"
  <2>1. cmd.op # "create" /\ cmd.op \in {"remove", "reuse", "abandon", "inspect"}
    BY <1>5, <1>8
  <2>2. k.pc = "next" => /\ r.steps # <<>> /\ Over(LastStep(r)) /\ ~r.abandoned
                         /\ Removable(r) /\ Matches(r, r.latest) /\ k.approval
    <3> SUFFICES ASSUME k.pc = "next"
                 PROVE  r.steps # <<>> /\ Over(LastStep(r)) /\ ~r.abandoned
      BY <1>5, <1>6
    <3>1. Unreleased(r) # {} /\ Removable(r) /\ Matches(r, r.latest)
      BY <1>5, <1>6
    <3>2. IsSeq(r.steps) /\ AbandonmentRecorded(r) /\ r.abandoned \in {r.abandoned}
      BY <1>4 DEF Sound, Shaped, IsConsistent
    <3>3. ~r.abandoned
      BY <3>1, <3>2 DEF AbandonmentRecorded
    <3>4. PICK p \in Removals : Returned(r, REMOVALS[p][2])
      BY <3>1 DEF Removable, RemovalPlan
    <3>5. StepOf(r, REMOVALS[p][2]) # 0
      BY <3>4 DEF Returned
    <3>6. StepOf(r, REMOVALS[p][2]) \in DOMAIN r.steps
      BY <3>2, <3>5, StepOfFound
    <3>7. r.steps # <<>>
      BY <3>6, EmptySteps
    <3>8. Len(r.steps) \in DOMAIN r.steps
      BY <3>2, <3>7, SeqFacts
    <3>9. Settled(LastStep(r)) /\ StateOf(LastStep(r)) # "returned"
      BY <1>6, <3>1, <3>7, <3>8 DEF Removable, LastStep
    <3>10. Over(LastStep(r))
      BY <3>9 DEF Settled, Over
    <3> QED  BY <3>3, <3>7, <3>10
  <2>3. ToRemove(k)
    BY <1>5, <1>6, <2>2 DEF ToRemove
  <2>4. ToAbandon(k)
    BY <1>1, <1>3, <1>4, <1>5, <1>6, <1>8 DEF ToAbandon, Prepared
  <2>5. ToObserve(k) /\ ToFail(k)
    BY <1>5, <1>6, <1>8 DEF ToObserve, ToFail
  <2>6. Prepared(k)
    BY <1>1, <1>4, <1>5, <1>6, <1>8, <2>1, <2>2, <2>3, <2>4, <2>5 DEF Prepared, Acts, Ended
  <2> QED  BY <1>1, <1>3, <1>5, <1>8, <2>6, QuietMoveRules
<1> QED  BY <1>7, <1>8

-----------------------------------------------------------------------------
(* The fence, and the abandonment of a record.                               *)

LEMMA OwnWriteRules ==
  ASSUME Known, cmd # None, cmd.pc \notin {"fail", "end"}, children' \subseteq children,
         NEW record, Sound(record, cmd.dep), Allowed(cmd.mem, record),
         Reuses(cmd.dep + 1) /\ Quiet(cmd.mem) => Quiet(record),
         NEW done, Prepared(done), done.mem = record, done.dep = cmd.dep, done.pc \notin {"reserve", "call"},
         NEW failed, Prepared(failed), failed.mem \in {record, cmd.mem}, failed.dep = cmd.dep,
         failed.pc \notin {"reserve", "call"},
         Write(cmd.dep, record, done, failed)
  PROVE  RulesInv'
<1>1. IsCommand(cmd) /\ cmd.dep \in Existing /\ cmd.mem = disk[cmd.dep] /\ (Reuses(cmd.dep + 1) => Quiet(cmd.mem))
  BY CommandIsSound
<1>2. cmd' \in {done, failed} /\ disk' \in {disk, [disk EXCEPT ![cmd.dep] = record]}
  BY DEF Write
<1>3. DiskGrows
  BY <1>1, <1>2, AllowedGrows
<1>4. cmd'.pc # "call"
  BY <1>2
<1>5. ReportsFit'
  BY <1>3, <1>4, QuietReports
<1>6. Reuses(cmd.dep + 1) => Quiet(record) /\ Quiet(done.mem) /\ Quiet(failed.mem)
  BY <1>1
<1> QED  BY <1>1, <1>5, <1>6, AllowedWrite

LEMMA FencedIsPrepared ==
  ASSUME Known, cmd # None, cmd.pc = "next", NEW q, Sound(q, cmd.dep),
         Appended(cmd.mem, q, LastStep(q)), q.steps # <<>>, cmd.op = "create" => q.removals = 0,
         cmd.op # "create" => LastStep(q).removal # 0,
         NEW k, k.mem = q, k.op = cmd.op, k.fence = Len(q.steps), k.confirmed = cmd.confirmed,
         \/ k.pc = "fenced" /\ k.approval = FALSE
         \/ k.pc = "fail" /\ k.outcome = "uncertain"
  PROVE  Prepared(k)
<1>1. Prepared(cmd)
  BY CommandIsSound
<1>2. q.health = cmd.mem.health /\ q.key = cmd.mem.key /\ q.abandoned = cmd.mem.abandoned
  BY DEF Appended, Keeps, Fields
<1>3. ~cmd.mem.abandoned /\ cmd.op \in {"create", "remove"} /\ cmd.confirmed
  BY <1>1 DEF Prepared, Acts, Ended
<1>4. ASSUME k.op = "create"
      PROVE  ToCreate(k)
  <2>1. ~cmd.mem.health /\ cmd.mem.key
    BY <1>1, <1>4 DEF Prepared, ToCreate, Ended
  <2> QED  BY <1>2, <1>4, <2>1 DEF ToCreate, Ended
<1>5. ASSUME k.op # "create"
      PROVE  ToRemove(k)
  BY <1>5 DEF ToRemove
<1>6. ToAbandon(k) /\ ToObserve(k) /\ ToFail(k)
  BY <1>3 DEF ToAbandon, ToObserve, ToFail
<1>7. Typed(q) /\ Directed(q)
  BY DEF Sound
<1> QED  BY <1>2, <1>3, <1>4, <1>5, <1>6, <1>7 DEF Prepared, Acts, Ended

LEMMA FenceRules ==
  ASSUME Known, Fence
  PROVE  RulesInv'
<1>1. PICK r : r = cmd.mem
  OBVIOUS
<1>2. PICK a : a = Planned
  OBVIOUS
<1>3. PICK attempt : attempt = IF cmd.op = "create" THEN 0 ELSE r.removals + (IF cmd.approval THEN 1 ELSE 0)
  OBVIOUS
<1>4. PICK q : q = [Fenced(r) EXCEPT !.steps = Append(@, Step(a, attempt)), !.removals = attempt]
  OBVIOUS
<1>5. PICK done : done = [cmd EXCEPT !.mem = q, !.pc = "fenced", !.fence = Len(q.steps), !.approval = FALSE]
  OBVIOUS
<1>6. PICK failed : failed = [Failing(q) EXCEPT !.fence = Len(q.steps)]
  OBVIOUS
<1>7. /\ cmd # None /\ cmd.pc = "next" /\ a # None /\ Write(cmd.dep, q, done, failed) /\ children' \subseteq children
  BY <1>1, <1>2, <1>3, <1>4, <1>5, <1>6 DEF Fence, At
<1>8. /\ Sound(r, cmd.dep) /\ Prepared(cmd) /\ IsCommand(cmd) /\ InChain(cmd)
      /\ r = disk[cmd.dep] /\ cmd.dep \in Existing
  BY <1>1, <1>7, CommandIsSound
<1>9. Appended(r, q, Step(a, attempt))
  <2>1. PICK step : step = Step(a, attempt)
    OBVIOUS
  <2>2. step.removal = attempt
    BY <2>1, StepIsNew
  <2>3. DOMAIN r = Fields /\ q = [Fenced(r) EXCEPT !.steps = Append(@, step), !.removals = step.removal]
    BY <1>4, <1>8, <2>1, <2>2 DEF Sound
  <2>4. Appended(r, q, step)
    BY ONLY <2>3, FenceAppends
  <2> QED  BY <2>1, <2>4
<1>10. /\ r.termination = "confirmed" /\ ~r.abandoned /\ cmd.op \in {"create", "remove"}
       /\ cmd.fence # 0 => r.steps # <<>>
  BY <1>1, <1>7, <1>8 DEF Prepared, Acts, Ended
<1>11. /\ Sound(q, cmd.dep) /\ Allowed(r, q)
       /\ cmd.op = "create" => q.removals = 0
       /\ cmd.op # "create" => q.removals # 0
       /\ Reuses(cmd.dep + 1) /\ Quiet(r) => Quiet(q)
  <2>1. CASE cmd.op = "create"
    <3>1. /\ r.removals = 0 /\ r.key /\ ~r.health /\ a = NextCreation(r) /\ attempt = 0
          /\ r.steps # <<>> =>
               \/ StateOf(LastStep(r)) = "verified"
               \/ Declined(LastStep(r)) /\ Cardinality(Launches(r)) < Slots(r)
      BY <1>1, <1>2, <1>3, <1>7, <1>8, <2>1 DEF Prepared, ToCreate, Ended, Planned
    <3>2. cmd.dep + 1 \notin Existing
      BY <1>8, <2>1 DEF InChain
    <3>3. ~Reuses(cmd.dep + 1) /\ r.successor = None
      BY <1>8, <3>2 DEF Known, ChainInv, ChainHolds, RecordInChain, Reuses
    <3>4. Sound(q, cmd.dep) /\ Allowed(r, q)
      BY <1>7, <1>8, <1>9, <1>10, <3>1, <3>3, CreationAllowed
    <3>5. q.removals = 0
      BY <1>9, <3>1, StepIsNew DEF Appended
    <3> QED  BY <2>1, <3>3, <3>4, <3>5
  <2>2. CASE cmd.op # "create"
    <3>1. RemovalPlan(r) # {} /\ a = NextRemoval(r)
      BY <1>1, <1>2, <1>7, <2>2 DEF Planned, NextRemoval
    <3>2. /\ r.steps # <<>>
          /\ IF cmd.approval
             THEN Removable(r) /\ Matches(r, r.latest) /\ Over(LastStep(r))
             ELSE cmd.fence # 0 /\ StateOf(LastStep(r)) = "verified"
          /\ cmd.fence # 0 => LastStep(r).removal # 0
      BY <1>1, <1>7, <1>8, <2>2 DEF Prepared, ToRemove
    <3>3. IsSeq(r.steps) /\ r.removals \in Nat
      BY <1>8 DEF Sound, Shaped, Typed
    <3>4. Len(r.steps) \in DOMAIN r.steps
      BY <3>2, <3>3, SeqFacts
    <3>5. LastStep(r).removal = r.removals
      BY <1>8, <3>4, CreationStep
    <3>6. \/ /\ attempt = r.removals + 1
             /\ Removable(r) /\ Matches(r, r.latest) /\ Over(LastStep(r))
          \/ /\ attempt = r.removals /\ attempt # 0
             /\ StateOf(LastStep(r)) = "verified"
      BY <1>3, <2>2, <3>2, <3>3, <3>5
    <3>7. Sound(q, cmd.dep) /\ Allowed(r, q) /\ q.removals # 0 /\ (Quiet(r) => Quiet(q))
      BY <1>8, <1>9, <1>10, <3>1, <3>2, <3>6, RemovalAllowed
    <3> QED  BY <2>2, <3>7
  <2> QED  BY <2>1, <2>2
<1>12. q.steps # <<>> /\ LastStep(q) = Step(a, attempt) /\ LastStep(q).removal = q.removals
  <2>1. PICK step : step = Step(a, attempt)
    OBVIOUS
  <2>2. Sound(r, cmd.dep) /\ Appended(r, q, step) /\ IsNew(step)
    BY <1>8, <1>9, <2>1, StepIsNew
  <2>3. LastStep(q) = step /\ q.steps # <<>>
    BY ONLY <2>2, AppendedSteps
  <2>4. q.removals = step.removal
    BY <2>2 DEF Appended
  <2> QED  BY <2>1, <2>3, <2>4
<1>13. Held(q) = q
  BY <1>11 DEF Held, Sound
<1>14. /\ done.mem = q /\ done.dep = cmd.dep /\ done.op = cmd.op /\ done.fence = Len(q.steps)
       /\ done.pc = "fenced" /\ done.approval = FALSE /\ done.confirmed = cmd.confirmed
  BY <1>5, <1>8 DEF IsCommand
<1>15. /\ failed.mem = q /\ failed.dep = cmd.dep /\ failed.op = cmd.op /\ failed.fence = Len(q.steps)
       /\ failed.pc = "fail" /\ failed.outcome = "uncertain" /\ failed.confirmed = cmd.confirmed
  BY <1>6, <1>8, <1>13 DEF IsCommand, Failing
<1>16. Appended(cmd.mem, q, LastStep(q))
  BY <1>1, <1>9, <1>12
<1>17. Prepared(done) /\ Prepared(failed)
  BY <1>7, <1>11, <1>12, <1>14, <1>15, <1>16, FencedIsPrepared
<1> QED  BY <1>1, <1>7, <1>11, <1>14, <1>15, <1>17, OwnWriteRules

LEMMA RecordAbandonmentRules ==
  ASSUME Known, RecordAbandonment
  PROVE  RulesInv'
<1>1. PICK r : r = cmd.mem
  OBVIOUS
<1>2. PICK q : q = [r EXCEPT !.abandoned = TRUE]
  OBVIOUS
<1>3. PICK done : done = [cmd EXCEPT !.mem = q, !.pc = "settle"]
  OBVIOUS
<1>4. PICK failed : failed = To("end")
  OBVIOUS
<1>5. cmd # None /\ cmd.pc = "abandon" /\ Write(cmd.dep, q, done, failed) /\ children' \subseteq children
  BY <1>1, <1>2, <1>3, <1>4 DEF RecordAbandonment, At
<1>6. Sound(r, cmd.dep) /\ Prepared(cmd) /\ IsCommand(cmd)
  BY <1>1, <1>5, CommandIsSound
<1>7. /\ cmd.op = "abandon" /\ ~r.abandoned /\ ~Returned(r, "attach-volume") /\ ~Stuck(r) /\ Quiet(r)
      /\ r.latest # None /\ Matches(r, r.latest)
      /\ r.steps # <<>> => StateOf(LastStep(r)) # "returned"
      /\ r.termination = "confirmed" /\ cmd.fence = 0 /\ cmd.confirmed /\ r.reuse # None
  BY <1>1, <1>5, <1>6 DEF Prepared, ToAbandon, Ended, IsCommand
<1>8. Abandonable(r)
  BY <1>7 DEF Abandonable, CanSettle, Quiet
<1>9. \A i \in DOMAIN r.steps : Settled(r.steps[i])
  <2> SUFFICES ASSUME NEW i \in DOMAIN r.steps
               PROVE  Settled(r.steps[i])
    OBVIOUS
  <2>1. ~IsOpen(r.steps[i])
    BY <1>7 DEF Stuck
  <2>2. StateOf(r.steps[i]) # "returned"
    <3>1. CASE i = Len(r.steps)
      <4>1. r.steps # <<>>
        BY EmptySteps
      <4> QED  BY <1>7, <3>1, <4>1 DEF LastStep
    <3>2. CASE i # Len(r.steps)
      BY <1>6, <3>2 DEF Sound, Typed, Over
    <3> QED  BY <3>1, <3>2
  <2> QED  BY <2>1, <2>2 DEF Settled, IsOpen, StateOf
<1>10. Sound(q, cmd.dep) /\ Allowed(r, q) /\ Keeps(r, q, {"abandoned"})
  <2>1. /\ Sound(r, cmd.dep) /\ Abandonable(r) /\ r.termination = "confirmed"
        /\ r.latest # None /\ Matches(r, r.latest) /\ q = [r EXCEPT !.abandoned = TRUE]
        /\ \A i \in DOMAIN r.steps : Settled(r.steps[i])
    BY <1>2, <1>6, <1>7, <1>8, <1>9
  <2> QED  BY ONLY <2>1, AbandonmentAllowed
<1>11. /\ q.termination = r.termination
       /\ \A field \in {"id", "reuse", "steps", "implicit", "latest"} : q[field] = r[field]
  BY <1>10 DEF Keeps, Fields
<1>12. Quiet(r) => Quiet(q)
  BY <1>11, SameResources
<1>13. /\ done.mem = q /\ done.dep = cmd.dep /\ done.op = cmd.op /\ done.fence = 0 /\ done.pc = "settle"
       /\ done.confirmed
  BY <1>3, <1>6, <1>7 DEF IsCommand
<1>14. /\ failed.mem = r /\ failed.dep = cmd.dep /\ failed.op = cmd.op /\ failed.fence = cmd.fence /\ failed.pc = "end"
  BY <1>1, <1>4, <1>6, ToMoves DEF Moves
<1>15. Prepared(done)
  <2>1. Typed(q) /\ Directed(q)
    BY <1>10 DEF Sound
  <2>2. ToRemove(done) /\ ToAbandon(done) /\ ToObserve(done) /\ ToFail(done)
    BY <1>7, <1>13 DEF ToRemove, ToAbandon, ToObserve, ToFail
  <2> QED  BY <1>7, <1>11, <1>13, <2>1, <2>2 DEF Prepared, Acts, Ended
<1>16. Prepared(failed)
  BY <1>1, <1>5, <1>6, <1>7, <1>14, GivenUp
<1> QED  BY <1>1, <1>5, <1>10, <1>12, <1>13, <1>14, <1>15, <1>16, OwnWriteRules

-----------------------------------------------------------------------------
(* The answer of a child, and its end.                                       *)

LEMMA CallIsOpen ==
  ASSUME Known, NEW c \in children, Attended(c)
  PROVE  /\ cmd # None /\ cmd.pc = "call" /\ IsCommand(cmd) /\ children = {c}
         /\ Sound(cmd.mem, cmd.dep) /\ Prepared(cmd) /\ cmd.mem = disk[cmd.dep]
         /\ cmd.mem.steps # <<>> /\ cmd.fence = Len(cmd.mem.steps) /\ cmd.fence # 0
         /\ Len(cmd.mem.steps) \in DOMAIN cmd.mem.steps
         /\ LastStep(cmd.mem).outcome = "none" /\ ~cmd.mem.abandoned /\ cmd.confirmed
         /\ c.dep = cmd.dep /\ c.step = Len(cmd.mem.steps)
<1>1. /\ cmd # None /\ cmd.pc = "call" /\ IsCommand(cmd) /\ children = {c}
      /\ c.dep = cmd.dep /\ c.step = cmd.fence
  BY AttendedIsAlone DEF Known, Attended
<1>2. Sound(cmd.mem, cmd.dep) /\ Prepared(cmd) /\ cmd.mem = disk[cmd.dep] /\ Knows(cmd)
  BY <1>1, CommandIsSound
<1>3. /\ cmd.mem.steps # <<>> /\ cmd.fence = Len(cmd.mem.steps) /\ LastStep(cmd.mem).outcome = "none"
      /\ IsSeq(cmd.mem.steps)
  BY <1>1, <1>2 DEF Knows, Shaped
<1>4. Len(cmd.mem.steps) \in DOMAIN cmd.mem.steps /\ cmd.fence # 0
  BY <1>3, SeqFacts
<1>5. ~cmd.mem.abandoned /\ cmd.confirmed
  BY <1>1, <1>2, <1>4 DEF Prepared, Acts, Ended
<1> QED  BY <1>1, <1>2, <1>3, <1>4, <1>5

LEMMA RetainRules ==
  ASSUME Known, NEW c \in children, Retain(c)
  PROVE  RulesInv'
<1>1. PICK r : r = cmd.mem
  OBVIOUS
<1>2. PICK q : q = WithLast(r, WithAnswer(LastStep(r)))
  OBVIOUS
<1>3. Attended(c)
  BY DEF Retain
<1>4. /\ cmd # None /\ cmd.pc = "call" /\ IsCommand(cmd) /\ children = {c}
      /\ Sound(r, cmd.dep) /\ Prepared(cmd) /\ r = disk[cmd.dep]
      /\ r.steps # <<>> /\ cmd.fence = Len(r.steps) /\ cmd.fence # 0
      /\ Len(r.steps) \in DOMAIN r.steps
      /\ LastStep(r).outcome = "none" /\ ~r.abandoned /\ cmd.confirmed
  BY <1>1, <1>3, CallIsOpen
<1>5. /\ Sound(q, cmd.dep) /\ Allowed(r, q) /\ Advances(r, q)
      /\ q.steps # <<>> /\ LastStep(q).returned
      /\ Quiet(r) => Quiet(q)
      /\ Keeps(r, q, {"steps"})
  BY <1>2, <1>4, RetainAllowed
<1>6. /\ Len(q.steps) = Len(r.steps) /\ LastStep(q).removal = LastStep(r).removal
  <2>1. Shaped(r, cmd.dep) /\ Shaped(q, cmd.dep)
    BY <1>4, <1>5 DEF Sound
  <2>2. /\ Len(q.steps) = Len(r.steps)
        /\ \A i \in DOMAIN r.steps : q.steps[i].removal = r.steps[i].removal
    BY <1>5, <2>1, AdvancesStates
  <2> QED  BY <1>4, <2>2 DEF LastStep
<1>7. q.removals = r.removals /\ q.abandoned = r.abandoned /\ q.health = r.health /\ q.key = r.key
  BY <1>5 DEF Keeps, Fields
<1>8. PICK done : done = [cmd EXCEPT !.mem = q]
  OBVIOUS
<1>9. Moves(done, "call", q)
  BY <1>4, <1>8 DEF IsCommand, Moves
<1>10. Prepared(done)
  <2>1. Typed(q) /\ Directed(q)
    BY <1>5 DEF Sound
  <2>2. IF done.op = "create" THEN ToCreate(done) ELSE ToRemove(done)
    BY <1>1, <1>4, <1>6, <1>7, <1>9 DEF Prepared, ToCreate, ToRemove, Ended, Moves
  <2>3. ToAbandon(done) /\ ToObserve(done) /\ ToFail(done)
    BY <1>4, <1>9 DEF Prepared, ToAbandon, ToObserve, ToFail, Moves
  <2> QED  BY <1>1, <1>4, <1>5, <1>6, <1>7, <1>9, <2>1, <2>2, <2>3 DEF Prepared, Acts, Ended, Moves
<1>11. done.dep = cmd.dep /\ done.pc = "call" /\ done.mem = q
  BY <1>9 DEF Moves
<1>12. PICK failed :
         /\ Write(cmd.dep, q, done, failed)
         /\ failed.mem = Held(q) /\ failed.pc = "fail" /\ failed.outcome = "uncertain"
         /\ failed.dep = cmd.dep /\ failed.op = cmd.op /\ failed.fence = cmd.fence
         /\ IF cmd'.pc = "call"
            THEN children' = (children \ {c}) \cup {[c EXCEPT !.phase = "done", !.outcome = "none"]}
            ELSE children' \subseteq children
  <2>1. PICK step : step = [LastStep(cmd.mem) EXCEPT !.returned = TRUE]
    OBVIOUS
  <2>2. q = WithLast(cmd.mem, step)
    BY <1>1, <1>2, <2>1 DEF WithAnswer
  <2>3. done = [cmd EXCEPT !.mem = q]
    BY <1>8
  <2>4. PICK failed : Retains(c, q, done, failed)
    BY <1>4, <2>1, <2>2, <2>3, RetainWrites
  <2>5. children \ {c} \subseteq children
    OBVIOUS
  <2>6. IF cmd'.pc = "call"
        THEN children' = (children \ {c}) \cup {[c EXCEPT !.phase = "done", !.outcome = "none"]}
        ELSE children' \subseteq children
    BY <2>4, <2>5 DEF Retains
  <2> QED  BY <2>4, <2>6 DEF Retains
<1>13. failed.mem = q
  BY <1>5, <1>12 DEF Held, Sound
<1>14. Prepared(failed)
  BY <1>1, <1>4, <1>5, <1>6, <1>7, <1>12, <1>13, GivenUp
<1>16. cmd.dep \in Existing /\ (Reuses(cmd.dep + 1) => Quiet(cmd.mem))
  BY <1>4, CommandIsSound
<1>15. ReportsFit'
  <2>1. cmd' \in {done, failed} /\ disk' \in {disk, [disk EXCEPT ![cmd.dep] = q]}
    BY <1>12 DEF Write
  <2>2. CASE cmd'.pc = "call"
    <3>1. cmd' = done
      BY <1>12, <2>1, <2>2
    <3>2. PICK e : e = [c EXCEPT !.phase = "done", !.outcome = "none"]
      OBVIOUS
    <3>3. children' = {e}
      BY <1>4, <1>12, <2>2, <3>2
    <3>4. e.phase = "done"
      BY <1>4, <3>2 DEF Known, FenceInv, ChildShape
    <3>5. LastStep(cmd'.mem).returned
      BY <1>5, <1>9, <3>1 DEF Moves
    <3> QED  BY <3>3, <3>4, <3>5 DEF ReportsFit, LastStep
  <2>3. CASE cmd'.pc # "call"
    <3>1. DiskGrows
      BY <1>1, <1>4, <1>5, <1>16, <2>1, AllowedGrows
    <3> QED  BY <1>12, <2>3, <3>1, QuietReports
  <2> QED  BY <2>2, <2>3
<1> QED  BY <1>1, <1>4, <1>5, <1>10, <1>11, <1>12, <1>13, <1>14, <1>15, <1>16, AllowedWrite

LEMMA ReplyRules ==
  ASSUME Known, NEW c \in children, Reply(c)
  PROVE  RulesInv'
<1>1. PICK r : r = cmd.mem
  OBVIOUS
<1>2. PICK q : q = Confirmed(r)
  OBVIOUS
<1>3. PICK next : next = IF c.phase = "done" THEN To("observe")
                         ELSE [cmd EXCEPT !.pc = "fail", !.outcome = c.outcome]
  OBVIOUS
<1>4. Attended(c) /\ c.phase \in {"done", "failed"} /\ Persist(q, next) /\ children' \subseteq children
  BY <1>1, <1>2, <1>3 DEF Reply
<1>5. /\ cmd # None /\ cmd.pc = "call" /\ IsCommand(cmd)
      /\ Sound(r, cmd.dep) /\ Prepared(cmd) /\ r = disk[cmd.dep]
      /\ r.steps # <<>> /\ cmd.fence = Len(r.steps) /\ cmd.fence # 0
      /\ Len(r.steps) \in DOMAIN r.steps /\ ~r.abandoned /\ cmd.confirmed
      /\ c.dep = cmd.dep /\ c.step = Len(r.steps)
  BY <1>1, <1>4, CallIsOpen
<1>6. Sound(q, cmd.dep) /\ Allowed(r, q) /\ Alike(r, q) /\ q.termination = "confirmed"
  BY <1>2, <1>5, TerminationAlike
<1>7. PICK k : k = [next EXCEPT !.mem = q]
  OBVIOUS
<1>8. /\ DOMAIN next = DOMAIN cmd /\ next.dep = cmd.dep /\ next.pc = k.pc
      /\ k.mem = q /\ k.op = cmd.op /\ k.fence = cmd.fence /\ k.approval = cmd.approval /\ k.confirmed = cmd.confirmed
      /\ \/ k.pc = "observe" /\ c.phase = "done"
         \/ k.pc = "fail" /\ c.phase = "failed" /\ k.outcome = c.outcome
  BY <1>3, <1>4, <1>5, <1>7 DEF IsCommand, To
<1>9. /\ c.phase = "failed" /\ c.outcome = "blocked" => LastStep(r).removal # 0
      /\ c.phase = "failed" /\ c.outcome = "capacity" => LastStep(r).action = "run-instances" /\ cmd.op = "create"
      /\ c.phase = "done" => LastStep(r).returned
  <2>1. /\ c.phase = "failed" /\ c.outcome = "blocked" => Undoes(LastStep(r).action) # {}
        /\ c.phase = "failed" /\ c.outcome = "capacity" => LastStep(r).action = "run-instances"
        /\ c.phase = "done" => LastStep(r).returned
    BY <1>1, <1>4, <1>5 DEF Known, RulesInv, ReportsFit, LastStep
  <2>2. LastStep(r).removal = 0 <=> LastStep(r).action \notin Removing
    BY <1>5, CreationStep DEF LastStep
  <2>3. cmd.op # "create" => LastStep(r).removal # 0
    BY <1>1, <1>5 DEF Prepared, ToRemove
  <2> QED  BY <2>1, <2>2, <2>3, CreationsRemoveNothing
<1>10. Prepared(k)
  <2>1. Typed(q) /\ Directed(q)
    BY <1>6 DEF Sound
  <2>2. IF k.op = "create" THEN ToCreate(k) ELSE ToRemove(k)
    BY <1>1, <1>5, <1>6, <1>8 DEF Prepared, ToCreate, ToRemove, Ended, Alike
  <2>3. ToAbandon(k) /\ ToObserve(k)
    BY <1>1, <1>5, <1>6, <1>8, <1>9 DEF Prepared, ToAbandon, ToObserve, Alike
  <2>4. ToFail(k)
    BY <1>5, <1>6, <1>8, <1>9 DEF ToFail, Alike
  <2> QED  BY <1>1, <1>5, <1>6, <1>8, <2>1, <2>2, <2>3, <2>4 DEF Prepared, Acts, Ended, Alike
<1>11. /\ cmd.pc \notin {"fail", "end"}
       /\ Len(q.steps) = Len(cmd.mem.steps) /\ q.removals = cmd.mem.removals
       /\ Acts(cmd) => ~q.abandoned
       /\ Quiet(cmd.mem) => Quiet(q)
       /\ next.pc \notin {"reserve", "call"}
  BY <1>1, <1>5, <1>6, <1>8 DEF Alike
<1> QED  BY <1>1, <1>4, <1>5, <1>6, <1>7, <1>8, <1>10, <1>11, PersistQuietly

-----------------------------------------------------------------------------
(* The record of a failure.                                                  *)

LEMMA ClosedKeeps ==
  ASSUME Known, cmd # None, cmd.pc = "fail", NEW r, r = cmd.mem, NEW q, q = Closed(Attested(r))
  PROVE  /\ Sound(q, cmd.dep) /\ Allowed(r, q) /\ (Quiet(r) => Quiet(q))
         /\ q.removals = r.removals /\ q.key = r.key /\ q.health = r.health /\ q.abandoned = r.abandoned
         /\ cmd.confirmed => q.termination = "confirmed"
         /\ Len(q.steps) = Len(r.steps) /\ Slots(q) = Slots(r) /\ Launches(q) = Launches(r)
         /\ OwnsOpenStep => q.steps # <<>> /\ LastStep(q).outcome = cmd.outcome /\ LastStep(q).action = LastStep(r).action
         /\ q.steps # <<>> => LastStep(q).removal = q.removals
<1>1. PICK p : p = Attested(r)
  OBVIOUS
<1>2. Sound(r, cmd.dep) /\ Prepared(cmd) /\ IsCommand(cmd)
  BY CommandIsSound
<1>3. p \in {Fenced(r), Confirmed(r)} /\ (cmd.confirmed => p = Confirmed(r))
  BY <1>1 DEF Attested
<1>4. Sound(p, cmd.dep) /\ Allowed(r, p) /\ Alike(r, p) /\ (p = Confirmed(r) => p.termination = "confirmed")
  BY <1>2, <1>3, TerminationAlike
<1>5. q = IF OwnsOpenStep THEN WithLast(p, WithOutcome(LastStep(r), cmd.outcome)) ELSE p
  <2>1. LastStep(p) = LastStep(r)
    BY <1>4 DEF Alike
  <2> QED  BY <1>1, <2>1 DEF Closed, WithOutcome
<1>6. CASE ~OwnsOpenStep
  <2>1. q = p
    BY <1>5, <1>6
  <2>2. IsSeq(q.steps)
    BY <1>4, <2>1 DEF Sound, Shaped
  <2>3. q.steps # <<>> => Len(q.steps) \in DOMAIN q.steps
    BY <2>2, SeqFacts
  <2>4. q.steps # <<>> => LastStep(q).removal = q.removals
    BY <1>4, <2>1, <2>3, CreationStep
  <2> QED  BY <1>3, <1>4, <1>6, <2>1, <2>4 DEF Alike
<1>7. CASE OwnsOpenStep
  <2>1. r.steps # <<>> /\ StateOf(LastStep(r)) = "open" /\ (cmd.outcome = "blocked" => LastStep(r).removal # 0)
    BY <1>2, <1>7 DEF OwnsOpenStep, Verifying, Prepared, ToFail
  <2>2. q = WithLast(p, WithOutcome(LastStep(r), cmd.outcome))
    BY <1>5, <1>7
  <2>3. PICK outcome : outcome = cmd.outcome
    OBVIOUS
  <2>4. /\ Sound(q, cmd.dep) /\ Allowed(r, q) /\ Advances(r, q)
        /\ q.steps # <<>> /\ LastStep(q).outcome = outcome /\ LastStep(q).action = LastStep(r).action
        /\ Quiet(r) => Quiet(q)
        /\ q.termination = p.termination
        /\ Keeps(r, q, {"steps", "termination"})
    <3>1. /\ p \in {Fenced(r), Confirmed(r)} /\ Sound(r, cmd.dep) /\ r.steps # <<>> /\ StateOf(LastStep(r)) = "open"
          /\ outcome = "blocked" => LastStep(r).removal # 0
          /\ q = WithLast(p, WithOutcome(LastStep(r), outcome))
      BY <1>2, <1>3, <2>1, <2>2, <2>3
    <3>2. Sound(q, cmd.dep) /\ Allowed(r, q) /\ Advances(r, q)
      BY ONLY <3>1, ClosingAllowed
    <3> QED  BY ONLY <3>1, <3>2, ClosingAllowed
  <2>5. /\ q.removals = r.removals /\ q.key = r.key /\ q.health = r.health /\ q.abandoned = r.abandoned
        /\ q.reuse = r.reuse
    BY <2>4 DEF Keeps, Fields
  <2>6. Shaped(r, cmd.dep) /\ Shaped(q, cmd.dep) /\ IsSeq(q.steps)
    BY <1>2, <2>4 DEF Sound, Shaped
  <2>7. Len(q.steps) = Len(r.steps) /\ Launches(q) = Launches(r)
    BY <2>4, <2>6, AdvancesStates
  <2>8. Slots(q) = Slots(r)
    BY <2>5 DEF Slots
  <2>9. Len(q.steps) \in DOMAIN q.steps
    BY <2>4, <2>6, SeqFacts
  <2>10. LastStep(q).removal = q.removals
    BY <2>4, <2>9, CreationStep
  <2> QED  BY <1>3, <1>4, <2>3, <2>4, <2>5, <2>7, <2>8, <2>10
<1> QED  BY <1>6, <1>7

LEMMA CloseRules ==
  ASSUME Known, Close
  PROVE  RulesInv'
<1>1. PICK r : r = cmd.mem
  OBVIOUS
<1>2. PICK q : q = Closed(Attested(r))
  OBVIOUS
<1>3. PICK done : done = [cmd EXCEPT !.mem = q, !.pc = IF TriesNextZone THEN "next" ELSE "end"]
  OBVIOUS
<1>4. PICK failed : failed = [cmd EXCEPT !.mem = Held(q), !.pc = IF TriesNextZone THEN "fail" ELSE "end"]
  OBVIOUS
<1>5. /\ cmd # None /\ cmd.pc = "fail" /\ Write(cmd.dep, q, done, failed) /\ children' \subseteq children
  BY <1>1, <1>2, <1>3, <1>4 DEF Close, At
<1>6. Sound(r, cmd.dep) /\ Prepared(cmd) /\ IsCommand(cmd) /\ cmd.dep \in Existing /\ (Reuses(cmd.dep + 1) => Quiet(r))
  BY <1>1, <1>5, CommandIsSound
<1>7. /\ Sound(q, cmd.dep) /\ Allowed(r, q) /\ (Quiet(r) => Quiet(q))
      /\ q.removals = r.removals /\ q.key = r.key /\ q.health = r.health /\ q.abandoned = r.abandoned
      /\ cmd.confirmed => q.termination = "confirmed"
      /\ Len(q.steps) = Len(r.steps) /\ Slots(q) = Slots(r) /\ Launches(q) = Launches(r)
      /\ OwnsOpenStep => q.steps # <<>> /\ LastStep(q).outcome = cmd.outcome /\ LastStep(q).action = LastStep(r).action
      /\ q.steps # <<>> => LastStep(q).removal = q.removals
  BY <1>1, <1>2, <1>5, ClosedKeeps
<1>8. Held(q) = q
  BY <1>7 DEF Held, Sound
<1>9. /\ done.mem = q /\ done.dep = cmd.dep /\ done.op = cmd.op /\ done.fence = cmd.fence
      /\ done.confirmed = cmd.confirmed /\ done.outcome = cmd.outcome
      /\ done.pc = IF TriesNextZone THEN "next" ELSE "end"
  BY <1>3, <1>6 DEF IsCommand
<1>10. /\ failed.mem = q /\ failed.dep = cmd.dep /\ failed.op = cmd.op /\ failed.fence = cmd.fence
       /\ failed.confirmed = cmd.confirmed /\ failed.outcome = cmd.outcome
       /\ failed.pc = IF TriesNextZone THEN "fail" ELSE "end"
  BY <1>4, <1>6, <1>8 DEF IsCommand
<1>11. Acts(cmd) => ~q.abandoned
  BY <1>1, <1>6, <1>7 DEF Prepared
<1>12. Prepared(done) /\ Prepared(failed)
  <2>1. CASE ~TriesNextZone
    BY <1>1, <1>5, <1>7, <1>9, <1>10, <1>11, <2>1, GivenUp
  <2>2. CASE TriesNextZone
    <3>1. /\ OwnsOpenStep /\ cmd.outcome = "capacity" /\ cmd.fence # 0 /\ cmd.fence = Len(q.steps)
          /\ Cardinality(Launches(r)) < Slots(r)
      BY <1>1, <1>7, <2>2 DEF TriesNextZone, OwnsOpenStep, Verifying
    <3>2. r.steps # <<>> /\ cmd.op = "create" /\ LastStep(r).action = "run-instances" /\ cmd.confirmed
      BY <1>1, <1>5, <1>6, <3>1 DEF Prepared, ToFail
    <3>3. q.removals = 0 /\ ~q.health
      BY <1>1, <1>5, <1>6, <1>7, <3>1, <3>2 DEF Prepared, ToCreate
    <3>4. q.key /\ q.steps # <<>>
      BY <1>7, <3>1 DEF Sound, IsConsistent, Keyed
    <3>5. Declined(LastStep(q)) /\ Cardinality(Launches(q)) < Slots(q)
      BY <1>7, <3>1, <3>2 DEF Declined
    <3>6. ToCreate(done) /\ ToCreate(failed)
      BY <1>9, <1>10, <2>2, <3>3, <3>4, <3>5 DEF ToCreate, Ended
    <3>7. ToAbandon(done) /\ ToAbandon(failed) /\ ToObserve(done) /\ ToObserve(failed) /\ ToFail(done)
      BY <1>9, <1>10, <2>2, <3>2 DEF ToAbandon, ToObserve, ToFail
    <3>8. ToFail(failed)
      BY <1>7, <1>10, <2>2, <3>1, <3>2, <3>4 DEF ToFail
    <3>9. Typed(q) /\ Directed(q)
      BY <1>7 DEF Sound
    <3>10. ~q.abandoned
      BY <1>11, <3>2 DEF Acts
    <3> QED  BY <1>7, <1>9, <1>10, <2>2, <3>1, <3>2, <3>4, <3>6, <3>7, <3>8, <3>9, <3>10 DEF Prepared, Ended
  <2> QED  BY <2>1, <2>2
<1>13. done.pc \in {"next", "end"} /\ failed.pc \in {"fail", "end"}
  BY <1>9, <1>10
<1>14. CASE Allowed(disk[cmd.dep], q)
  <2>1. cmd' \in {done, failed} /\ disk' \in {disk, [disk EXCEPT ![cmd.dep] = q]}
    BY <1>5 DEF Write
  <2>2. DiskGrows
    BY <1>6, <1>7, <1>14, <2>1, AllowedGrows
  <2>3. cmd'.pc # "call"
    BY <1>13, <2>1
  <2>4. ReportsFit'
    BY <1>5, <2>2, <2>3, QuietReports
  <2> QED  BY <1>1, <1>5, <1>6, <1>7, <1>9, <1>10, <1>12, <1>13, <1>14, <2>4, AllowedWrite
<1>15. CASE ~Allowed(disk[cmd.dep], q)
  <2>1. cmd.mem # disk[cmd.dep]
    BY <1>1, <1>7, <1>15
  <2>2. ~Accepted(cmd.dep, q)
    BY <1>15 DEF Accepted, Allowed
  <2>3. cmd' = failed /\ UNCHANGED <<disk, refused>>
    BY <1>5, <2>1, <2>2 DEF Write, Known, RulesInv
  <2>4. ReportsFit'
    BY <1>5, <1>13, <2>3, SameDiskGrows, QuietReports
  <2>5. failed.pc # "reserve" /\ failed.dep = cmd.dep /\ (Quiet(cmd.mem) => Quiet(failed.mem))
    BY <1>1, <1>7, <1>10, <1>13
  <2> QED  BY <1>5, <1>12, <2>3, <2>4, <2>5, MoveRules
<1> QED  BY <1>14, <1>15

-----------------------------------------------------------------------------
(* The hand-off of a volume.                                                 *)

LEMMA PredecessorIsSound ==
  ASSUME Known, cmd # None, cmd.pc \notin {"fail", "end"}, cmd.mem.reuse # None
  PROVE  /\ cmd.mem.previous = cmd.dep - 1 /\ cmd.dep - 1 \in Existing /\ cmd.dep \in Nat
         /\ disk[cmd.dep - 1].id = cmd.dep - 1 /\ Sound(disk[cmd.dep - 1], cmd.dep - 1)
         /\ Quiet(disk[cmd.dep - 1]) /\ HoldsVolume(disk[cmd.dep - 1]) /\ VolumeId(disk[cmd.dep - 1]) # None
         /\ disk[cmd.dep - 1].termination = "confirmed"
         /\ disk[cmd.dep - 1].successor # None =>
              disk[cmd.dep - 1].successor \in [to : {cmd.dep}, completed : BOOLEAN]
<1>1. cmd.dep \in Existing /\ cmd.mem = disk[cmd.dep]
  BY CommandIsSound
<1>2. Reuses(cmd.dep)
  BY <1>1 DEF Reuses
<1>3. ReuseInChain(cmd.dep) /\ RecordInChain(cmd.dep)
  BY <1>1, <1>2 DEF Known, ChainInv, ChainHolds
<1>4. PICK e : e = cmd.dep - 1
  OBVIOUS
<1>5. e \in Existing /\ cmd.dep \in Nat /\ e \in Nat /\ e >= 1 /\ e + 1 = cmd.dep
  BY <1>1, <1>3, <1>4, ExistingIsInterval DEF ReuseInChain, Known
<1>6. cmd.mem.previous = e
  BY <1>1, <1>3, <1>4, <1>5 DEF RecordInChain
<1>7. Sound(disk[e], e) /\ disk[e].id = e
  BY <1>5, RecordIsSound DEF Sound, Shaped
<1>8. Quiet(disk[e]) /\ HoldsVolume(disk[e]) /\ VolumeId(disk[e]) # None
  BY <1>1, <1>2, <1>3, <1>4 DEF Known, RulesInv, ReuseInChain, Reuses
<1>9. disk[e].termination = "confirmed"
  BY <1>5 DEF Known, RulesInv
<1>10. disk[e].successor # None => disk[e].successor \in [to : {cmd.dep}, completed : BOOLEAN]
  BY <1>5 DEF Known, ChainInv, ChainHolds, RecordInChain
<1> QED  BY <1>4, <1>5, <1>6, <1>7, <1>8, <1>9, <1>10

LEMMA PredecessorWriteRules ==
  ASSUME Known, cmd # None, cmd.pc \notin {"fail", "end"}, cmd.mem.reuse # None, children' \subseteq children,
         NEW p, p = disk[cmd.mem.previous],
         NEW record,
         \/ p.successor = None /\ record = Reserve(p, cmd.dep)
         \/ NeedsCompletion(p, cmd.mem) /\ record = Complete(p),
         NEW done, Prepared(done), done.mem = cmd.mem, done.dep = cmd.dep, done.pc \notin {"reserve", "call"},
         NEW failed, Prepared(failed), failed.mem = cmd.mem, failed.dep = cmd.dep,
         failed.pc \notin {"reserve", "call"},
         Write(p.id, record, done, failed)
  PROVE  RulesInv'
<1>1. PICK e : e = cmd.dep - 1
  OBVIOUS
<1>2. /\ e \in Existing /\ cmd.dep \in Nat /\ p = disk[e] /\ p.id = e /\ Sound(p, e)
      /\ Quiet(p) /\ HoldsVolume(p) /\ VolumeId(p) # None /\ p.termination = "confirmed"
      /\ p.successor # None => p.successor \in [to : {cmd.dep}, completed : BOOLEAN]
  BY <1>1, PredecessorIsSound
<1>3. e # cmd.dep /\ e + 1 = cmd.dep
  BY <1>1, <1>2
<1>4. Sound(record, e) /\ Allowed(p, record) /\ Keeps(p, record, {"successor"})
  <2>1. \/ /\ p.successor = None /\ Quiet(p) /\ HoldsVolume(p) /\ VolumeId(p) # None
           /\ \E to \in Nat : to # e /\ record = Reserve(p, to)
        \/ /\ p.successor # None /\ ~p.successor.completed /\ record = Complete(p)
           /\ \E to : p.successor \in [to : {to}, completed : BOOLEAN]
    BY <1>2, <1>3 DEF NeedsCompletion
  <2>2. Sound(p, e) /\ p.termination = "confirmed"
    BY <1>2
  <2> QED  BY ONLY <2>1, <2>2, SuccessionAllowed
<1>5. /\ record.termination = "confirmed"
      /\ \A field \in {"id", "reuse", "steps", "implicit", "latest"} : record[field] = p[field]
  BY <1>2, <1>4 DEF Keeps, Fields
<1>6. Quiet(record)
  BY <1>2, <1>5, SameResources
<1>7. Write(e, record, done, failed)
  BY <1>2
<1>8. cmd' \in {done, failed} /\ disk' \in {disk, [disk EXCEPT ![e] = record]}
  BY <1>7 DEF Write
<1>9. DiskGrows
  BY <1>2, <1>4, <1>8, AllowedGrows
<1>10. cmd'.pc # "call"
  BY <1>8
<1>11. ReportsFit'
  BY <1>9, <1>10, QuietReports
<1>12. Reuses(cmd.dep + 1) => Quiet(done.mem) /\ Quiet(failed.mem)
  BY CommandIsSound
<1> QED  BY <1>2, <1>4, <1>5, <1>6, <1>7, <1>11, <1>12, AllowedWrite

LEMMA ReservePreviousRules ==
  ASSUME Known, ReservePrevious
  PROVE  RulesInv'
<1>1. PICK p : p = disk[cmd.mem.previous]
  OBVIOUS
<1>2. PICK done : done = To("key")
  OBVIOUS
<1>3. PICK failed : failed = To("end")
  OBVIOUS
<1>4. /\ cmd # None /\ cmd.pc = "reserve" /\ children' \subseteq children
      /\ Write(p.id, Reserve(p, cmd.dep), done, failed)
  BY <1>1, <1>2, <1>3 DEF ReservePrevious, At
<1>5. IsCommand(cmd) /\ Prepared(cmd) /\ InChain(cmd) /\ Sound(cmd.mem, cmd.dep)
  BY <1>4, CommandIsSound
<1>6. cmd.mem.reuse # None /\ cmd.op = "create" /\ p.successor = None
  BY <1>1, <1>4, <1>5 DEF IsCommand, InChain, Known, RulesInv
<1>7. Moves(done, "key", cmd.mem) /\ Moves(failed, "end", cmd.mem)
  BY <1>2, <1>3, <1>5, ToMoves
<1>8. Prepared(done)
  <2>1. ToCreate(done)
    BY <1>4, <1>5, <1>6, <1>7 DEF Prepared, ToCreate, Ended, Moves
  <2>2. ToAbandon(done) /\ ToObserve(done) /\ ToFail(done)
    BY <1>6, <1>7 DEF ToAbandon, ToObserve, ToFail, Moves
  <2> QED  BY <1>4, <1>5, <1>6, <1>7, <2>1, <2>2 DEF Prepared, Acts, Ended, Moves
<1>9. Prepared(failed)
  BY <1>4, <1>5, <1>7, GivenUp DEF Moves, Prepared
<1> QED  BY <1>1, <1>4, <1>6, <1>7, <1>8, <1>9, PredecessorWriteRules DEF Moves

LEMMA SettleRules ==
  ASSUME Known, Settle
  PROVE  RulesInv'
<1>1. PICK p : p = disk[cmd.mem.previous]
  OBVIOUS
<1>2. PICK failed : failed = IF cmd.op = "create" THEN [cmd EXCEPT !.pc = "fail", !.outcome = "uncertain"]
                             ELSE To("end")
  OBVIOUS
<1>3. cmd # None /\ cmd.pc = "settle" /\ children' \subseteq children
  BY DEF Settle, At
<1>4. IsCommand(cmd) /\ Prepared(cmd) /\ Sound(cmd.mem, cmd.dep) /\ cmd.mem.reuse # None
  BY <1>3, CommandIsSound DEF IsCommand
<1>5. /\ failed.mem = cmd.mem /\ failed.dep = cmd.dep /\ failed.op = cmd.op /\ failed.fence = cmd.fence
      /\ failed.pc \in {"fail", "end"} /\ (failed.pc = "fail" => failed.outcome = "uncertain" /\ cmd.pc # "end")
  BY <1>2, <1>3, <1>4 DEF To, IsCommand
<1>6. Prepared(failed)
  BY <1>3, <1>4, <1>5, GivenUp DEF Prepared
<1>7. CASE p.successor = None /\ Write(p.id, Reserve(p, cmd.dep), cmd, failed)
  BY <1>1, <1>3, <1>4, <1>5, <1>6, <1>7, PredecessorWriteRules
<1>8. CASE NeedsCompletion(p, cmd.mem) /\ Write(p.id, Complete(p), cmd, failed)
  BY <1>1, <1>3, <1>4, <1>5, <1>6, <1>8, PredecessorWriteRules
<1>9. CASE cmd' = To(IF cmd.op = "create" THEN "next" ELSE "end") /\ UNCHANGED <<disk, refused>>
  <2>1. PICK k : k = cmd'
    OBVIOUS
  <2>2. Moves(k, IF cmd.op = "create" THEN "next" ELSE "end", cmd.mem)
    BY <1>4, <1>9, <2>1, ToMoves
  <2>3. CASE cmd.op # "create"
    BY <1>3, <1>9, <2>1, <2>2, <2>3, GivingUpRules DEF Moves
  <2>4. CASE cmd.op = "create"
    <3>1. ToCreate(k)
      BY <1>3, <1>4, <2>2, <2>4 DEF Prepared, ToCreate, Ended, Moves
    <3>2. ToAbandon(k) /\ ToObserve(k) /\ ToFail(k)
      BY <2>2, <2>4 DEF ToAbandon, ToObserve, ToFail, Moves
    <3>3. Prepared(k)
      BY <1>3, <1>4, <2>2, <2>4, <3>1, <3>2 DEF Prepared, Acts, Ended, Moves
    <3> QED  BY <1>3, <1>9, <2>1, <2>2, <2>4, <3>3, QuietMoveRules DEF Moves
  <2> QED  BY <2>3, <2>4
<1> QED  BY <1>1, <1>2, <1>7, <1>8, <1>9 DEF Settle

-----------------------------------------------------------------------------
(* A new record, and the commands that begin.                                *)

LEMMA VacatedIsQuiet ==
  ASSUME NEW r, Vacated(r)
  PROVE  Quiet(r)
<1>1. CASE Unprovisioned(r)
  <2>1. Unreleased(r) = {}
    BY <1>1 DEF Unprovisioned, Unreleased
  <2>2. \A i \in DOMAIN r.steps : ~IsOpen(r.steps[i])
    BY <1>1 DEF Unprovisioned, IsOpen
  <2>3. Unnamed(r) = {}
    BY <2>2 DEF Unnamed
  <2> QED  BY <2>1, <2>3 DEF Quiet
<1>2. CASE ~Unprovisioned(r)
  BY <1>2 DEF Vacated, Effects, Quiet
<1> QED  BY <1>1, <1>2

LEMMA NewRecordRules ==
  ASSUME Known, children' \subseteq children, UNCHANGED refused,
         NEW previous, NEW volume, NEW record, record = Deployment(New, previous, volume),
         disk' = Recorded(New, record),
         volume # None => New - 1 \in Existing /\ Quiet(disk[New - 1]),
         \A d \in Existing : disk[d].termination = "confirmed",
         NEW k, cmd' = k, k.op = "create", k.dep = New, k.mem = record, k.fence = 0, k.confirmed,
         k.pc \in {"reserve", "key"},
         k.pc = "reserve" => previous \in Existing /\ disk[previous].successor = None
  PROVE  RulesInv'
<1>1. /\ record.steps = <<>> /\ record.removals = 0 /\ record.implicit = FALSE /\ record.latest = None
      /\ record.reuse = volume /\ record.health = FALSE /\ record.abandoned = FALSE
      /\ record.termination = "confirmed" /\ record.previous = previous
  BY DEF Deployment
<1>2. Typed(record) /\ Directed(record)
  <2>1. DOMAIN record.steps = {}
    BY <1>1, EmptySteps
  <2>2. Typed(record)
    <3>1. record.implicit \in BOOLEAN
      BY DEF Deployment
    <3>2. record.removals \in Nat
      BY <1>1
    <3> QED  BY <1>1, <2>1, <3>1, <3>2 DEF Typed
  <2>3. Directed(record)
    BY <1>1, <2>1 DEF Directed
  <2> QED  BY <2>2, <2>3
<1>3. PICK n : n = New
  OBVIOUS
<1>4. PICK E : E = Existing
  OBVIOUS
<1>5. n \notin E /\ n \in Nat /\ n + 1 \notin E \cup {n} /\ \A d \in E : d \in Nat /\ d # n
  <2>1. PICK m \in Nat : m = Cardinality(Existing) /\ E = 1..m /\ n = m + 1
    BY <1>3, <1>4, ExistingIsInterval DEF New, Known
  <2> QED  BY <2>1
<1>6. Existing' = E \cup {n} /\ disk'[n] = record /\ \A d \in E : disk'[d] = disk[d]
  BY <1>3, <1>4, <1>5 DEF Existing, Recorded
<1>7. DiskGrows
  BY <1>4, <1>6 DEF DiskGrows
<1>8. ReportsFit'
  BY <1>7, QuietReports
<1>9. \A d \in Existing' : Typed(disk'[d])
  BY <1>2, <1>4, <1>6 DEF Known, RulesInv
<1>10. ASSUME NEW e \in Existing', disk'[e].reuse # None
       PROVE  Quiet(disk'[e - 1])
  <2>1. CASE e = n
    <3>1. n - 1 \in E /\ Quiet(disk[n - 1])
      BY <1>1, <1>3, <1>4, <1>6, <1>10, <2>1
    <3> QED  BY <1>6, <2>1, <3>1
  <2>2. CASE e # n
    <3>1. Reuses(e) /\ e \in Existing
      BY <1>4, <1>6, <1>10, <2>2 DEF Reuses
    <3>2. e - 1 \in E /\ Quiet(disk[e - 1])
      BY <1>4, <3>1 DEF Known, RulesInv, ChainInv, ChainHolds, ReuseInChain
    <3> QED  BY <1>6, <3>2
  <2> QED  BY <2>1, <2>2
<1>11. Prepared(k)
  <2>1. ToCreate(k)
    BY <1>1 DEF ToCreate
  <2>2. ToAbandon(k) /\ ToObserve(k) /\ ToFail(k)
    BY DEF ToAbandon, ToObserve, ToFail
  <2> QED  BY <1>1, <1>2, <2>1, <2>2 DEF Prepared, Ended
<1>12. \A d \in Existing' \ {n} : disk'[d].termination = "confirmed"
  BY <1>4, <1>6
<1>13. k.pc = "reserve" => disk'[k.mem.previous].successor = None
  BY <1>1, <1>4, <1>6
<1>14. \A e \in Existing' : Reuses(e)' => Quiet(disk'[e - 1])
  BY <1>10 DEF Reuses
<1>15. ~Reuses(n + 1)'
  BY <1>5, <1>6 DEF Reuses
<1>16. cmd'.dep = n /\ Prepared(cmd') /\ cmd'.mem = k.mem /\ cmd'.pc = k.pc
  BY <1>3, <1>11
<1> QED  BY <1>8, <1>9, <1>12, <1>13, <1>14, <1>15, <1>16 DEF RulesInv, Known

LEMMA ApproveRules ==
  ASSUME Known, Approve
  PROVE  RulesInv'
<1>1. PICK d, volume, record, k :
        /\ d = cmd.dep /\ volume = Reusable(disk[d])
        /\ record = Deployment(New, d, volume)
        /\ k = [cmd EXCEPT !.op = "create", !.dep = New, !.mem = record, !.pc = "reserve"]
  OBVIOUS
<1>2. cmd # None /\ cmd.pc = "approve" /\ disk' = Recorded(New, record) /\ cmd' = k /\ volume # None
      /\ UNCHANGED <<children, refused>> /\ Vacated(disk[d])
  BY <1>1 DEF Approve, At
<1>3. IsCommand(cmd) /\ d \in Existing /\ cmd.mem = disk[d]
  BY <1>1, <1>2, CommandIsSound
<1>4. InChain(cmd) /\ Prepared(cmd)
  BY <1>2 DEF Known, RulesInv, ChainInv
<1>5. cmd.op = "reuse" /\ d + 1 \notin Existing
  BY <1>1, <1>2, <1>4 DEF InChain
<1>6. cmd.fence = 0 /\ cmd.confirmed /\ disk[d].termination = "confirmed"
  BY <1>2, <1>3, <1>4, <1>5 DEF Prepared, Ended
<1>7. New - 1 = d
  <2>1. PICK m \in Nat : m = Cardinality(Existing) /\ Existing = 1..m
    BY ExistingIsInterval DEF Known
  <2>2. d \in 1..m /\ d + 1 \notin 1..m
    BY <1>3, <1>5, <2>1
  <2>3. m = d
    BY <2>2
  <2>4. New = d + 1 /\ d \in Nat
    BY <2>1, <2>3 DEF New
  <2> QED  BY <2>4
<1>8. Quiet(disk[New - 1]) /\ New - 1 \in Existing
  BY <1>2, <1>3, <1>7, VacatedIsQuiet
<1>9. \A e \in Existing : disk[e].termination = "confirmed"
  BY <1>1, <1>2, <1>6 DEF Known, RulesInv
<1>10. disk[d].successor = None
  BY <1>1, <1>2 DEF Reusable
<1>11. k.op = "create" /\ k.dep = New /\ k.mem = record /\ k.fence = 0 /\ k.confirmed /\ k.pc = "reserve"
  BY <1>1, <1>3, <1>6 DEF IsCommand
<1>12. /\ Known /\ children' \subseteq children /\ UNCHANGED refused /\ record = Deployment(New, d, volume)
       /\ disk' = Recorded(New, record)
       /\ volume # None => New - 1 \in Existing /\ Quiet(disk[New - 1])
       /\ \A e \in Existing : disk[e].termination = "confirmed"
       /\ cmd' = k /\ k.op = "create" /\ k.dep = New /\ k.mem = record /\ k.fence = 0 /\ k.confirmed
       /\ k.pc \in {"reserve", "key"}
       /\ k.pc = "reserve" => d \in Existing /\ disk[d].successor = None
  BY <1>1, <1>2, <1>3, <1>8, <1>9, <1>10, <1>11
<1> QED  BY ONLY <1>12, NewRecordRules

(* A command that begins has done nothing yet.                              *)
LEMMA BeginRules ==
  ASSUME Known, Ready, NEW d \in Existing,
         NEW op \in {"reuse", "remove", "abandon", "inspect", "handoff"}, NEW pc \in {"observe", "settle"},
         Begin(Command(op, d, disk[d], pc)),
         op = "abandon" => Abandonable(disk[d])
  PROVE  RulesInv'
<1>1. PICK k : k = Command(op, d, disk[d], pc)
  OBVIOUS
<1>2. /\ k.op = op /\ k.dep = d /\ k.mem = disk[d] /\ k.pc = pc /\ k.fence = 0 /\ k.approval = FALSE
      /\ k.confirmed = TRUE
  BY <1>1 DEF Command
<1>3. UNCHANGED <<disk, children, refused>> /\ cmd' = k
  BY <1>1 DEF Begin
<1>4. \A e \in Existing : disk[e].termination = "confirmed"
  BY DEF Ready
<1>5. ReportsFit'
  <2>1. children' = {}
    BY <1>3, ReadyHasNoChild DEF Known
  <2> QED  BY <2>1 DEF ReportsFit
<1>6. Prepared(k)
  <2>1. Typed(k.mem) /\ Directed(k.mem)
    BY <1>2, RecordIsSound DEF Sound
  <2>2. ToRemove(k)
    BY <1>2 DEF ToRemove
  <2>3. ToAbandon(k)
    BY <1>2 DEF ToAbandon, Abandonable, CanSettle, Quiet
  <2>4. ToObserve(k) /\ ToFail(k)
    BY <1>2 DEF ToObserve, ToFail
  <2> QED  BY <1>2, <1>4, <2>1, <2>2, <2>3, <2>4 DEF Prepared, Acts, Ended
<1>7. Existing' = Existing /\ \A e : Reuses(e)' <=> Reuses(e)
  BY <1>3 DEF Existing, Reuses
<1>8. Reuses(d + 1) => Quiet(disk[d])
  <2>1. PICK e : e = d + 1
    OBVIOUS
  <2>2. e - 1 = d
    <3>1. d \in Nat
      BY ExistingIsInterval DEF Known
    <3> QED  BY <2>1, <3>1
  <2>3. Reuses(e) => e \in Existing
    BY DEF Reuses
  <2>4. Reuses(e) => Quiet(disk[e - 1])
    BY <2>3 DEF Known, RulesInv
  <2> QED  BY <2>1, <2>2, <2>4
<1>9. /\ refused' = FALSE
      /\ \A e \in Existing : Typed(disk'[e])
      /\ \A e \in Existing : Reuses(e) => Quiet(disk'[e - 1])
  BY <1>3 DEF Known, RulesInv
<1>10. cmd'.dep = d /\ cmd'.mem = disk[d] /\ cmd'.pc # "reserve" /\ Prepared(cmd')
  BY <1>2, <1>3, <1>6
<1> QED  BY <1>3, <1>4, <1>5, <1>7, <1>8, <1>9, <1>10 DEF RulesInv

LEMMA StartsRules ==
  ASSUME Known, Starts
  PROVE  RulesInv'
<1>1. ASSUME NEW previous, CreateNew(previous)
      PROVE  RulesInv'
  <2>1. PICK record : record = Deployment(New, previous, None)
    OBVIOUS
  <2>2. PICK k : k = Command("create", New, record, "key")
    OBVIOUS
  <2>3. disk' = Recorded(New, record) /\ cmd' = k /\ UNCHANGED <<children, refused>>
    BY <1>1, <2>1, <2>2 DEF CreateNew
  <2>4. k.op = "create" /\ k.dep = New /\ k.mem = record /\ k.fence = 0 /\ k.confirmed /\ k.pc = "key"
    BY <2>2 DEF Command
  <2>5. \A d \in Existing : disk[d].termination = "confirmed"
    BY <1>1 DEF CreateNew, Ready
  <2>6. children' \subseteq children
    BY <2>3
  <2> QED  BY <2>1, <2>3, <2>4, <2>5, <2>6, NewRecordRules
<1>2. ASSUME NEW d \in Existing, CreateReuse(d) \/ RemoveHost(d) \/ Abandon(d) \/ Inspect(d) \/ HandOff(d)
      PROVE  RulesInv'
  <2>1. Ready /\ \E op \in {"reuse", "remove", "abandon", "inspect", "handoff"} :
          \E pc \in {"observe", "settle"} :
            Begin(Command(op, d, disk[d], pc)) /\ (op = "abandon" => Abandonable(disk[d]))
    BY <1>2 DEF CreateReuse, RemoveHost, Abandon, Inspect, HandOff
  <2> QED  BY <2>1, BeginRules
<1> QED  BY <1>1, <1>2 DEF Starts

-----------------------------------------------------------------------------
(* What the child reports.                                                  *)

LEMMA ReportsStay ==
  ASSUME Known, UNCHANGED <<disk, cmd, refused>>,
         \A e \in children' :
           \/ e \in children
           \/ /\ e.phase # "done"
              /\ e.phase = "failed" /\ e.outcome = "blocked" => Undoes(disk[e.dep].steps[e.step].action) # {}
              /\ e.phase = "failed" /\ e.outcome = "capacity" =>
                   disk[e.dep].steps[e.step].action = "run-instances"
  PROVE  RulesInv'
<1>1. Existing' = Existing /\ \A e : Reuses(e)' <=> Reuses(e)
  BY DEF Existing, Reuses
<1>2. \A e : Attended(e)' <=> Attended(e)
  BY DEF Attended, At
<1>3. ReportsFit
  BY DEF Known, RulesInv
<1>4. ReportsFit'
  <2> SUFFICES ASSUME NEW e \in children'
               PROVE  /\ e.phase = "failed" /\ e.outcome = "blocked" => Undoes(disk'[e.dep].steps[e.step].action) # {}
                      /\ e.phase = "failed" /\ e.outcome = "capacity" =>
                           disk'[e.dep].steps[e.step].action = "run-instances"
                      /\ e.phase = "done" /\ Attended(e)' => LastStep(cmd'.mem).returned
    BY DEF ReportsFit
  <2>1. CASE e \in children
    BY <1>2, <1>3, <2>1 DEF ReportsFit
  <2>2. CASE e \notin children
    BY <2>2
  <2> QED  BY <2>1, <2>2
<1>5. RulesInv
  BY DEF Known
<1> QED  BY <1>1, <1>4, <1>5 DEF RulesInv

LEMMA BecomeRules ==
  ASSUME Known, UNCHANGED <<disk, cmd, refused>>, NEW c \in children, NEW phase, NEW outcome,
         Become(c, phase, outcome), phase # "done", outcome \notin {"blocked", "capacity"}
  PROVE  RulesInv'
<1>1. PICK e : e = [c EXCEPT !.phase = phase, !.outcome = outcome]
  OBVIOUS
<1>2. children' = (children \ {c}) \cup {e} /\ e.phase = phase /\ e.outcome = outcome
  BY <1>1 DEF Become, Known, FenceInv, ChildShape
<1> QED  BY <1>2, ReportsStay

LEMMA ReportedRules ==
  ASSUME Known, UNCHANGED <<disk, cmd, refused>>, NEW call \in flight, NEW phase, NEW outcome,
         Reported(call, phase, outcome),
         phase = "answered" \/ (phase = "failed" /\ outcome \in RefusalsOf(call.action))
  PROVE  RulesInv'
<1>1. disk[call.dep].steps[call.step].action = call.action
  BY DEF Known, LaunchInv, TracesFit, Traces
<1>2. ASSUME NEW e \in children', e \notin children
      PROVE  /\ e.phase = phase /\ e.outcome = outcome /\ e.dep = call.dep /\ e.step = call.step
  <2>1. PICK c \in children : e = IF c \in Waiting(call) THEN [c EXCEPT !.phase = phase, !.outcome = outcome] ELSE c
    BY <1>2 DEF Reported
  <2>2. c \in Waiting(call) /\ e = [c EXCEPT !.phase = phase, !.outcome = outcome]
    BY <1>2, <2>1
  <2>3. e.phase = phase /\ e.outcome = outcome /\ e.dep = c.dep /\ e.step = c.step
    BY <2>2 DEF Known, FenceInv, ChildShape
  <2>4. c.dep = call.dep /\ c.step = call.step
    BY <2>2 DEF Waiting, Id
  <2> QED  BY <2>3, <2>4
<1>3. /\ outcome = "blocked" /\ phase = "failed" => Undoes(call.action) # {}
      /\ outcome = "capacity" /\ phase = "failed" => call.action = "run-instances"
  BY DEF RefusalsOf
<1>4. /\ Known /\ UNCHANGED <<disk, cmd, refused>>
      /\ \A e \in children' :
           \/ e \in children
           \/ /\ e.phase # "done"
              /\ e.phase = "failed" /\ e.outcome = "blocked" => Undoes(disk[e.dep].steps[e.step].action) # {}
              /\ e.phase = "failed" /\ e.outcome = "capacity" =>
                   disk[e.dep].steps[e.step].action = "run-instances"
  BY <1>1, <1>2, <1>3
<1> QED  BY ONLY <1>4, ReportsStay

LEMMA CallsRules ==
  ASSUME Known, Calls
  PROVE  RulesInv'
<1>1. ASSUME NEW c \in children, Authorise(c) \/ Dispatch(c) \/ DoNotAttempt(c) \/ GiveUp(c)
      PROVE  RulesInv'
  <2>1. UNCHANGED <<disk, cmd, refused>> /\
        \E phase \in {"authorised", "asked", "failed"} : \E outcome \in {"none", "unattempted", "uncertain"} :
           Become(c, phase, outcome)
    BY <1>1 DEF Authorise, Dispatch, DoNotAttempt, GiveUp
  <2> QED  BY <2>1, BecomeRules
<1>2. ASSUME NEW c \in children, Leave(c)
      PROVE  RulesInv'
  BY <1>2, ReportsStay DEF Leave
<1>3. ASSUME NEW call \in flight, Land(call) \/ Refuse(call)
      PROVE  RulesInv'
  BY <1>3, ReportedRules DEF Land, Refuse
<1> QED  BY <1>1, <1>2, <1>3 DEF Calls

LEMMA StillRules ==
  ASSUME Known, UNCHANGED <<disk, children, refused>>, cmd' \in {cmd, None}
  PROVE  RulesInv'
<1>1. CASE cmd' = cmd
  BY <1>1, ReportsStay
<1>2. CASE cmd' = None
  <2>1. DiskGrows
    BY DEF DiskGrows, Existing
  <2>2. ReportsFit'
    BY <1>2, <2>1, QuietReports
  <2>3. Existing' = Existing /\ \A e : Reuses(e)' <=> Reuses(e)
    BY DEF Existing, Reuses
  <2> QED  BY <1>2, <2>2, <2>3 DEF Known, RulesInv
<1> QED  BY <1>1, <1>2

LEMMA NextRules ==
  ASSUME Known, [Next]_vars
  PROVE  RulesInv'
<1>1. CASE Coordinates
  <2>1. CASE End
    BY <2>1, StillRules DEF End
  <2>2. CASE FenceKey \/ KeyGenerated \/ FenceObserve \/ Look \/ FenceHealth \/ Probe \/ RecordHealth
    BY <2>2, FenceKeyRules, KeyGeneratedRules, FenceObserveRules, LookRules, FenceHealthRules, ProbeRules,
       RecordHealthRules
  <2>3. CASE Fence \/ Spawn \/ Cancel \/ Finish \/ CallBreaks \/ Reconcile \/ Decide
    BY <2>3, FenceRules, SpawnRules, CancelRules, FinishRules, CallBreaksRules, ReconcileRules, DecideRules
  <2>4. CASE Approve \/ ReservePrevious \/ RecordAbandonment \/ Settle \/ Close
    BY <2>4, ApproveRules, ReservePreviousRules, RecordAbandonmentRules, SettleRules, CloseRules
  <2>5. ASSUME NEW c \in children, Retain(c) \/ Reply(c)
        PROVE  RulesInv'
    BY <2>5, RetainRules, ReplyRules
  <2> QED  BY <1>1, <2>1, <2>2, <2>3, <2>4, <2>5 DEF Coordinates
<1>2. CASE Crash \/ ClearLock \/ Drift \/ UNCHANGED vars
  <2>1. UNCHANGED <<disk, children, refused>> /\ cmd' \in {cmd, None}
    BY <1>2 DEF Crash, ClearLock, Drift, vars
  <2> QED  BY <2>1, StillRules
<1> QED  BY <1>1, <1>2, StartsRules, CallsRules DEF Next

(* Every step but the last is verified or refused, a command has what its next  *)
(* write will be asked for, and nothing is missing from a record whose volume  *)
(* was taken over: the coordinator (deployer.ts) establishes before a write     *)
(* what the rules for the record (audit.ts, transitions.ts) will demand of it. *)
THEOREM RulesInvariant == Spec => []RulesInv
<1>1. Init => RulesInv
  <2> SUFFICES ASSUME Init PROVE RulesInv
    OBVIOUS
  <2>1. DOMAIN disk = {} /\ children = {} /\ cmd = None /\ refused = FALSE
    BY EmptySteps, Zenon DEF Init
  <2> QED  BY <2>1 DEF RulesInv, ReportsFit, Existing
<1>2. RulesInv /\ ChainInv /\ SightInv /\ ParsedInv /\ LaunchInv /\ FenceInv /\ [Next]_vars => RulesInv'
  BY NextRules DEF Known
<1> QED  BY <1>1, <1>2, FenceInvariant, LaunchInvariant, SightInvariant, RecordsParse, ChainInvariant, PTL DEF Spec

(* The rules that every record is read by never refuse a write that the         *)
(* coordinator makes from memory that agrees with the disk (audit.ts,         *)
(* transitions.ts, deployer.ts).                                             *)
THEOREM AwsWritesAreAccepted == Spec => []WritesAreAccepted
<1>1. RulesInv => WritesAreAccepted
  BY DEF RulesInv, WritesAreAccepted
<1> QED  BY <1>1, RulesInvariant, PTL
==============================================================================
