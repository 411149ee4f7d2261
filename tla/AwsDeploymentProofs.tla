------------------------- MODULE AwsDeploymentProofs -------------------------
(***************************************************************************)
(* Proofs about AwsDeployment, for any number of deployments and of upsets:  *)
(* a record that says that its child has terminated has no child, a           *)
(* deployment has one instance at most, a record from which no unresolved     *)
(* effect is concluded leaves nothing behind but the volume it retains, and    *)
(* every data volume has one holder, two while it is handed off.             *)
(***************************************************************************)
EXTENDS AwsDeployment, SequenceTheorems, FiniteSetTheorems, TLAPS

-----------------------------------------------------------------------------
(* The inductive invariant.                                                 *)

(* A record has a termination, and reuses a volume of an earlier record.    *)
IsRecord(r) ==
  /\ {"termination", "reuse", "previous", "latest"} \subseteq DOMAIN r
  /\ r.reuse # None => r.previous \in Existing
DiskShape == \A d \in Existing : IsRecord(disk[d])

(* A command works on a record, and hands a volume over only if it reuses one. *)
IsCommand(k) ==
  /\ {"op", "dep", "pc", "mem", "fence", "approval", "observation", "outcome", "confirmed"} = DOMAIN k
  /\ k.dep \in Existing
  /\ IsRecord(k.mem)
  /\ k.pc \in {"reserve", "abandon", "settle"} \/ k.op = "abandon" => k.mem.reuse # None
CommandShape == cmd # None => IsCommand(cmd)
ChildShape ==
  \A c \in children : {"dep", "step", "phase", "outcome"} = DOMAIN c /\ c.dep \in Existing

(* A command has at most the child of its fence, and only during the call or    *)
(* after a kill that was not confirmed, which ends the command.               *)
MayHaveChild(k) ==
  \/ k.pc = "call"
  \/ k.pc = "fail" /\ ~k.confirmed /\ k.outcome = "uncertain"
  \/ k.pc = "end" /\ ~k.confirmed
ChildIsAttended ==
  cmd # None =>
    /\ children # {} => MayHaveChild(cmd)
    /\ \A c \in children : c.dep = cmd.dep /\ c.step = cmd.fence
    /\ \A c, e \in children : c = e
(* A fence is on disk and in memory before its child exists.                *)
FenceIsWritten ==
  cmd # None /\ cmd.pc \in {"fenced", "call"} =>
    /\ disk[cmd.dep].termination = "unconfirmed"
    /\ cmd.mem.termination = "unconfirmed"

FenceInv ==
  /\ DiskShape
  /\ CommandShape
  /\ ChildShape
  /\ ChildIsAttended
  /\ FenceIsWritten
  /\ ConfirmedHasNoChild

-----------------------------------------------------------------------------
(* Writes.                                                                  *)

(* What a write leaves on disk: every record it found, with the one it wrote. *)
LEMMA WriteKeepsRecords ==
  ASSUME NEW d, NEW record, NEW done, NEW failed,
         Write(d, record, done, failed), DiskShape, IsRecord(record)
  PROVE  /\ Existing' = Existing
         /\ DiskShape'
         /\ \A e \in Existing : disk'[e] = disk[e] \/ (e = d /\ disk'[e] = record)
         /\ cmd' = failed \/ (cmd' = done /\ (d \in Existing => disk'[d] = record))
<1>1. disk' = disk \/ disk' = [disk EXCEPT ![d] = record]
  BY DEF Write
<1>2. cmd' = failed \/ (cmd' = done /\ disk' = [disk EXCEPT ![d] = record])
  BY DEF Write
<1>3. /\ Existing' = Existing
      /\ \A e \in Existing : disk'[e] = disk[e] \/ (e = d /\ disk'[e] = record)
  BY <1>1 DEF Existing
<1>4. DiskShape'
  BY <1>3 DEF DiskShape, IsRecord
<1>5. cmd' = failed \/ (cmd' = done /\ (d \in Existing => disk'[d] = record))
  BY <1>2 DEF Existing
<1> QED  BY <1>3, <1>4, <1>5

(* A command that may not have a child has none.                            *)
LEMMA NoChildNoCall ==
  ASSUME FenceInv, cmd # None, ~MayHaveChild(cmd)
  PROVE  children = {}
BY DEF FenceInv, ChildIsAttended

(* Without a child there is nothing to show but the shapes.                 *)
LEMMA ChildlessKeeps ==
  ASSUME DiskShape', CommandShape', FenceIsWritten', children' = {}
  PROVE  FenceInv'
BY DEF FenceInv, ChildShape, ChildIsAttended, ConfirmedHasNoChild

(* A step that leaves no child, with the command it leaves.                 *)
LEMMA CommandKeeps ==
  ASSUME DiskShape', children' = {}, Existing' = Existing,
         NEW k, IsCommand(k), k.pc \notin {"fenced", "call"}, cmd' = k
  PROVE  FenceInv'
<1>1. CommandShape' /\ FenceIsWritten'
  BY DEF CommandShape, FenceIsWritten, IsCommand, IsRecord
<1> QED  BY <1>1, ChildlessKeeps

(* A write without a child.                                                 *)
LEMMA QuietWriteKeeps ==
  ASSUME FenceInv, children' = {},
         NEW d, NEW record, IsRecord(record),
         NEW done, IsCommand(done), done.pc \notin {"fenced", "call"},
         NEW failed, IsCommand(failed), failed.pc \notin {"fenced", "call"},
         Write(d, record, done, failed)
  PROVE  FenceInv'
<1>1. Existing' = Existing /\ DiskShape' /\ (cmd' = failed \/ cmd' = done)
  BY WriteKeepsRecords DEF FenceInv
<1>2. CASE cmd' = done
  BY <1>1, <1>2, CommandKeeps
<1>3. CASE cmd' = failed
  BY <1>1, <1>3, CommandKeeps
<1> QED  BY <1>1, <1>2, <1>3

(* A record that goes on with the one in memory.                            *)
Continues(record) ==
  /\ {"termination", "reuse", "previous", "latest"} \subseteq DOMAIN record
  /\ record.reuse = cmd.mem.reuse
  /\ record.previous = cmd.mem.previous

LEMMA FailingIsCommand ==
  ASSUME NEW record, IsCommand(cmd), Continues(record)
  PROVE  /\ IsRecord(record)
         /\ IsRecord(Held(record)) /\ Held(record).reuse = cmd.mem.reuse
         /\ IsCommand(Failing(record)) /\ Failing(record).pc = "fail"
<1>1. IsRecord(record)
  BY DEF IsCommand, IsRecord, Continues
<1>2. IsRecord(Held(record)) /\ Held(record).reuse = cmd.mem.reuse
  BY <1>1 DEF Held, IsCommand, Continues
<1>3. IsCommand(Failing(record)) /\ Failing(record).pc = "fail"
  BY <1>2 DEF IsCommand, Failing
<1> QED  BY <1>1, <1>2, <1>3

LEMMA QuietPersistKeeps ==
  ASSUME FenceInv, cmd # None, children' = {},
         NEW record, Continues(record),
         NEW next, IsCommand(next),
         next.pc \in {"reserve", "abandon", "settle"} \/ next.op = "abandon" => cmd.mem.reuse # None,
         next.pc \notin {"fenced", "call"},
         Persist(record, next)
  PROVE  FenceInv'
<1>1. IsCommand(cmd)
  BY DEF FenceInv, CommandShape
<1>2. IsRecord(record) /\ IsCommand(Failing(record)) /\ Failing(record).pc = "fail"
  BY <1>1, FailingIsCommand
<1> DEFINE done == [next EXCEPT !.mem = record]
<1>3. IsCommand(done) /\ done.pc \notin {"fenced", "call"}
  BY <1>2 DEF IsCommand, Continues
<1>4. Write(cmd.dep, record, done, Failing(record))
  BY DEF Persist
<1> HIDE DEF done
<1> QED  BY <1>2, <1>3, <1>4, QuietWriteKeeps

-----------------------------------------------------------------------------
(* Commands start when every record says that its child is gone.            *)

LEMMA ReadyHasNoChild ==
  ASSUME FenceInv, Ready
  PROVE  children = {}
BY DEF FenceInv, Ready, ConfirmedHasNoChild, ChildShape

LEMMA BeginKeeps ==
  ASSUME FenceInv, Ready, NEW k, IsCommand(k), k.pc \notin {"fenced", "call"}, Begin(k)
  PROVE  FenceInv'
<1>1. children' = {} /\ Existing' = Existing /\ DiskShape' /\ cmd' = k
  BY ReadyHasNoChild DEF Begin, FenceInv, DiskShape, IsRecord, Existing
<1> QED  BY <1>1, CommandKeeps

LEMMA RecordedKeeps ==
  ASSUME FenceInv, children' = {}, NEW d, NEW record, disk' = Recorded(d, record),
         {"termination", "reuse", "previous", "latest"} \subseteq DOMAIN record,
         record.reuse # None => record.previous \in Existing,
         NEW k,
         {"op", "dep", "pc", "mem", "fence", "approval", "observation", "outcome", "confirmed"} = DOMAIN k,
         k.dep = d, k.mem = record, k.pc \notin {"fenced", "call"},
         k.pc \in {"reserve", "abandon", "settle"} \/ k.op = "abandon" => record.reuse # None,
         cmd' = k
  PROVE  FenceInv'
<1>1. Existing' = Existing \cup {d}
  BY DEF Recorded, Existing
<1>2. \A e \in Existing' : disk'[e] = record \/ (e \in Existing /\ disk'[e] = disk[e])
  BY <1>1 DEF Recorded, Existing
<1>3. DiskShape'
  BY <1>1, <1>2 DEF DiskShape, IsRecord, FenceInv
<1>4. CommandShape' /\ FenceIsWritten'
  BY <1>1 DEF CommandShape, FenceIsWritten, IsCommand, IsRecord
<1> QED  BY <1>3, <1>4, ChildlessKeeps

LEMMA StartsKeep ==
  ASSUME FenceInv, Starts
  PROVE  FenceInv'
<1>1. ASSUME NEW previous, CreateNew(previous)
      PROVE  FenceInv'
  <2> DEFINE record == Deployment(New, previous, None)
             k == Command("create", New, record, "key")
  <2>1. children' = {} /\ disk' = Recorded(New, record) /\ cmd' = k
    BY <1>1, ReadyHasNoChild DEF CreateNew
  <2>2. {"termination", "reuse", "previous", "latest"} \subseteq DOMAIN record /\ record.reuse = None
    BY DEF Deployment
  <2>3. /\ {"op", "dep", "pc", "mem", "fence", "approval", "observation", "outcome", "confirmed"} = DOMAIN k
        /\ k.dep = New /\ k.mem = record /\ k.pc = "key" /\ k.op = "create"
    BY DEF Command
  <2> HIDE DEF record, k
  <2> QED  BY <2>1, <2>2, <2>3, RecordedKeeps
<1>2. ASSUME NEW op, NEW d \in Existing, NEW pc, pc \notin {"fenced", "call"}, Ready,
             pc \in {"reserve", "abandon", "settle"} \/ op = "abandon" => disk[d].reuse # None,
             Begin(Command(op, d, disk[d], pc))
      PROVE  FenceInv'
  <2>1. IsCommand(Command(op, d, disk[d], pc)) /\ Command(op, d, disk[d], pc).pc = pc
    BY <1>2 DEF Command, IsCommand, FenceInv, DiskShape
  <2> QED  BY <1>2, <2>1, BeginKeeps
<1>3. ASSUME NEW d \in Existing, CreateReuse(d)
      PROVE  FenceInv'
  BY <1>2, <1>3 DEF CreateReuse
<1>4. ASSUME NEW d \in Existing, RemoveHost(d)
      PROVE  FenceInv'
  <2>1. Ready /\ Begin(Command("remove", d, disk[d], "observe"))
    BY <1>4, Zenon DEF RemoveHost
  <2> QED  BY <1>2, <2>1
<1>5. ASSUME NEW d \in Existing, Abandon(d)
      PROVE  FenceInv'
  BY <1>2, <1>5 DEF Abandon, Abandonable
<1>6. ASSUME NEW d \in Existing, Inspect(d)
      PROVE  FenceInv'
  <2>1. Ready /\ Begin(Command("inspect", d, disk[d], "observe"))
    BY <1>6, Zenon DEF Inspect
  <2> QED  BY <1>2, <2>1
<1>7. ASSUME NEW d \in Existing, HandOff(d)
      PROVE  FenceInv'
  <2>1. Ready /\ disk[d].reuse # None /\ Begin(Command("handoff", d, disk[d], "settle"))
    BY <1>7, Zenon DEF HandOff
  <2>2. IsCommand(Command("handoff", d, disk[d], "settle"))
        /\ Command("handoff", d, disk[d], "settle").pc = "settle"
    BY <2>1 DEF Command, IsCommand, FenceInv, DiskShape
  <2> QED  BY <2>1, <2>2, BeginKeeps
<1> QED  BY <1>1, <1>3, <1>4, <1>5, <1>6, <1>7 DEF Starts

-----------------------------------------------------------------------------
(* The steps of a command that has no child.                                *)

LEMMA CommandHasShape ==
  ASSUME FenceInv, cmd # None
  PROVE  /\ IsCommand(cmd)
         /\ Continues(cmd.mem)
         /\ IsRecord(cmd.mem)
         /\ ~MayHaveChild(cmd) => children = {}
BY NoChildNoCall DEF FenceInv, CommandShape, IsCommand, IsRecord, Continues

(* A step that only moves the command on.                                   *)
LEMMA MoveKeeps ==
  ASSUME FenceInv, cmd # None, ~MayHaveChild(cmd), UNCHANGED <<disk, children>>,
         NEW k, IsCommand(k), k.pc \notin {"fenced", "call"}, cmd' = k
  PROVE  FenceInv'
<1>1. children' = {} /\ Existing' = Existing /\ DiskShape'
  BY CommandHasShape DEF FenceInv, DiskShape, IsRecord, Existing
<1> QED  BY <1>1, CommandKeeps

LEMMA ToIsCommand ==
  ASSUME IsCommand(cmd), NEW pc, pc \notin {"reserve", "abandon", "settle"} \/ cmd.mem.reuse # None
  PROVE  IsCommand(To(pc)) /\ To(pc).pc = pc /\ To(pc).op = cmd.op
BY DEF IsCommand, To

LEMMA ContinuingIsRecord ==
  ASSUME FenceInv, cmd # None, NEW r, Continues(r)
  PROVE  /\ Continues(Confirmed(r)) /\ Continues(Fenced(r))
         /\ Confirmed(r).termination = "confirmed" /\ Fenced(r).termination = "unconfirmed"
         /\ \A step : Continues(WithLast(r, step)) /\ WithLast(r, step).termination = r.termination
BY DEF Continues, Confirmed, Fenced, WithLast

(* A write of the command's record that moves it on.                        *)
LEMMA PersistToKeeps ==
  ASSUME FenceInv, cmd # None, children' = {}, NEW record, Continues(record),
         NEW pc, pc \notin {"reserve", "abandon", "settle"} \/ cmd.mem.reuse # None,
         pc \notin {"fenced", "call"}, Persist(record, To(pc))
  PROVE  FenceInv'
<1>1. IsCommand(cmd)
  BY CommandHasShape
<1>2. IsCommand(To(pc)) /\ To(pc).pc = pc /\ To(pc).op = cmd.op
  BY <1>1, ToIsCommand
<1>3. cmd.op = "abandon" => cmd.mem.reuse # None
  BY <1>1 DEF IsCommand
<1> QED  BY <1>2, <1>3, QuietPersistKeeps

LEMMA ApproveKeeps ==
  ASSUME FenceInv, Approve
  PROVE  FenceInv'
<1> DEFINE id == Reusable(disk[cmd.dep])
           record == Deployment(New, cmd.dep, id)
           k == [cmd EXCEPT !.op = "create", !.dep = New, !.mem = record, !.pc = "reserve"]
<1>1. cmd # None /\ cmd.pc = "approve" /\ UNCHANGED children /\ id # None /\ disk' = Recorded(New, record)
      /\ cmd' = k
  BY DEF Approve, At
<1>2. children' = {} /\ IsCommand(cmd)
  BY <1>1, CommandHasShape DEF MayHaveChild
<1>3. {"termination", "reuse", "previous", "latest"} \subseteq DOMAIN record /\ record.reuse = id /\ record.previous = cmd.dep
  BY DEF Deployment
<1> HIDE DEF id, record
<1>4. /\ {"op", "dep", "pc", "mem", "fence", "approval", "observation", "outcome", "confirmed"} = DOMAIN k
      /\ k.dep = New /\ k.mem = record /\ k.pc = "reserve" /\ k.op = "create"
  BY <1>2 DEF IsCommand
<1>5. cmd.dep \in Existing
  BY <1>2 DEF IsCommand
<1> HIDE DEF k
<1> QED  BY <1>1, <1>2, <1>3, <1>4, <1>5, RecordedKeeps

(* The deployment whose volume is reused has a record, which may be reserved or completed. *)
LEMMA PreviousIsRecord ==
  ASSUME FenceInv, IsCommand(cmd), cmd.mem.reuse # None
  PROVE  /\ IsRecord(disk[cmd.mem.previous])
         /\ \A to : IsRecord(Reserve(disk[cmd.mem.previous], to))
         /\ IsRecord(Complete(disk[cmd.mem.previous]))
<1>1. cmd.mem.previous \in Existing
  BY DEF IsCommand, IsRecord
<1>2. IsRecord(disk[cmd.mem.previous])
  BY <1>1 DEF FenceInv, DiskShape
<1> QED  BY <1>2 DEF IsRecord, Reserve, Complete

LEMMA ReservePreviousKeeps ==
  ASSUME FenceInv, ReservePrevious
  PROVE  FenceInv'
<1>1. cmd # None /\ cmd.pc = "reserve" /\ UNCHANGED children
  BY DEF ReservePrevious, At
<1>2. children' = {} /\ IsCommand(cmd)
  BY <1>1, CommandHasShape DEF MayHaveChild
<1> DEFINE previous == disk[cmd.mem.previous]
<1>3. IsRecord(Reserve(previous, cmd.dep))
  BY <1>1, <1>2, PreviousIsRecord DEF IsCommand
<1>4. IsCommand(To("key")) /\ To("key").pc = "key" /\ IsCommand(To("end")) /\ To("end").pc = "end"
  BY <1>2, ToIsCommand
<1>5. Write(previous.id, Reserve(previous, cmd.dep), To("key"), To("end"))
  BY DEF ReservePrevious
<1> QED  BY <1>2, <1>3, <1>4, <1>5, QuietWriteKeeps

LEMMA SettleKeeps ==
  ASSUME FenceInv, Settle
  PROVE  FenceInv'
<1>1. cmd # None /\ cmd.pc = "settle" /\ UNCHANGED children
  BY DEF Settle, At
<1>2. children' = {} /\ IsCommand(cmd) /\ ~MayHaveChild(cmd)
  BY <1>1, CommandHasShape DEF MayHaveChild
<1> DEFINE previous == disk[cmd.mem.previous]
           failed == IF cmd.op = "create" THEN [cmd EXCEPT !.pc = "fail", !.outcome = "uncertain"] ELSE To("end")
<1>3. IsRecord(Reserve(previous, cmd.dep)) /\ IsRecord(Complete(previous))
  BY <1>1, <1>2, PreviousIsRecord DEF IsCommand
<1>4. IsCommand(failed) /\ failed.pc \in {"fail", "end"}
  BY <1>2 DEF IsCommand, To
<1>5. cmd.pc \notin {"fenced", "call"}
  BY <1>1
<1>6. CASE Write(previous.id, Reserve(previous, cmd.dep), cmd, failed)
  <2> HIDE DEF previous, failed
  <2> QED  BY <1>2, <1>3, <1>4, <1>5, <1>6, QuietWriteKeeps
<1>7. CASE Write(previous.id, Complete(previous), cmd, failed)
  <2> HIDE DEF previous, failed
  <2> QED  BY <1>2, <1>3, <1>4, <1>5, <1>7, QuietWriteKeeps
<1>8. CASE cmd' = To(IF cmd.op = "create" THEN "next" ELSE "end") /\ UNCHANGED disk
  <2>1. \E pc \in {"next", "end"} : cmd' = To(pc)
    BY <1>8
  <2> QED  BY <1>1, <1>2, <1>8, <2>1, ToIsCommand, MoveKeeps
<1> QED  BY <1>6, <1>7, <1>8 DEF Settle

LEMMA RecordAbandonmentKeeps ==
  ASSUME FenceInv, RecordAbandonment
  PROVE  FenceInv'
<1>1. cmd # None /\ cmd.pc = "abandon" /\ UNCHANGED children
  BY DEF RecordAbandonment, At
<1>2. children' = {} /\ IsCommand(cmd)
  BY <1>1, CommandHasShape DEF MayHaveChild
<1> DEFINE record == [cmd.mem EXCEPT !.abandoned = TRUE]
           done == [cmd EXCEPT !.mem = record, !.pc = "settle"]
<1>3. IsRecord(record) /\ IsCommand(done) /\ done.pc = "settle"
  BY <1>1, <1>2 DEF IsCommand, IsRecord
<1>4. IsCommand(To("end")) /\ To("end").pc = "end"
  BY <1>2, ToIsCommand
<1>5. Write(cmd.dep, record, done, To("end"))
  BY DEF RecordAbandonment
<1> HIDE DEF record, done
<1> QED  BY <1>2, <1>3, <1>4, <1>5, QuietWriteKeeps

LEMMA FenceKeyKeeps ==
  ASSUME FenceInv, FenceKey
  PROVE  FenceInv'
<1>1. cmd # None /\ cmd.pc = "key" /\ UNCHANGED children
  BY DEF FenceKey, At
<1>2. children' = {} /\ Continues(cmd.mem)
  BY <1>1, CommandHasShape DEF MayHaveChild
<1>3. Continues(Fenced(cmd.mem))
  BY <1>1, <1>2, ContinuingIsRecord
<1>4. Persist(Fenced(cmd.mem), To("keyed"))
  BY DEF FenceKey
<1> QED  BY <1>1, <1>2, <1>3, <1>4, PersistToKeeps

LEMMA KeyGeneratedKeeps ==
  ASSUME FenceInv, KeyGenerated
  PROVE  FenceInv'
<1>1. cmd # None /\ cmd.pc = "keyed" /\ UNCHANGED children
  BY DEF KeyGenerated, At
<1>2. children' = {} /\ Continues(cmd.mem)
  BY <1>1, CommandHasShape DEF MayHaveChild
<1>3. Continues([Confirmed(cmd.mem) EXCEPT !.key = TRUE])
  BY <1>1, <1>2 DEF Continues, Confirmed
<1>4. Persist([Confirmed(cmd.mem) EXCEPT !.key = TRUE], To("next"))
  BY DEF KeyGenerated
<1> QED  BY <1>1, <1>2, <1>3, <1>4, PersistToKeeps

LEMMA FenceObserveKeeps ==
  ASSUME FenceInv, FenceObserve
  PROVE  FenceInv'
<1>1. cmd # None /\ cmd.pc = "observe" /\ UNCHANGED children
  BY DEF FenceObserve, At
<1>2. children' = {} /\ Continues(cmd.mem)
  BY <1>1, CommandHasShape DEF MayHaveChild
<1>3. Continues(Fenced(cmd.mem))
  BY <1>1, <1>2, ContinuingIsRecord
<1>4. Persist(Fenced(cmd.mem), To("look"))
  BY DEF FenceObserve
<1> QED  BY <1>1, <1>2, <1>3, <1>4, PersistToKeeps

LEMMA FenceHealthKeeps ==
  ASSUME FenceInv, FenceHealth
  PROVE  FenceInv'
<1>1. cmd # None /\ cmd.pc = "health" /\ UNCHANGED children
  BY DEF FenceHealth, At
<1>2. children' = {} /\ Continues(cmd.mem)
  BY <1>1, CommandHasShape DEF MayHaveChild
<1>3. Continues(Fenced(cmd.mem))
  BY <1>1, <1>2, ContinuingIsRecord
<1>4. Persist(Fenced(cmd.mem), To("probe"))
  BY DEF FenceHealth
<1> QED  BY <1>1, <1>2, <1>3, <1>4, PersistToKeeps

LEMMA RecordHealthKeeps ==
  ASSUME FenceInv, RecordHealth
  PROVE  FenceInv'
<1>1. cmd # None /\ cmd.pc = "healthy" /\ UNCHANGED children
  BY DEF RecordHealth, At
<1>2. children' = {} /\ Continues(cmd.mem)
  BY <1>1, CommandHasShape DEF MayHaveChild
<1>3. Continues([cmd.mem EXCEPT !.health = TRUE])
  BY <1>2 DEF Continues
<1>4. Persist([cmd.mem EXCEPT !.health = TRUE], To("end"))
  BY DEF RecordHealth
<1> QED  BY <1>1, <1>2, <1>3, <1>4, PersistToKeeps

LEMMA ProbeKeeps ==
  ASSUME FenceInv, Probe
  PROVE  FenceInv'
<1>1. cmd # None /\ cmd.pc = "probe" /\ UNCHANGED children
  BY DEF Probe, At
<1>2. children' = {} /\ Continues(cmd.mem)
  BY <1>1, CommandHasShape DEF MayHaveChild
<1>3. Continues(Confirmed(cmd.mem))
  BY <1>1, <1>2, ContinuingIsRecord
<1>4. \E next \in {"end", "healthy"} : Persist(Confirmed(cmd.mem), To(next))
  BY DEF Probe
<1> QED  BY <1>1, <1>2, <1>3, <1>4, PersistToKeeps

LEMMA LookKeeps ==
  ASSUME FenceInv, Look
  PROVE  FenceInv'
<1> DEFINE next == [cmd EXCEPT !.pc = "reconcile", !.observation = Observe(cmd.mem)]
<1>1. cmd # None /\ cmd.pc = "look" /\ UNCHANGED children
  BY DEF Look, At
<1>2. children' = {} /\ Continues(cmd.mem) /\ IsCommand(cmd)
  BY <1>1, CommandHasShape DEF MayHaveChild
<1>3. Continues(Confirmed(cmd.mem))
  BY <1>1, <1>2, ContinuingIsRecord
<1>4. Persist(Confirmed(cmd.mem), next)
  BY DEF Look
<1>5. IsCommand(next) /\ next.pc = "reconcile" /\ (next.op = "abandon" => cmd.mem.reuse # None)
  BY <1>2 DEF IsCommand
<1> HIDE DEF next
<1> QED  BY <1>1, <1>2, <1>3, <1>4, <1>5, QuietPersistKeeps

LEMMA ReconcileKeeps ==
  ASSUME FenceInv, Reconcile
  PROVE  FenceInv'
<1> DEFINE record == Reconciled(cmd.mem, cmd.observation)
           next == IF ~Verifying THEN To("observed")
                   ELSE IF ~Matches(cmd.mem, cmd.observation)
                   THEN [cmd EXCEPT !.pc = "fail", !.outcome = "uncertain"]
                   ELSE IF LastStep(cmd.mem).action = "attach-volume" /\ cmd.mem.reuse # None
                   THEN To("settle") ELSE To("next")
<1>1. cmd # None /\ cmd.pc = "reconcile" /\ UNCHANGED children
  BY DEF Reconcile, At
<1>2. children' = {} /\ Continues(cmd.mem) /\ IsCommand(cmd)
  BY <1>1, CommandHasShape DEF MayHaveChild
<1>3. Continues(record)
  <2> DEFINE agrees == Matches(cmd.mem, cmd.observation)
             latest == [cmd.mem EXCEPT !.latest = cmd.observation,
                                       !.implicit = @ \/ (agrees /\ "implicit" \in DOMAIN cmd.observation)]
             verified == [LastStep(cmd.mem) EXCEPT !.verified = TRUE]
  <2>1. record = latest \/ record = WithLast(latest, verified)
    BY DEF Reconciled
  <2>2. Continues(latest)
    BY <1>2 DEF Continues
  <2> HIDE DEF record, latest, verified
  <2> QED  BY <1>1, <2>1, <2>2, ContinuingIsRecord
<1>4. Persist(record, next)
  BY DEF Reconcile
<1>5. CASE next = To("observed") \/ next = To("next")
  <2> HIDE DEF record, next
  <2> QED  BY <1>1, <1>2, <1>3, <1>4, <1>5, PersistToKeeps
<1>6. CASE next = To("settle") /\ cmd.mem.reuse # None
  <2> HIDE DEF record, next
  <2> QED  BY <1>1, <1>2, <1>3, <1>4, <1>6, PersistToKeeps
<1>7. CASE next = [cmd EXCEPT !.pc = "fail", !.outcome = "uncertain"]
  <2> HIDE DEF record, next
  <2>1. IsCommand(next) /\ next.pc = "fail" /\ (next.op = "abandon" => cmd.mem.reuse # None)
    BY <1>2, <1>7 DEF IsCommand
  <2> QED  BY <1>1, <1>2, <1>3, <1>4, <2>1, QuietPersistKeeps
<1> QED  BY <1>5, <1>6, <1>7

LEMMA DecideKeeps ==
  ASSUME FenceInv, Decide
  PROVE  FenceInv'
<1>1. cmd # None /\ cmd.pc = "observed" /\ UNCHANGED <<disk, children>>
  BY DEF Decide, At
<1>2. IsCommand(cmd) /\ ~MayHaveChild(cmd)
  BY <1>1, CommandHasShape DEF MayHaveChild
<1>3. CASE cmd' = [cmd EXCEPT !.pc = "next", !.approval = TRUE]
  <2>1. IsCommand(cmd') /\ cmd'.pc = "next"
    BY <1>2, <1>3 DEF IsCommand
  <2> QED  BY <1>1, <1>2, <1>3, <2>1, MoveKeeps
<1>4. ASSUME NEW pc \in {"end", "approve", "health"}, cmd' = To(pc)
      PROVE  FenceInv'
  BY <1>1, <1>2, <1>4, ToIsCommand, MoveKeeps
<1>5. CASE cmd.op = "abandon" /\ cmd' = To("abandon")
  <2>1. cmd.mem.reuse # None
    BY <1>2, <1>5 DEF IsCommand
  <2> QED  BY <1>1, <1>2, <1>5, <2>1, ToIsCommand, MoveKeeps
<1> QED  BY <1>3, <1>4, <1>5 DEF Decide

LEMMA CancelKeeps ==
  ASSUME FenceInv, Cancel
  PROVE  FenceInv'
<1> DEFINE k == [cmd EXCEPT !.pc = "fail",
                            !.outcome = IF cmd.pc = "fenced" THEN "unattempted" ELSE "uncertain"]
<1>1. cmd # None /\ cmd.pc \in {"next", "fenced", "observe", "health"} /\ UNCHANGED <<disk, children>> /\ cmd' = k
  BY DEF Cancel, At
<1>2. IsCommand(cmd) /\ ~MayHaveChild(cmd)
  BY <1>1, CommandHasShape DEF MayHaveChild
<1>3. IsCommand(k) /\ k.pc = "fail"
  BY <1>2 DEF IsCommand
<1> HIDE DEF k
<1> QED  BY <1>1, <1>2, <1>3, MoveKeeps

LEMMA FinishKeeps ==
  ASSUME FenceInv, Finish
  PROVE  FenceInv'
<1>1. cmd # None /\ cmd.pc = "next" /\ UNCHANGED <<disk, children>>
  BY DEF Finish, At
<1>2. IsCommand(cmd) /\ ~MayHaveChild(cmd)
  BY <1>1, CommandHasShape DEF MayHaveChild
<1>3. \E pc \in {"health", "end"} : cmd' = To(pc)
  BY DEF Finish
<1> QED  BY <1>1, <1>2, <1>3, ToIsCommand, MoveKeeps

-----------------------------------------------------------------------------
(* The fence, and the steps of a command that may have a child.             *)

LEMMA FenceKeeps ==
  ASSUME FenceInv, Fence
  PROVE  FenceInv'
<1>1. cmd # None /\ cmd.pc = "next" /\ UNCHANGED children
  BY DEF Fence, At
<1>2. children' = {} /\ Continues(cmd.mem) /\ IsCommand(cmd)
  BY <1>1, CommandHasShape DEF MayHaveChild
<1> DEFINE attempt == IF cmd.op = "create" THEN 0 ELSE cmd.mem.removals + (IF cmd.approval THEN 1 ELSE 0)
           record == [Fenced(cmd.mem) EXCEPT !.steps = Append(@, Step(Planned, attempt)), !.removals = attempt]
           place == Len(record.steps)
           done == [cmd EXCEPT !.mem = record, !.pc = "fenced", !.fence = place, !.approval = FALSE]
           failed == [Failing(record) EXCEPT !.fence = place]
<1>3. Write(cmd.dep, record, done, failed)
  BY DEF Fence
<1>4. Continues(record) /\ record.termination = "unconfirmed"
  BY <1>2 DEF Continues, Fenced
<1> HIDE DEF record
<1>5. IsRecord(record) /\ IsCommand(Failing(record)) /\ Failing(record).pc = "fail"
  BY <1>2, <1>4, FailingIsCommand
<1>6. /\ IsCommand(done) /\ done.pc = "fenced" /\ done.mem = record /\ done.dep = cmd.dep
      /\ IsCommand(failed) /\ failed.pc = "fail"
  BY <1>2, <1>4, <1>5 DEF IsCommand, Continues
<1>7. cmd.dep \in Existing
  BY <1>2 DEF IsCommand
<1> HIDE DEF done, failed
<1>8. Existing' = Existing /\ DiskShape' /\ (cmd' = failed \/ (cmd' = done /\ disk'[cmd.dep] = record))
  BY <1>3, <1>5, <1>7, WriteKeepsRecords DEF FenceInv
<1>9. CASE cmd' = failed
  BY <1>2, <1>6, <1>8, <1>9, CommandKeeps
<1>10. CASE cmd' = done /\ disk'[cmd.dep] = record
  <2>1. CommandShape'
    BY <1>6, <1>8, <1>10 DEF CommandShape, IsCommand, IsRecord
  <2>2. FenceIsWritten'
    BY <1>4, <1>6, <1>10 DEF FenceIsWritten
  <2> QED  BY <1>2, <1>8, <2>1, <2>2, ChildlessKeeps
<1> QED  BY <1>8, <1>9, <1>10

LEMMA SpawnKeeps ==
  ASSUME FenceInv, Spawn
  PROVE  FenceInv'
<1> DEFINE child == [dep |-> cmd.dep, step |-> cmd.fence, phase |-> "spawned", outcome |-> "none"]
<1>1. cmd # None /\ cmd.pc = "fenced" /\ UNCHANGED disk /\ cmd' = To("call") /\ children' = children \cup {child}
  BY DEF Spawn, At
<1>2. children = {} /\ IsCommand(cmd)
  BY <1>1, CommandHasShape DEF MayHaveChild
<1>3. IsCommand(To("call")) /\ To("call").pc = "call"
  BY <1>2, ToIsCommand
<1>4. To("call").dep = cmd.dep /\ To("call").fence = cmd.fence /\ To("call").mem = cmd.mem
  BY <1>2 DEF IsCommand, To
<1>5. children' = {child}
  BY <1>1, <1>2
<1>6. Existing' = Existing /\ DiskShape'
  BY <1>1 DEF FenceInv, DiskShape, IsRecord, Existing
<1>7. CommandShape'
  BY <1>1, <1>3, <1>6 DEF CommandShape, IsCommand, IsRecord
<1>8. cmd.dep \in Existing /\ disk[cmd.dep].termination = "unconfirmed" /\ cmd.mem.termination = "unconfirmed"
  BY <1>1, <1>2 DEF FenceInv, FenceIsWritten, IsCommand
<1>9. FenceIsWritten' /\ ConfirmedHasNoChild' /\ ChildShape'
  BY <1>1, <1>4, <1>5, <1>6, <1>8 DEF FenceIsWritten, ConfirmedHasNoChild, ChildShape
<1>10. ChildIsAttended'
  BY <1>1, <1>3, <1>4, <1>5 DEF ChildIsAttended, MayHaveChild
<1> QED  BY <1>6, <1>7, <1>9, <1>10 DEF FenceInv

(* A child that answers or leaves, while disk and command stand still.      *)
LEMMA ChildrenKeep ==
  ASSUME FenceInv, UNCHANGED <<disk, cmd>>,
         \A c \in children' :
           /\ {"dep", "step", "phase", "outcome"} = DOMAIN c
           /\ \E e \in children : c.dep = e.dep /\ c.step = e.step,
         cmd # None => \A c, e \in children' : c = e
  PROVE  FenceInv'
<1>1. Existing' = Existing /\ DiskShape' /\ CommandShape' /\ FenceIsWritten'
  BY DEF FenceInv, DiskShape, CommandShape, IsCommand, IsRecord, FenceIsWritten, Existing
<1>2. ChildShape' /\ ConfirmedHasNoChild'
  BY <1>1 DEF FenceInv, ChildShape, ConfirmedHasNoChild
<1>3. ChildIsAttended'
  BY DEF FenceInv, ChildIsAttended, MayHaveChild
<1> QED  BY <1>1, <1>2, <1>3 DEF FenceInv

LEMMA BecomeKeeps ==
  ASSUME FenceInv, UNCHANGED <<disk, cmd>>, NEW c \in children, NEW phase, NEW outcome,
         Become(c, phase, outcome)
  PROVE  FenceInv'
<1> DEFINE changed == [c EXCEPT !.phase = phase, !.outcome = outcome]
<1>1. children' = (children \ {c}) \cup {changed}
  BY DEF Become
<1>2. {"dep", "step", "phase", "outcome"} = DOMAIN changed /\ changed.dep = c.dep /\ changed.step = c.step
  BY DEF FenceInv, ChildShape
<1> HIDE DEF changed
<1>3. \A d \in children' :
        /\ {"dep", "step", "phase", "outcome"} = DOMAIN d
        /\ \E e \in children : d.dep = e.dep /\ d.step = e.step
  BY <1>1, <1>2 DEF FenceInv, ChildShape
<1>4. cmd # None => \A d, e \in children' : d = e
  BY <1>1 DEF FenceInv, ChildIsAttended
<1> QED  BY <1>3, <1>4, ChildrenKeep

LEMMA ReportedKeeps ==
  ASSUME FenceInv, UNCHANGED <<disk, cmd>>, NEW call, NEW phase, NEW outcome,
         Reported(call, phase, outcome)
  PROVE  FenceInv'
<1> DEFINE changed(c) == IF c \in Waiting(call) THEN [c EXCEPT !.phase = phase, !.outcome = outcome] ELSE c
<1>1. children' = {changed(c) : c \in children}
  BY DEF Reported
<1>2. ASSUME NEW c \in children
      PROVE  /\ {"dep", "step", "phase", "outcome"} = DOMAIN changed(c)
             /\ changed(c).dep = c.dep /\ changed(c).step = c.step
  BY DEF FenceInv, ChildShape
<1> HIDE DEF changed
<1>3. \A d \in children' :
        /\ {"dep", "step", "phase", "outcome"} = DOMAIN d
        /\ \E e \in children : d.dep = e.dep /\ d.step = e.step
  BY <1>1, <1>2
<1>4. cmd # None => \A d, e \in children' : d = e
  BY <1>1 DEF FenceInv, ChildIsAttended
<1> QED  BY <1>3, <1>4, ChildrenKeep

LEMMA CallsKeep ==
  ASSUME FenceInv, Calls
  PROVE  FenceInv'
<1>1. ASSUME NEW c \in children, Authorise(c)
      PROVE  FenceInv'
  BY <1>1, BecomeKeeps DEF Authorise
<1>2. ASSUME NEW c \in children, Dispatch(c)
      PROVE  FenceInv'
  BY <1>2, BecomeKeeps DEF Dispatch
<1>3. ASSUME NEW c \in children, DoNotAttempt(c)
      PROVE  FenceInv'
  BY <1>3, BecomeKeeps DEF DoNotAttempt
<1>4. ASSUME NEW c \in children, GiveUp(c)
      PROVE  FenceInv'
  BY <1>4, BecomeKeeps DEF GiveUp
<1>5. ASSUME NEW c \in children, Leave(c)
      PROVE  FenceInv'
  <2>1. UNCHANGED <<disk, cmd>> /\ children' \subseteq children
    BY <1>5 DEF Leave
  <2> QED  BY <2>1, ChildrenKeep DEF FenceInv, ChildShape, ChildIsAttended
<1>6. ASSUME NEW call \in flight, Land(call)
      PROVE  FenceInv'
  BY <1>6, ReportedKeeps DEF Land
<1>7. ASSUME NEW call \in flight, Refuse(call)
      PROVE  FenceInv'
  BY <1>7, ReportedKeeps DEF Refuse
<1> QED  BY <1>1, <1>2, <1>3, <1>4, <1>5, <1>6, <1>7 DEF Calls

(* A write that leaves the fence open keeps the child of the command.       *)
LEMMA OpenWriteKeeps ==
  ASSUME FenceInv, cmd # None, disk[cmd.dep].termination = "unconfirmed",
         \A c \in children' :
           /\ {"dep", "step", "phase", "outcome"} = DOMAIN c
           /\ \E e \in children : c.dep = e.dep /\ c.step = e.step,
         \A c, e \in children' : c = e,
         NEW record, IsRecord(record), record.termination = "unconfirmed",
         NEW done, IsCommand(done), done.dep = cmd.dep, done.fence = cmd.fence, done.pc # "fenced",
         done.pc = "call" => done.mem.termination = "unconfirmed",
         NEW failed, IsCommand(failed), failed.dep = cmd.dep, failed.fence = cmd.fence,
         failed.pc \notin {"fenced", "call"},
         children' # {} => (cmd' = done => MayHaveChild(done)) /\ (cmd' = failed => MayHaveChild(failed)),
         Write(cmd.dep, record, done, failed)
  PROVE  FenceInv'
<1>1. /\ Existing' = Existing /\ DiskShape' /\ (cmd' = failed \/ cmd' = done)
      /\ \A e \in Existing : disk'[e] = disk[e] \/ (e = cmd.dep /\ disk'[e] = record)
  BY WriteKeepsRecords DEF FenceInv
<1>2. cmd.dep \in Existing
  BY CommandHasShape DEF IsCommand
<1>3. disk'[cmd.dep].termination = "unconfirmed"
  BY <1>1, <1>2
<1>4. CommandShape' /\ FenceIsWritten'
  BY <1>1, <1>3 DEF CommandShape, IsCommand, IsRecord, FenceIsWritten
<1>5. \A c \in children' : c.dep = cmd.dep /\ c.step = cmd.fence
  BY DEF FenceInv, ChildIsAttended
<1>6. ChildShape' /\ ConfirmedHasNoChild'
  BY <1>1, <1>2, <1>3, <1>5 DEF ChildShape, ConfirmedHasNoChild
<1>7. ChildIsAttended'
  BY <1>1, <1>5 DEF ChildIsAttended, MayHaveChild
<1> QED  BY <1>1, <1>4, <1>6, <1>7 DEF FenceInv

(* What retaining an answer writes: the record, or a failure that knows the    *)
(* child to be gone or does not.                                             *)
Retains(c, record, done, failed) ==
  /\ Write(cmd.dep, record, done, failed)
  /\ DOMAIN failed = DOMAIN cmd
  /\ failed.mem = Held(record) /\ failed.pc = "fail" /\ failed.outcome = "uncertain"
  /\ failed.dep = cmd.dep /\ failed.op = cmd.op /\ failed.fence = cmd.fence
  /\ \/ cmd'.pc = "call" /\ children' = (children \ {c}) \cup {[c EXCEPT !.phase = "done", !.outcome = "none"]}
     \/ cmd'.pc # "call" /\ children' = children \ {c}
     \/ cmd'.pc # "call" /\ UNCHANGED children /\ ~failed.confirmed

LEMMA RetainWrites ==
  ASSUME NEW c \in children, Retain(c), IsCommand(cmd),
         NEW step, step = [LastStep(cmd.mem) EXCEPT !.returned = TRUE],
         NEW record, record = WithLast(cmd.mem, step),
         NEW done, done = [cmd EXCEPT !.mem = record]
  PROVE  \E failed : Retains(c, record, done, failed)
<1>1. PICK confirmed \in BOOLEAN :
        /\ Write(cmd.dep, record, done, [Failing(record) EXCEPT !.confirmed = confirmed])
        /\ CASE cmd'.pc = "call" -> Become(c, "done", "none")
             [] cmd'.pc # "call" /\ confirmed -> children' = children \ {c}
             [] cmd'.pc # "call" /\ ~confirmed -> UNCHANGED children
  BY DEF Retain
<1>2. PICK failed : failed = [Failing(record) EXCEPT !.confirmed = confirmed]
  OBVIOUS
<1>3. /\ DOMAIN failed = DOMAIN cmd
      /\ failed.mem = Held(record) /\ failed.pc = "fail" /\ failed.outcome = "uncertain"
      /\ failed.dep = cmd.dep /\ failed.op = cmd.op /\ failed.fence = cmd.fence
      /\ failed.confirmed = confirmed
  BY <1>2 DEF Failing, IsCommand
<1>4. \/ cmd'.pc = "call" /\ children' = (children \ {c}) \cup {[c EXCEPT !.phase = "done", !.outcome = "none"]}
      \/ cmd'.pc # "call" /\ children' = children \ {c}
      \/ cmd'.pc # "call" /\ UNCHANGED children /\ ~failed.confirmed
  BY <1>1, <1>3 DEF Become
<1>5. Retains(c, record, done, failed)
  BY <1>1, <1>2, <1>3, <1>4 DEF Retains
<1> QED  BY <1>5

(* The child of a call is the only one.                                     *)
LEMMA AttendedIsAlone ==
  ASSUME FenceInv, NEW c \in children, Attended(c)
  PROVE  /\ cmd # None /\ cmd.pc = "call" /\ IsCommand(cmd) /\ Continues(cmd.mem)
         /\ children = {c}
         /\ cmd.mem.termination = "unconfirmed" /\ disk[cmd.dep].termination = "unconfirmed"
         /\ {"dep", "step", "phase", "outcome"} = DOMAIN c
<1>1. cmd # None /\ cmd.pc = "call"
  BY DEF Attended, At
<1>2. children = {c}
  BY <1>1 DEF FenceInv, ChildIsAttended
<1> QED  BY <1>1, <1>2, CommandHasShape DEF FenceInv, FenceIsWritten, ChildShape

LEMMA RetainKeeps ==
  ASSUME FenceInv, NEW c \in children, Retain(c)
  PROVE  FenceInv'
<1> DEFINE step == [LastStep(cmd.mem) EXCEPT !.returned = TRUE]
           record == WithLast(cmd.mem, step)
           done == [cmd EXCEPT !.mem = record]
           answered == [c EXCEPT !.phase = "done", !.outcome = "none"]
<1>1. /\ cmd # None /\ cmd.pc = "call" /\ IsCommand(cmd) /\ Continues(cmd.mem) /\ children = {c}
      /\ cmd.mem.termination = "unconfirmed" /\ disk[cmd.dep].termination = "unconfirmed"
      /\ {"dep", "step", "phase", "outcome"} = DOMAIN c
  BY AttendedIsAlone DEF Retain
<1>2. Continues(record) /\ record.termination = "unconfirmed"
  BY <1>1, ContinuingIsRecord
<1>3. PICK failed : Retains(c, record, done, failed)
  BY <1>1, RetainWrites
<1>4. \/ children' = {answered} /\ cmd'.pc = "call"
      \/ children' = {}
      \/ children' = {c} /\ cmd'.pc # "call" /\ ~failed.confirmed
  BY <1>1, <1>3 DEF Retains
<1>5. {"dep", "step", "phase", "outcome"} = DOMAIN answered /\ answered.dep = c.dep /\ answered.step = c.step
  BY <1>1
<1> HIDE DEF record, answered
<1>6. IsRecord(record) /\ IsRecord(Held(record)) /\ Held(record).reuse = cmd.mem.reuse
  BY <1>1, <1>2, FailingIsCommand
<1>7. IsCommand(failed) /\ failed.dep = cmd.dep /\ failed.fence = cmd.fence /\ failed.pc = "fail"
      /\ Write(cmd.dep, record, done, failed)
  BY <1>1, <1>3, <1>6 DEF IsCommand, Retains
<1>8. /\ IsCommand(done) /\ done.dep = cmd.dep /\ done.fence = cmd.fence
      /\ done.pc = "call" /\ done.mem.termination = "unconfirmed"
  BY <1>1, <1>2, <1>6 DEF IsCommand, Continues
<1> HIDE DEF done
<1>9. \A d \in children' :
        /\ {"dep", "step", "phase", "outcome"} = DOMAIN d
        /\ \E e \in children : d.dep = e.dep /\ d.step = e.step
  BY <1>1, <1>4, <1>5
<1>10. \A d, e \in children' : d = e
  BY <1>4
<1>11. children' # {} =>
         (cmd' = done => MayHaveChild(done)) /\ (cmd' = failed => MayHaveChild(failed))
  BY <1>3, <1>4, <1>8 DEF MayHaveChild, Retains
<1> QED  BY <1>1, <1>2, <1>6, <1>7, <1>8, <1>9, <1>10, <1>11, OpenWriteKeeps

LEMMA ReplyKeeps ==
  ASSUME FenceInv, NEW c \in children, Reply(c)
  PROVE  FenceInv'
<1> DEFINE failed == [cmd EXCEPT !.pc = "fail", !.outcome = c.outcome]
<1>1. /\ cmd # None /\ cmd.pc = "call" /\ IsCommand(cmd) /\ Continues(cmd.mem) /\ children = {c}
  BY AttendedIsAlone DEF Reply
<1>2. children' = {}
  BY <1>1 DEF Reply
<1>3. Continues(Confirmed(cmd.mem))
  BY <1>1, ContinuingIsRecord
<1>4. CASE c.phase = "done"
  <2>1. Persist(Confirmed(cmd.mem), To("observe"))
    BY <1>4 DEF Reply
  <2> QED  BY <1>1, <1>2, <1>3, <2>1, PersistToKeeps
<1>5. CASE c.phase # "done"
  <2>1. Persist(Confirmed(cmd.mem), failed)
    BY <1>5 DEF Reply
  <2>2. IsCommand(failed) /\ failed.pc = "fail" /\ (failed.op = "abandon" => cmd.mem.reuse # None)
    BY <1>1 DEF IsCommand
  <2> HIDE DEF failed
  <2> QED  BY <1>1, <1>2, <1>3, <2>1, <2>2, QuietPersistKeeps
<1> QED  BY <1>4, <1>5

LEMMA CallBreaksKeeps ==
  ASSUME FenceInv, CallBreaks
  PROVE  FenceInv'
<1>1. PICK confirmed \in BOOLEAN :
        /\ cmd' = [cmd EXCEPT !.pc = "fail", !.outcome = "uncertain", !.confirmed = confirmed]
        /\ children' = IF confirmed THEN {c \in children : ~Attended(c)} ELSE children
  BY DEF CallBreaks
<1> DEFINE k == [cmd EXCEPT !.pc = "fail", !.outcome = "uncertain", !.confirmed = confirmed]
<1>2. cmd # None /\ cmd.pc \in {"call", "look", "probe", "keyed"} /\ UNCHANGED disk
  BY DEF CallBreaks, At
<1>3. IsCommand(cmd)
  BY <1>2, CommandHasShape
<1>4. /\ IsCommand(k) /\ k.pc = "fail" /\ k.outcome = "uncertain" /\ k.confirmed = confirmed
      /\ k.dep = cmd.dep /\ k.fence = cmd.fence
  BY <1>3 DEF IsCommand
<1>5. Existing' = Existing /\ DiskShape'
  BY <1>2 DEF FenceInv, DiskShape, IsRecord, Existing
<1>6. cmd' = k
  BY <1>1
<1> HIDE DEF k
<1>7. CASE children' = {}
  BY <1>4, <1>5, <1>6, <1>7, CommandKeeps
<1>8. CASE confirmed /\ cmd.pc = "call"
  <2>1. \A c \in children : Attended(c)
    BY <1>2, <1>8 DEF FenceInv, ChildIsAttended, Attended, At
  <2> QED  BY <1>1, <1>7, <1>8, <2>1
<1>9. CASE cmd.pc # "call"
  <2>1. children = {}
    BY <1>2, <1>9, CommandHasShape DEF MayHaveChild
  <2> QED  BY <1>1, <1>7, <2>1
<1>10. CASE ~confirmed
  <2>1. children' = children
    BY <1>1, <1>10
  <2>2. CommandShape' /\ FenceIsWritten'
    BY <1>4, <1>5, <1>6 DEF CommandShape, IsCommand, IsRecord, FenceIsWritten
  <2>3. ChildShape' /\ ConfirmedHasNoChild'
    BY <1>2, <1>5, <2>1 DEF FenceInv, ChildShape, ConfirmedHasNoChild
  <2>4. ChildIsAttended'
    BY <1>2, <1>4, <1>6, <1>10, <2>1 DEF FenceInv, ChildIsAttended, MayHaveChild
  <2> QED  BY <1>5, <2>2, <2>3, <2>4 DEF FenceInv
<1> QED  BY <1>8, <1>9, <1>10

LEMMA CloseKeeps ==
  ASSUME FenceInv, Close
  PROVE  FenceInv'
<1> DEFINE record == Closed(Attested(cmd.mem))
           done == [cmd EXCEPT !.mem = record, !.pc = IF TriesNextZone THEN "next" ELSE "end"]
           failed == [cmd EXCEPT !.mem = Held(record), !.pc = IF TriesNextZone THEN "fail" ELSE "end"]
<1>1. cmd # None /\ cmd.pc = "fail" /\ UNCHANGED children /\ Write(cmd.dep, record, done, failed)
  BY DEF Close, At
<1>2. IsCommand(cmd) /\ Continues(cmd.mem)
  BY <1>1, CommandHasShape
<1>3. Continues(record) /\ (~cmd.confirmed => record.termination = "unconfirmed")
  <2>1. Continues(Attested(cmd.mem)) /\ (~cmd.confirmed => Attested(cmd.mem).termination = "unconfirmed")
    BY <1>1, <1>2, ContinuingIsRecord DEF Attested
  <2> QED  BY <1>1, <2>1, ContinuingIsRecord DEF Closed
<1> HIDE DEF record
<1>4. IsRecord(record) /\ IsRecord(Held(record)) /\ Held(record).reuse = cmd.mem.reuse
  BY <1>2, <1>3, FailingIsCommand
<1>5. /\ IsCommand(done) /\ done.dep = cmd.dep /\ done.fence = cmd.fence /\ done.confirmed = cmd.confirmed
      /\ done.pc = IF TriesNextZone THEN "next" ELSE "end"
  BY <1>2, <1>3, <1>4 DEF IsCommand, Continues
<1>6. /\ IsCommand(failed) /\ failed.dep = cmd.dep /\ failed.fence = cmd.fence /\ failed.confirmed = cmd.confirmed
      /\ failed.pc = IF TriesNextZone THEN "fail" ELSE "end"
  BY <1>2, <1>3, <1>4 DEF IsCommand, Continues
<1> HIDE DEF done, failed
<1>7. CASE children = {}
  BY <1>1, <1>4, <1>5, <1>6, <1>7, QuietWriteKeeps
<1>8. CASE children # {}
  <2>1. ~cmd.confirmed /\ cmd.outcome = "uncertain"
    BY <1>1, <1>8 DEF FenceInv, ChildIsAttended, MayHaveChild
  <2>2. ~TriesNextZone
    BY <2>1 DEF TriesNextZone
  <2>3. MayHaveChild(done) /\ MayHaveChild(failed)
    BY <1>5, <1>6, <2>1, <2>2 DEF MayHaveChild
  <2>4. disk[cmd.dep].termination = "unconfirmed"
    BY <1>1, <1>8 DEF FenceInv, ChildIsAttended, ConfirmedHasNoChild
  <2>5. \A c \in children : {"dep", "step", "phase", "outcome"} = DOMAIN c
    BY DEF FenceInv, ChildShape
  <2>6. \A c, e \in children : c = e
    BY <1>1 DEF FenceInv, ChildIsAttended
  <2> QED  BY <1>1, <1>3, <1>4, <1>5, <1>6, <2>1, <2>2, <2>3, <2>4, <2>5, <2>6, OpenWriteKeeps
<1> QED  BY <1>7, <1>8

-----------------------------------------------------------------------------
(* The steps together.                                                      *)

(* A command that ends leaves its child to the record.                      *)
LEMMA CommandGoneKeeps ==
  ASSUME FenceInv, UNCHANGED <<disk, children>>, cmd' \in {cmd, None}
  PROVE  FenceInv'
<1>1. Existing' = Existing
  BY DEF Existing
<1>2. DiskShape' /\ ChildShape' /\ ConfirmedHasNoChild'
  BY <1>1 DEF FenceInv, DiskShape, IsRecord, ChildShape, ConfirmedHasNoChild
<1>3. CommandShape' /\ FenceIsWritten'
  BY <1>1 DEF FenceInv, CommandShape, IsCommand, IsRecord, FenceIsWritten
<1>4. ChildIsAttended'
  BY DEF FenceInv, ChildIsAttended, MayHaveChild
<1> QED  BY <1>2, <1>3, <1>4 DEF FenceInv

LEMMA CoordinatesKeep ==
  ASSUME FenceInv, Coordinates
  PROVE  FenceInv'
<1>1. CASE End
  BY <1>1, CommandGoneKeeps DEF End
<1>2. CASE Fence \/ Spawn \/ Cancel \/ Finish \/ CallBreaks \/ Close
  BY <1>2, FenceKeeps, SpawnKeeps, CancelKeeps, FinishKeeps, CallBreaksKeeps, CloseKeeps
<1>3. CASE Approve \/ ReservePrevious \/ FenceKey \/ KeyGenerated
  BY <1>3, ApproveKeeps, ReservePreviousKeeps, FenceKeyKeeps, KeyGeneratedKeeps
<1>4. CASE \E c \in children : Retain(c) \/ Reply(c)
  BY <1>4, RetainKeeps, ReplyKeeps
<1>5. CASE FenceObserve \/ Look \/ Reconcile \/ Decide
  BY <1>5, FenceObserveKeeps, LookKeeps, ReconcileKeeps, DecideKeeps
<1>6. CASE FenceHealth \/ Probe \/ RecordHealth \/ RecordAbandonment \/ Settle
  BY <1>6, FenceHealthKeeps, ProbeKeeps, RecordHealthKeeps, RecordAbandonmentKeeps, SettleKeeps
<1> QED  BY <1>1, <1>2, <1>3, <1>4, <1>5, <1>6 DEF Coordinates

LEMMA FenceInvInductive ==
  ASSUME FenceInv, [Next]_vars
  PROVE  FenceInv'
<1>1. CASE Starts
  BY <1>1, StartsKeep
<1>2. CASE Coordinates
  BY <1>2, CoordinatesKeep
<1>3. CASE Calls
  BY <1>3, CallsKeep
<1>4. CASE Crash
  BY <1>4, CommandGoneKeeps DEF Crash
<1>5. CASE ClearLock
  BY <1>5, CommandGoneKeeps DEF ClearLock
<1>6. CASE Drift
  BY <1>6, CommandGoneKeeps DEF Drift
<1>7. CASE UNCHANGED vars
  BY <1>7, CommandGoneKeeps DEF vars
<1> QED  BY <1>1, <1>2, <1>3, <1>4, <1>5, <1>6, <1>7 DEF Next

(* The inductive invariant holds: a fence precedes its child, which is the    *)
(* only one and the command's (deployer.ts, Deployer.runStep).                          *)
THEOREM FenceInvariant == Spec => []FenceInv
<1>1. Init => FenceInv
  <2>1. SUFFICES ASSUME Init PROVE FenceInv
    OBVIOUS
  <2>2. disk \in Seq({}) /\ Len(disk) = 0
    BY <2>1, EmptySeq, Zenon DEF Init
  <2>3. Existing = {}
    BY <2>2 DEF Existing
  <2>4. children = {} /\ cmd = None
    BY <2>1, Zenon DEF Init
  <2> QED  BY <2>3, <2>4 DEF FenceInv, DiskShape, CommandShape, ChildShape, ChildIsAttended, FenceIsWritten,
                             ConfirmedHasNoChild
<1>2. FenceInv /\ [Next]_vars => FenceInv'
  BY FenceInvInductive
<1> QED  BY <1>1, <1>2, PTL DEF Spec

(* A record that says that its child has terminated has none that could still   *)
(* call the provider (deployer.ts, Deployer.fail; operation.ts).              *)
THEOREM ConfirmedRecordHasNoChild == Spec => []ConfirmedHasNoChild
<1>1. FenceInv => ConfirmedHasNoChild
  BY DEF FenceInv
<1> QED  BY <1>1, FenceInvariant, PTL

-----------------------------------------------------------------------------
(* One instance per deployment.  A launch is repeated only after one that    *)
(* the provider declined, so what has to be shown is that a declined step     *)
(* has no effect, not even one on its way.                                   *)

(* An outcome that says that nothing was done.                              *)
Refusal(outcome) == outcome \notin {"none", "uncertain"}
USE DEF Refusal

Traces == objects \cup flight
MayCall(c) == c.phase \in {"spawned", "authorised"}
(* Nothing came of a step, and nothing will.                                *)
Traceless(d, i) ==
  /\ \A o \in Traces : Id(o) # <<d, i>>
  /\ \A c \in children : MayCall(c) => <<c.dep, c.step>> # <<d, i>>

IsSeq(s) == s \in Seq({s[i] : i \in DOMAIN s})
IsStep(step) == DOMAIN step = {"action", "removal", "returned", "verified", "outcome"}
(* A record of a deployment, with its steps.                                *)
Shaped(r, d) ==
  /\ {"id", "steps"} \subseteq DOMAIN r
  /\ r.id = d
  /\ IsSeq(r.steps)
  /\ \A i \in DOMAIN r.steps : IsStep(r.steps[i])
Truthful(r, d) == \A i \in DOMAIN r.steps : Refusal(r.steps[i].outcome) => Traceless(d, i)
LastLaunchCounts(r) ==
  \A i \in Launches(r) : (\E j \in Launches(r) : j > i) => Declined(r.steps[i])

RecordsFit ==
  \A d \in Existing : Shaped(disk[d], d) /\ Truthful(disk[d], d) /\ LastLaunchCounts(disk[d])
(* What a command knows of its record and of the step it fenced.             *)
Knows(k) ==
  /\ Shaped(k.mem, k.dep) /\ Truthful(k.mem, k.dep)
  /\ k.pc \notin {"fail", "end"} => disk[k.dep].steps = k.mem.steps
  /\ k.pc \in {"fenced", "call"} =>
       k.mem.steps # <<>> /\ k.fence = Len(k.mem.steps) /\ LastStep(k.mem).outcome = "none"
  /\ k.pc = "fenced" => \A o \in Traces : Id(o) # <<k.dep, k.fence>>
  /\ k.pc = "fail" /\ Refusal(k.outcome) => Traceless(k.dep, k.fence)
ChildrenFit ==
  /\ \A c, e \in children : c = e
  /\ \A c \in children :
       /\ c.step \in DOMAIN disk[c.dep].steps
       /\ MayCall(c) => \A o \in Traces : Id(o) # <<c.dep, c.step>>
       /\ c.phase = "failed" /\ Refusal(c.outcome) => Traceless(c.dep, c.step)
TracesFit ==
  /\ flight \cap objects = {}
  /\ \A x, y \in Traces : Id(x) = Id(y) => x = y
  /\ \A o \in Traces :
       /\ o.dep \in Existing
       /\ o.step \in DOMAIN disk[o.dep].steps
       /\ o.action = disk[o.dep].steps[o.step].action
Numbered == IsFiniteSet(Existing) /\ Existing = 1..Cardinality(Existing)
LaunchInv ==
  /\ Numbered
  /\ RecordsFit
  /\ cmd # None => Knows(cmd)
  /\ ChildrenFit
  /\ TracesFit

-----------------------------------------------------------------------------
(* Sequences of steps.                                                      *)

LEMMA SeqFacts ==
  ASSUME NEW s, IsSeq(s)
  PROVE  /\ Len(s) \in Nat /\ DOMAIN s = 1..Len(s)
         /\ s # <<>> => Len(s) \in DOMAIN s
<1> DEFINE S == {s[i] : i \in DOMAIN s}
<1>1. s \in Seq(S)
  BY DEF IsSeq
<1>2. Len(s) \in Nat /\ DOMAIN s = 1..Len(s)
  BY <1>1, LenProperties
<1>3. Len(s) = 0 => s = <<>>
  BY <1>1, EmptySeq, SeqEqual
<1> QED  BY <1>2, <1>3

LEMMA SeqOfIsSeq ==
  ASSUME NEW S, NEW s \in Seq(S)
  PROVE  IsSeq(s)
<1>1. Len(s) \in Nat /\ s \in [1..Len(s) -> S] /\ DOMAIN s = 1..Len(s)
  BY LenProperties
<1>2. s \in [1..Len(s) -> {s[i] : i \in DOMAIN s}]
  BY <1>1
<1> QED  BY <1>1, <1>2, SeqDef DEF IsSeq

LEMMA SeqSet ==
  ASSUME NEW s, IsSeq(s), NEW i \in DOMAIN s, NEW e
  PROVE  /\ IsSeq([s EXCEPT ![i] = e])
         /\ Len([s EXCEPT ![i] = e]) = Len(s)
<1> DEFINE S == {s[j] : j \in DOMAIN s} \cup {e}
<1>1. s \in Seq(S)
  BY SeqMonotonic DEF IsSeq
<1>2. i \in 1..Len(s)
  BY SeqFacts
<1> HIDE DEF S
<1>3. e \in S
  BY DEF S
<1> QED  BY <1>1, <1>2, <1>3, ExceptSeq, SeqOfIsSeq

LEMMA SeqAdd ==
  ASSUME NEW s, IsSeq(s), NEW e
  PROVE  /\ IsSeq(Append(s, e))
         /\ Len(Append(s, e)) = Len(s) + 1
         /\ DOMAIN Append(s, e) = 1..(Len(s) + 1)
         /\ \A i \in DOMAIN s : Append(s, e)[i] = s[i]
         /\ Append(s, e)[Len(s) + 1] = e
         /\ Append(s, e) # <<>>
<1> DEFINE S == {s[j] : j \in DOMAIN s} \cup {e}
<1>1. s \in Seq(S)
  BY SeqMonotonic DEF IsSeq
<1>2. DOMAIN s = 1..Len(s)
  BY SeqFacts
<1> HIDE DEF S
<1>3. e \in S
  BY DEF S
<1>4. /\ Append(s, e) \in Seq(S) /\ Append(s, e) # <<>> /\ Len(Append(s, e)) = Len(s) + 1
      /\ \A i \in 1..Len(s) : Append(s, e)[i] = s[i]
      /\ Append(s, e)[Len(s) + 1] = e
  BY <1>1, <1>3, AppendProperties
<1>5. IsSeq(Append(s, e))
  BY <1>4, SeqOfIsSeq
<1>6. DOMAIN Append(s, e) = 1..(Len(s) + 1)
  BY <1>4, <1>5, SeqFacts
<1> QED  BY <1>2, <1>4, <1>5, <1>6

LEMMA FrontKeeps ==
  ASSUME NEW s, IsSeq(s), NEW n \in Nat, Len(s) = n + 1
  PROVE  \A i \in 1..n : Front(s)[i] = s[i]
<1> DEFINE S == {s[j] : j \in DOMAIN s}
<1>1. s \in Seq(S)
  BY DEF IsSeq
<1> HIDE DEF S
<1>2. 1 \in 1..(Len(s) + 1) /\ n \in 0..Len(s) /\ Len(s) - 1 = n
  OBVIOUS
<1>3. \A i \in 1..n : SubSeq(s, 1, n)[i] = s[i]
  BY <1>1, <1>2
<1> QED  BY <1>2, <1>3 DEF Front

(* The steps of a record whose last step is replaced.                       *)
LEMMA LastReplaced ==
  ASSUME NEW d, NEW r, Shaped(r, d), r.steps # <<>>, NEW step, IsStep(step)
  PROVE  /\ Shaped(WithLast(r, step), d)
         /\ Len(WithLast(r, step).steps) = Len(r.steps)
         /\ DOMAIN WithLast(r, step).steps = DOMAIN r.steps
         /\ WithLast(r, step).steps # <<>>
         /\ \A i \in DOMAIN r.steps :
              WithLast(r, step).steps[i] = IF i = Len(r.steps) THEN step ELSE r.steps[i]
<1> DEFINE s == [r.steps EXCEPT ![Len(r.steps)] = step]
<1>1. IsSeq(r.steps) /\ Len(r.steps) \in DOMAIN r.steps
  BY SeqFacts DEF Shaped
<1>2. WithLast(r, step).steps = s /\ WithLast(r, step).id = d
      /\ DOMAIN WithLast(r, step) = DOMAIN r
  BY DEF WithLast, Shaped
<1>3. IsSeq(s) /\ Len(s) = Len(r.steps) /\ DOMAIN s = DOMAIN r.steps
  BY <1>1, SeqSet
<1>4. \A i \in DOMAIN r.steps : s[i] = IF i = Len(r.steps) THEN step ELSE r.steps[i]
  BY <1>1
<1>5. s # <<>>
  BY <1>1, <1>3, EmptySeq
<1> HIDE DEF s
<1> QED  BY <1>1, <1>2, <1>3, <1>4, <1>5 DEF Shaped

(* A record with the steps of another.                                      *)
LEMMA SameStepsFit ==
  ASSUME NEW d, NEW r, NEW q, {"id", "steps"} \subseteq DOMAIN q, q.id = r.id, q.steps = r.steps
  PROVE  /\ Shaped(r, d) => Shaped(q, d)
         /\ Truthful(r, d) => Truthful(q, d)
         /\ LastLaunchCounts(r) => LastLaunchCounts(q)
BY DEF Shaped, Truthful, LastLaunchCounts, Launches

-----------------------------------------------------------------------------
(* What a write may do to the steps on disk.                                *)

LEMMA AcceptedGrows ==
  ASSUME NEW d, NEW record, Shaped(disk[d], d), Shaped(record, d), Accepted(d, record)
  PROVE  /\ LastLaunchCounts(record)
         /\ DOMAIN disk[d].steps \subseteq DOMAIN record.steps
         /\ \A i \in DOMAIN disk[d].steps : record.steps[i].action = disk[d].steps[i].action
<1> DEFINE before == disk[d].steps
           after == record.steps
<1>1. LastLaunchCounts(record)
  BY DEF Accepted, IsConsistent, LaunchesOrdered, LastLaunchCounts
<1>2. IsSeq(before) /\ IsSeq(after)
  BY DEF Shaped
<1>3. /\ Len(before) \in Nat /\ DOMAIN before = 1..Len(before)
      /\ Len(after) \in Nat /\ DOMAIN after = 1..Len(after)
  BY <1>2, SeqFacts
<1>4. RequireSteps(disk[d], record)
  BY DEF Accepted, RequireTransition
<1>5. CASE /\ Len(after) = Len(before)
           /\ \A i \in DOMAIN before :
                IF i < Len(before) THEN before[i] = after[i] ELSE RequireProgress(before[i], after[i])
  <2>1. \A i \in DOMAIN before : before[i].action = after[i].action
    BY <1>5 DEF RequireProgress
  <2> QED  BY <1>1, <1>3, <1>5, <2>1
<1>6. CASE Len(after) = Len(before) + 1 /\ Front(after) = before
  <2>1. \A i \in 1..Len(before) : Front(after)[i] = after[i]
    BY <1>2, <1>3, <1>6, FrontKeeps
  <2>2. \A i \in DOMAIN before : before[i] = after[i]
    BY <1>3, <1>6, <2>1
  <2> QED  BY <1>1, <1>3, <1>6, <2>2
<1> QED  BY <1>4, <1>5, <1>6 DEF RequireSteps

(* Steps are never dropped and keep their action.                           *)
DiskGrows ==
  /\ Existing \subseteq Existing'
  /\ \A d \in Existing :
       /\ DOMAIN disk[d].steps \subseteq DOMAIN disk'[d].steps
       /\ \A i \in DOMAIN disk[d].steps : disk'[d].steps[i].action = disk[d].steps[i].action
(* Children only go or move on.                                             *)
ChildrenWane ==
  /\ \A c, e \in children' : c = e
  /\ \A c \in children' : \E e \in children :
       /\ c.dep = e.dep /\ c.step = e.step
       /\ MayCall(c) => MayCall(e)
       /\ c.phase = "failed" /\ Refusal(c.outcome) => \A o \in Traces : Id(o) # <<c.dep, c.step>>

LEMMA WaningKeeps ==
  ASSUME LaunchInv, FenceInv, DiskGrows, ChildrenWane, UNCHANGED <<objects, flight>>
  PROVE  /\ ChildrenFit' /\ TracesFit'
         /\ \A d, i : Traceless(d, i) => Traceless(d, i)'
<1>1. Traces' = Traces
  BY DEF Traces
<1>2. TracesFit'
  BY <1>1 DEF TracesFit, DiskGrows, LaunchInv, Id
<1>3. ASSUME NEW d, NEW i, Traceless(d, i)
      PROVE  Traceless(d, i)'
  BY <1>1, <1>3 DEF Traceless, ChildrenWane, Id, MayCall
<1>4. ASSUME NEW c \in children'
      PROVE  /\ c.step \in DOMAIN disk'[c.dep].steps
             /\ MayCall(c) => \A o \in Traces' : Id(o) # <<c.dep, c.step>>
             /\ c.phase = "failed" /\ Refusal(c.outcome) => Traceless(c.dep, c.step)'
  <2>1. PICK e \in children :
          /\ c.dep = e.dep /\ c.step = e.step
          /\ MayCall(c) => MayCall(e)
          /\ c.phase = "failed" /\ Refusal(c.outcome) => \A o \in Traces : Id(o) # <<c.dep, c.step>>
    BY DEF ChildrenWane
  <2>2. e.dep \in Existing
    BY DEF FenceInv, ChildShape
  <2>3. c.step \in DOMAIN disk'[c.dep].steps
    BY <2>1, <2>2 DEF LaunchInv, ChildrenFit, DiskGrows
  <2>4. c.phase = "failed" => \A x \in children' : ~MayCall(x)
    BY DEF ChildrenWane, MayCall
  <2>5. c.phase = "failed" /\ Refusal(c.outcome) => Traceless(c.dep, c.step)'
    BY <1>1, <2>1, <2>4 DEF Traceless, MayCall, Id
  <2> QED  BY <1>1, <2>1, <2>3, <2>5 DEF LaunchInv, ChildrenFit
<1>5. ChildrenFit'
  BY <1>4 DEF ChildrenFit, ChildrenWane, MayCall, Id
<1> QED  BY <1>2, <1>3, <1>5

(* A write of a record that says the truth.                                 *)
LEMMA WriteKeepsLaunches ==
  ASSUME LaunchInv, FenceInv, ChildrenWane, UNCHANGED <<objects, flight>>,
         NEW d \in Existing, NEW record, NEW done, NEW failed, Write(d, record, done, failed),
         Shaped(record, d), Truthful(record, d)
  PROVE  /\ RecordsFit' /\ ChildrenFit' /\ TracesFit' /\ Numbered'
         /\ \A e, i : Traceless(e, i) => Traceless(e, i)'
         /\ Existing' = Existing
         /\ \A e \in Existing : disk'[e] = disk[e] \/ (e = d /\ disk'[e] = record)
         /\ cmd' = failed \/ (cmd' = done /\ disk'[d] = record)
<1>1. /\ Existing' = Existing
      /\ \A e \in Existing : disk'[e] = disk[e] \/ (e = d /\ disk'[e] = record /\ Accepted(d, record))
      /\ cmd' = failed \/ (cmd' = done /\ disk'[d] = record)
  BY DEF Write, Existing
<1>2. \A e \in Existing : Shaped(disk[e], e) /\ Truthful(disk[e], e) /\ LastLaunchCounts(disk[e])
  BY DEF LaunchInv, RecordsFit
<1>3. Accepted(d, record) =>
        /\ LastLaunchCounts(record)
        /\ DOMAIN disk[d].steps \subseteq DOMAIN record.steps
        /\ \A i \in DOMAIN disk[d].steps : record.steps[i].action = disk[d].steps[i].action
  BY <1>2, AcceptedGrows
<1>4. DiskGrows
  BY <1>1, <1>3 DEF DiskGrows
<1>5. ChildrenFit' /\ TracesFit' /\ \A e, i : Traceless(e, i) => Traceless(e, i)'
  BY <1>4, WaningKeeps
<1>6. ASSUME NEW e \in Existing
      PROVE  Shaped(disk'[e], e) /\ Truthful(disk[e], e)' /\ LastLaunchCounts(disk'[e])
  BY <1>1, <1>2, <1>3, <1>5 DEF Truthful
<1>7. RecordsFit'
  BY <1>1, <1>6 DEF RecordsFit, Shaped, LastLaunchCounts, Truthful, Launches, Declined
<1>8. Numbered'
  BY <1>1 DEF Numbered, LaunchInv
<1> QED  BY <1>1, <1>5, <1>7, <1>8

-----------------------------------------------------------------------------
(* Commands between two provider calls.                                     *)

LEMMA CommandKnows ==
  ASSUME LaunchInv, FenceInv, cmd # None
  PROVE  /\ IsCommand(cmd) /\ Knows(cmd) /\ cmd.dep \in Existing
         /\ Shaped(cmd.mem, cmd.dep) /\ Truthful(cmd.mem, cmd.dep)
         /\ IsSeq(cmd.mem.steps)
BY DEF LaunchInv, FenceInv, CommandShape, IsCommand, Knows, Shaped

LEMMA CommandLeftKnows ==
  ASSUME RecordsFit', ChildrenFit', TracesFit', Numbered', \A d, i : Traceless(d, i) => Traceless(d, i)',
         NEW k, cmd' = k, Shaped(k.mem, k.dep), Truthful(k.mem, k.dep),
         k.pc \notin {"fenced", "call"},
         k.pc \notin {"fail", "end"} => disk'[k.dep].steps = k.mem.steps,
         k.pc = "fail" /\ Refusal(k.outcome) => Traceless(k.dep, k.fence)
  PROVE  LaunchInv'
<1>1. Truthful(k.mem, k.dep)'
  BY DEF Truthful
<1>2. Knows(cmd)'
  BY <1>1 DEF Knows, Truthful, Shaped, IsStep
<1> QED  BY <1>2 DEF LaunchInv

LEMMA PersistKeepsLaunches ==
  ASSUME LaunchInv, FenceInv, cmd # None, ChildrenWane, UNCHANGED <<objects, flight>>,
         NEW record, Shaped(record, cmd.dep), Truthful(record, cmd.dep),
         NEW next, DOMAIN next = DOMAIN cmd, next.dep = cmd.dep, next.pc \notin {"fenced", "call"},
         next.pc = "fail" /\ Refusal(next.outcome) => Traceless(next.dep, next.fence),
         Persist(record, next)
  PROVE  LaunchInv'
<1> DEFINE done == [next EXCEPT !.mem = record]
           failed == Failing(record)
<1>1. IsCommand(cmd) /\ cmd.dep \in Existing /\ Shaped(cmd.mem, cmd.dep) /\ Truthful(cmd.mem, cmd.dep)
  BY CommandKnows
<1>2. Write(cmd.dep, record, done, failed)
  BY DEF Persist
<1>3. /\ done.dep = cmd.dep /\ done.mem = record /\ done.pc = next.pc /\ done.fence = next.fence
      /\ done.outcome = next.outcome
  BY <1>1 DEF IsCommand
<1>4. /\ failed.dep = cmd.dep /\ failed.pc = "fail" /\ failed.outcome = "uncertain"
      /\ failed.mem = record \/ failed.mem = cmd.mem
  BY <1>1 DEF IsCommand, Failing, Held
<1> HIDE DEF done, failed
<1>5. /\ RecordsFit' /\ ChildrenFit' /\ TracesFit' /\ Numbered'
      /\ \A e, i : Traceless(e, i) => Traceless(e, i)'
      /\ cmd' = failed \/ (cmd' = done /\ disk'[cmd.dep] = record)
  BY <1>1, <1>2, WriteKeepsLaunches
<1>6. CASE cmd' = failed
  BY <1>1, <1>4, <1>5, <1>6, CommandLeftKnows
<1>7. CASE cmd' = done /\ disk'[cmd.dep] = record
  BY <1>3, <1>5, <1>7, CommandLeftKnows
<1> QED  BY <1>5, <1>6, <1>7

LEMMA QuietChildrenWane ==
  ASSUME LaunchInv, children' \subseteq children
  PROVE  ChildrenWane
BY DEF LaunchInv, ChildrenFit, ChildrenWane, Traceless

(* A record of the command with other fields than its steps, and another pc.  *)
LEMMA PersistToKeepsLaunches ==
  ASSUME LaunchInv, FenceInv, cmd # None, UNCHANGED <<children, objects, flight>>,
         NEW record, {"id", "steps"} \subseteq DOMAIN record,
         record.id = cmd.mem.id, record.steps = cmd.mem.steps,
         NEW pc, pc \notin {"fenced", "call", "fail"},
         Persist(record, To(pc))
  PROVE  LaunchInv'
<1>1. IsCommand(cmd) /\ Shaped(cmd.mem, cmd.dep) /\ Truthful(cmd.mem, cmd.dep)
  BY CommandKnows
<1>2. Shaped(record, cmd.dep) /\ Truthful(record, cmd.dep)
  BY <1>1, SameStepsFit
<1>3. DOMAIN To(pc) = DOMAIN cmd /\ To(pc).dep = cmd.dep /\ To(pc).pc = pc
  BY <1>1 DEF IsCommand, To
<1> QED  BY <1>2, <1>3, QuietChildrenWane, PersistKeepsLaunches

LEMMA StepsOfFields ==
  ASSUME NEW r, {"id", "steps"} \subseteq DOMAIN r
  PROVE  /\ {"id", "steps"} \subseteq DOMAIN Fenced(r) /\ Fenced(r).id = r.id /\ Fenced(r).steps = r.steps
         /\ {"id", "steps"} \subseteq DOMAIN Confirmed(r) /\ Confirmed(r).id = r.id /\ Confirmed(r).steps = r.steps
BY DEF Fenced, Confirmed

LEMMA PersistingLaunches ==
  ASSUME LaunchInv, FenceInv,
         FenceKey \/ KeyGenerated \/ FenceObserve \/ FenceHealth \/ RecordHealth \/ Probe
  PROVE  LaunchInv'
<1>1. cmd # None /\ UNCHANGED <<children, objects, flight>>
  BY DEF FenceKey, KeyGenerated, FenceObserve, FenceHealth, RecordHealth, Probe, At
<1>2. {"id", "steps"} \subseteq DOMAIN cmd.mem
  BY <1>1, CommandKnows DEF Shaped
<1>3. CASE FenceKey \/ FenceObserve \/ FenceHealth
  <2>1. \E pc \in {"keyed", "look", "probe"} : Persist(Fenced(cmd.mem), To(pc))
    BY <1>3 DEF FenceKey, FenceObserve, FenceHealth
  <2> QED  BY <1>1, <1>2, <2>1, StepsOfFields, PersistToKeepsLaunches
<1>4. CASE KeyGenerated
  <2>1. Persist([Confirmed(cmd.mem) EXCEPT !.key = TRUE], To("next"))
    BY <1>4 DEF KeyGenerated
  <2>2. PICK r : r = [Confirmed(cmd.mem) EXCEPT !.key = TRUE]
    OBVIOUS
  <2>3. {"id", "steps"} \subseteq DOMAIN r /\ r.id = cmd.mem.id /\ r.steps = cmd.mem.steps
    BY <1>2, <2>2, StepsOfFields
  <2> QED  BY <1>1, <2>1, <2>2, <2>3, PersistToKeepsLaunches
<1>5. CASE RecordHealth
  <2>1. Persist([cmd.mem EXCEPT !.health = TRUE], To("end"))
    BY <1>5 DEF RecordHealth
  <2>2. PICK r : r = [cmd.mem EXCEPT !.health = TRUE]
    OBVIOUS
  <2>3. {"id", "steps"} \subseteq DOMAIN r /\ r.id = cmd.mem.id /\ r.steps = cmd.mem.steps
    BY <1>2, <2>2
  <2> QED  BY <1>1, <2>1, <2>2, <2>3, PersistToKeepsLaunches
<1>6. CASE Probe
  <2>1. \E pc \in {"end", "healthy"} : Persist(Confirmed(cmd.mem), To(pc))
    BY <1>6 DEF Probe
  <2> QED  BY <1>1, <1>2, <2>1, StepsOfFields, PersistToKeepsLaunches
<1> QED  BY <1>3, <1>4, <1>5, <1>6

LEMMA LookLaunches ==
  ASSUME LaunchInv, FenceInv, Look
  PROVE  LaunchInv'
<1> DEFINE next == [cmd EXCEPT !.pc = "reconcile", !.observation = Observe(cmd.mem)]
<1>1. cmd # None /\ UNCHANGED <<children, objects, flight>> /\ Persist(Confirmed(cmd.mem), next)
  BY DEF Look, At
<1>2. IsCommand(cmd) /\ Shaped(cmd.mem, cmd.dep) /\ Truthful(cmd.mem, cmd.dep)
  BY <1>1, CommandKnows
<1>3. Shaped(Confirmed(cmd.mem), cmd.dep) /\ Truthful(Confirmed(cmd.mem), cmd.dep)
  BY <1>2, StepsOfFields, SameStepsFit DEF Shaped
<1>4. DOMAIN next = DOMAIN cmd /\ next.dep = cmd.dep /\ next.pc = "reconcile"
  BY <1>2 DEF IsCommand
<1> HIDE DEF next
<1> QED  BY <1>1, <1>3, <1>4, QuietChildrenWane, PersistKeepsLaunches

LEMMA ReconcileLaunches ==
  ASSUME LaunchInv, FenceInv, Reconcile
  PROVE  LaunchInv'
<1> DEFINE record == Reconciled(cmd.mem, cmd.observation)
           agrees == Matches(cmd.mem, cmd.observation)
           latest == [cmd.mem EXCEPT !.latest = cmd.observation,
                                     !.implicit = @ \/ (agrees /\ "implicit" \in DOMAIN cmd.observation)]
           verified == [LastStep(cmd.mem) EXCEPT !.verified = TRUE]
           next == IF ~Verifying THEN To("observed")
                   ELSE IF ~Matches(cmd.mem, cmd.observation)
                   THEN [cmd EXCEPT !.pc = "fail", !.outcome = "uncertain"]
                   ELSE IF LastStep(cmd.mem).action = "attach-volume" /\ cmd.mem.reuse # None
                   THEN To("settle") ELSE To("next")
<1>1. cmd # None /\ UNCHANGED <<children, objects, flight>> /\ Persist(record, next)
  BY DEF Reconcile, At
<1>2. IsCommand(cmd) /\ Shaped(cmd.mem, cmd.dep) /\ Truthful(cmd.mem, cmd.dep) /\ IsSeq(cmd.mem.steps)
  BY <1>1, CommandKnows
<1>3. {"id", "steps"} \subseteq DOMAIN latest /\ latest.id = cmd.mem.id /\ latest.steps = cmd.mem.steps
  BY <1>2 DEF Shaped
<1>4. record = latest \/ (record = WithLast(latest, verified) /\ cmd.mem.steps # <<>>)
  BY DEF Reconciled
<1>5. DOMAIN next = DOMAIN cmd /\ next.dep = cmd.dep /\ next.pc \notin {"fenced", "call"}
      /\ (next.pc = "fail" => next.outcome = "uncertain")
  BY <1>2 DEF IsCommand, To
<1> HIDE DEF next, latest, record
<1>6. Shaped(latest, cmd.dep) /\ Truthful(latest, cmd.dep)
  BY <1>2, <1>3, SameStepsFit
<1>7. CASE record = latest
  BY <1>1, <1>5, <1>6, <1>7, QuietChildrenWane, PersistKeepsLaunches
<1>8. CASE record = WithLast(latest, verified) /\ cmd.mem.steps # <<>>
  <2>1. Len(latest.steps) \in DOMAIN latest.steps /\ LastStep(cmd.mem) = latest.steps[Len(latest.steps)]
    BY <1>2, <1>3, <1>8, SeqFacts DEF LastStep
  <2>2. IsStep(verified) /\ verified.outcome = latest.steps[Len(latest.steps)].outcome
    BY <1>6, <2>1 DEF Shaped, IsStep
  <2> HIDE DEF verified
  <2>3. /\ Shaped(record, cmd.dep) /\ DOMAIN record.steps = DOMAIN latest.steps
        /\ \A i \in DOMAIN latest.steps :
             record.steps[i] = IF i = Len(latest.steps) THEN verified ELSE latest.steps[i]
    BY <1>3, <1>6, <1>8, <2>2, LastReplaced
  <2>4. Truthful(record, cmd.dep)
    BY <1>6, <2>2, <2>3 DEF Truthful
  <2> QED  BY <1>1, <1>5, <2>3, <2>4, QuietChildrenWane, PersistKeepsLaunches
<1> QED  BY <1>4, <1>7, <1>8

-----------------------------------------------------------------------------
(* Writes to the record of the predecessor, which keep its steps.           *)

LEMMA PredecessorFits ==
  ASSUME LaunchInv, FenceInv, NEW e \in Existing, NEW to
  PROVE  /\ Shaped(disk[e], e) /\ Truthful(disk[e], e)
         /\ Shaped(Reserve(disk[e], to), e) /\ Truthful(Reserve(disk[e], to), e)
         /\ Reserve(disk[e], to).steps = disk[e].steps
         /\ Shaped(Complete(disk[e]), e) /\ Truthful(Complete(disk[e]), e)
         /\ Complete(disk[e]).steps = disk[e].steps
<1>1. Shaped(disk[e], e) /\ Truthful(disk[e], e)
  BY DEF LaunchInv, RecordsFit
<1>2. /\ {"id", "steps"} \subseteq DOMAIN Reserve(disk[e], to)
      /\ Reserve(disk[e], to).id = disk[e].id /\ Reserve(disk[e], to).steps = disk[e].steps
  BY <1>1 DEF Shaped, Reserve
<1>3. /\ {"id", "steps"} \subseteq DOMAIN Complete(disk[e])
      /\ Complete(disk[e]).id = disk[e].id /\ Complete(disk[e]).steps = disk[e].steps
  BY <1>1 DEF Shaped, Complete
<1> QED  BY <1>1, <1>2, <1>3, SameStepsFit

LEMMA PredecessorWriteLaunches ==
  ASSUME LaunchInv, FenceInv, cmd # None, cmd.mem.reuse # None, UNCHANGED <<children, objects, flight>>,
         NEW record, record \in {Reserve(disk[cmd.mem.previous], cmd.dep), Complete(disk[cmd.mem.previous])},
         NEW done, done.mem = cmd.mem, done.dep = cmd.dep, done.pc \notin {"fenced", "call", "fail"},
         done.pc # "end" => cmd.pc \notin {"fail", "end"},
         NEW failed, failed.mem = cmd.mem, failed.dep = cmd.dep, failed.pc \in {"fail", "end"},
         failed.pc = "fail" => ~Refusal(failed.outcome),
         Write(disk[cmd.mem.previous].id, record, done, failed)
  PROVE  LaunchInv'
<1>1. PICK e : e = cmd.mem.previous
  OBVIOUS
<1>2. IsCommand(cmd) /\ Knows(cmd) /\ cmd.dep \in Existing
      /\ Shaped(cmd.mem, cmd.dep) /\ Truthful(cmd.mem, cmd.dep)
  BY CommandKnows
<1>3. e \in Existing
  BY <1>1, <1>2 DEF IsCommand, IsRecord
<1>4. disk[e].id = e /\ Shaped(record, e) /\ Truthful(record, e) /\ record.steps = disk[e].steps
  BY <1>1, <1>3, PredecessorFits DEF Shaped
<1>5. Write(e, record, done, failed)
  BY <1>1, <1>4
<1>6. /\ RecordsFit' /\ ChildrenFit' /\ TracesFit' /\ Numbered'
      /\ \A d, i : Traceless(d, i) => Traceless(d, i)'
      /\ \A d \in Existing : disk'[d] = disk[d] \/ (d = e /\ disk'[d] = record)
      /\ cmd' = failed \/ cmd' = done
  BY <1>3, <1>4, <1>5, QuietChildrenWane, WriteKeepsLaunches
<1>7. disk'[cmd.dep].steps = disk[cmd.dep].steps
  BY <1>2, <1>4, <1>6
<1>8. CASE cmd' = failed
  BY <1>2, <1>6, <1>8, CommandLeftKnows
<1>9. CASE cmd' = done
  BY <1>2, <1>6, <1>7, <1>9, CommandLeftKnows DEF Knows
<1> QED  BY <1>6, <1>8, <1>9

LEMMA ToKnows ==
  ASSUME NEW pc, IsCommand(cmd)
  PROVE  To(pc).mem = cmd.mem /\ To(pc).dep = cmd.dep /\ To(pc).pc = pc /\ To(pc).fence = cmd.fence
         /\ To(pc).outcome = cmd.outcome
BY DEF To, IsCommand

(* A step that only moves the command on.                                   *)
LEMMA MoveLaunches ==
  ASSUME LaunchInv, FenceInv, cmd # None, UNCHANGED <<disk, objects, flight>>, children' \subseteq children,
         NEW k, cmd' = k, k.mem = cmd.mem, k.dep = cmd.dep, k.pc \notin {"fenced", "call"},
         k.pc \notin {"fail", "end"} => cmd.pc \notin {"fail", "end"},
         k.pc = "fail" /\ Refusal(k.outcome) => Traceless(k.dep, k.fence)
  PROVE  LaunchInv'
<1>1. Existing' = Existing
  BY DEF Existing
<1>2. DiskGrows /\ ChildrenWane
  BY <1>1, QuietChildrenWane DEF DiskGrows
<1>3. ChildrenFit' /\ TracesFit' /\ \A d, i : Traceless(d, i) => Traceless(d, i)'
  BY <1>2, WaningKeeps
<1>4. RecordsFit' /\ Numbered'
  BY <1>1, <1>3 DEF LaunchInv, Numbered, RecordsFit, Shaped, Truthful, LastLaunchCounts, Launches, Declined, IsStep
<1>5. Knows(cmd)
  BY CommandKnows
<1> QED  BY <1>3, <1>4, <1>5, CommandLeftKnows DEF Knows

LEMMA SettlingLaunches ==
  ASSUME LaunchInv, FenceInv, ReservePrevious \/ Settle
  PROVE  LaunchInv'
<1> DEFINE previous == disk[cmd.mem.previous]
           failed == IF cmd.op = "create" THEN [cmd EXCEPT !.pc = "fail", !.outcome = "uncertain"] ELSE To("end")
<1>1. cmd # None /\ cmd.pc \in {"reserve", "settle"} /\ UNCHANGED <<children, objects, flight>>
  BY DEF ReservePrevious, Settle, At
<1>2. IsCommand(cmd) /\ cmd.mem.reuse # None
  BY <1>1, CommandKnows DEF IsCommand
<1>3. CASE ReservePrevious
  <2>1. Write(previous.id, Reserve(previous, cmd.dep), To("key"), To("end"))
    BY <1>3 DEF ReservePrevious
  <2>2. /\ To("key").mem = cmd.mem /\ To("key").dep = cmd.dep /\ To("key").pc = "key"
        /\ To("end").mem = cmd.mem /\ To("end").dep = cmd.dep /\ To("end").pc = "end"
    BY <1>2, ToKnows
  <2> QED  BY <1>1, <1>2, <2>1, <2>2, PredecessorWriteLaunches
<1>4. CASE Settle
  <2>1. failed.mem = cmd.mem /\ failed.dep = cmd.dep /\ failed.pc \in {"fail", "end"}
        /\ (failed.pc = "fail" => ~Refusal(failed.outcome))
    BY <1>2 DEF IsCommand, To
  <2>2. cmd.pc = "settle" /\ cmd.pc \notin {"fenced", "call", "fail", "end"}
    BY <1>4 DEF Settle, At
  <2>3. CASE Write(previous.id, Reserve(previous, cmd.dep), cmd, failed)
    <3> HIDE DEF failed
    <3> QED  BY <1>1, <1>2, <2>1, <2>2, <2>3, PredecessorWriteLaunches
  <2>4. CASE Write(previous.id, Complete(previous), cmd, failed)
    <3> HIDE DEF failed
    <3> QED  BY <1>1, <1>2, <2>1, <2>2, <2>4, PredecessorWriteLaunches
  <2>5. CASE cmd' = To(IF cmd.op = "create" THEN "next" ELSE "end") /\ UNCHANGED disk
    <3>1. PICK pc \in {"next", "end"} : cmd' = To(pc)
      BY <2>5
    <3> QED  BY <1>1, <1>2, <2>2, <2>5, <3>1, ToKnows, MoveLaunches
  <2> QED  BY <1>4, <2>3, <2>4, <2>5 DEF Settle
<1> QED  BY <1>3, <1>4

LEMMA RecordAbandonmentLaunches ==
  ASSUME LaunchInv, FenceInv, RecordAbandonment
  PROVE  LaunchInv'
<1> DEFINE record == [cmd.mem EXCEPT !.abandoned = TRUE]
           done == [cmd EXCEPT !.mem = record, !.pc = "settle"]
<1>1. cmd # None /\ UNCHANGED <<children, objects, flight>> /\ Write(cmd.dep, record, done, To("end"))
  BY DEF RecordAbandonment, At
<1>2. IsCommand(cmd) /\ cmd.dep \in Existing /\ Shaped(cmd.mem, cmd.dep) /\ Truthful(cmd.mem, cmd.dep)
  BY <1>1, CommandKnows
<1>3. {"id", "steps"} \subseteq DOMAIN record /\ record.id = cmd.mem.id /\ record.steps = cmd.mem.steps
  BY <1>2 DEF Shaped
<1>4. Shaped(record, cmd.dep) /\ Truthful(record, cmd.dep)
  BY <1>2, <1>3, SameStepsFit
<1>5. done.mem = record /\ done.dep = cmd.dep /\ done.pc = "settle"
  BY <1>2 DEF IsCommand
<1>6. To("end").mem = cmd.mem /\ To("end").dep = cmd.dep /\ To("end").pc = "end"
  BY <1>2, ToKnows
<1> HIDE DEF record, done
<1>7. /\ RecordsFit' /\ ChildrenFit' /\ TracesFit' /\ Numbered'
      /\ \A d, i : Traceless(d, i) => Traceless(d, i)'
      /\ cmd' = To("end") \/ (cmd' = done /\ disk'[cmd.dep] = record)
  BY <1>1, <1>2, <1>4, QuietChildrenWane, WriteKeepsLaunches
<1>8. CASE cmd' = To("end")
  BY <1>2, <1>6, <1>7, <1>8, CommandLeftKnows
<1>9. CASE cmd' = done /\ disk'[cmd.dep] = record
  BY <1>4, <1>5, <1>7, <1>9, CommandLeftKnows
<1> QED  BY <1>7, <1>8, <1>9

LEMMA MovingLaunches ==
  ASSUME LaunchInv, FenceInv, Decide \/ Cancel \/ Finish \/ CallBreaks
  PROVE  LaunchInv'
<1>1. cmd # None /\ UNCHANGED <<disk, objects, flight>> /\ children' \subseteq children
      /\ cmd.pc \notin {"fail", "end"}
  BY DEF Decide, Cancel, Finish, CallBreaks, At
<1>2. IsCommand(cmd)
  BY <1>1, CommandKnows
<1>3. ASSUME NEW pc \in {"next", "health", "end", "approve", "abandon"}, cmd' = To(pc)
      PROVE  LaunchInv'
  BY <1>1, <1>2, <1>3, ToKnows, MoveLaunches
<1>4. CASE cmd' = [cmd EXCEPT !.pc = "next", !.approval = TRUE]
  <2>1. PICK k : k = [cmd EXCEPT !.pc = "next", !.approval = TRUE]
    OBVIOUS
  <2>2. k.mem = cmd.mem /\ k.dep = cmd.dep /\ k.pc = "next"
    BY <1>2, <2>1 DEF IsCommand
  <2> QED  BY <1>1, <1>4, <2>1, <2>2, MoveLaunches
<1>5. CASE Decide
  BY <1>3, <1>4, <1>5 DEF Decide
<1>6. CASE Finish
  BY <1>3, <1>6 DEF Finish
<1>7. CASE Cancel
  <2>1. PICK k : k = [cmd EXCEPT !.pc = "fail",
                                 !.outcome = IF cmd.pc = "fenced" THEN "unattempted" ELSE "uncertain"]
    OBVIOUS
  <2>2. /\ k.mem = cmd.mem /\ k.dep = cmd.dep /\ k.fence = cmd.fence /\ k.pc = "fail"
        /\ k.outcome = IF cmd.pc = "fenced" THEN "unattempted" ELSE "uncertain"
    BY <1>2, <2>1 DEF IsCommand
  <2>3. cmd' = k
    BY <1>7, <2>1 DEF Cancel
  <2>4. cmd.pc = "fenced" => Traceless(cmd.dep, cmd.fence)
    BY <1>1, CommandHasShape, CommandKnows DEF MayHaveChild, Knows, Traceless
  <2> QED  BY <1>1, <2>2, <2>3, <2>4, MoveLaunches
<1>8. CASE CallBreaks
  <2>1. PICK confirmed \in BOOLEAN :
          cmd' = [cmd EXCEPT !.pc = "fail", !.outcome = "uncertain", !.confirmed = confirmed]
    BY <1>8 DEF CallBreaks
  <2>2. PICK k : k = [cmd EXCEPT !.pc = "fail", !.outcome = "uncertain", !.confirmed = confirmed]
    OBVIOUS
  <2>3. k.mem = cmd.mem /\ k.dep = cmd.dep /\ k.pc = "fail" /\ ~Refusal(k.outcome)
    BY <1>2, <2>2 DEF IsCommand
  <2> QED  BY <1>1, <2>1, <2>2, <2>3, MoveLaunches
<1> QED  BY <1>5, <1>6, <1>7, <1>8

-----------------------------------------------------------------------------
(* A fence, its child and what the child reports.                           *)

LEMMA FenceLaunches ==
  ASSUME LaunchInv, FenceInv, Fence
  PROVE  LaunchInv'
<1> DEFINE attempt == IF cmd.op = "create" THEN 0 ELSE cmd.mem.removals + (IF cmd.approval THEN 1 ELSE 0)
           record == [Fenced(cmd.mem) EXCEPT !.steps = Append(@, Step(Planned, attempt)), !.removals = attempt]
           place == Len(record.steps)
           done == [cmd EXCEPT !.mem = record, !.pc = "fenced", !.fence = place, !.approval = FALSE]
           failed == [Failing(record) EXCEPT !.fence = place]
           s == cmd.mem.steps
<1>1. cmd # None /\ cmd.pc = "next" /\ UNCHANGED <<children, objects, flight>>
      /\ Write(cmd.dep, record, done, failed)
  BY DEF Fence, At
<1>2. /\ IsCommand(cmd) /\ Knows(cmd) /\ cmd.dep \in Existing
      /\ Shaped(cmd.mem, cmd.dep) /\ Truthful(cmd.mem, cmd.dep) /\ IsSeq(s)
  BY <1>1, CommandKnows
<1>3. PICK step : step = Step(Planned, attempt)
  OBVIOUS
<1>4. IsStep(step) /\ step.outcome = "none"
  BY <1>3 DEF Step, IsStep
<1>5. record.id = cmd.dep /\ record.steps = Append(s, step) /\ {"id", "steps"} \subseteq DOMAIN record
  BY <1>2, <1>3 DEF Shaped, Fenced
<1>6. /\ IsSeq(record.steps) /\ place = Len(s) + 1 /\ DOMAIN record.steps = 1..(Len(s) + 1)
      /\ \A i \in DOMAIN s : record.steps[i] = s[i]
      /\ record.steps[place] = step /\ record.steps # <<>>
      /\ Len(s) \in Nat /\ DOMAIN s = 1..Len(s)
  <2>1. PICK t : t = record.steps
    OBVIOUS
  <2>2. t = Append(s, step) /\ place = Len(t)
    BY <1>5, <2>1
  <2> HIDE DEF record, place, s
  <2>3. Len(s) \in Nat /\ DOMAIN s = 1..Len(s)
    BY <1>2, SeqFacts
  <2>4. /\ IsSeq(t) /\ Len(t) = Len(s) + 1 /\ DOMAIN t = 1..(Len(s) + 1)
        /\ \A i \in DOMAIN s : t[i] = s[i]
        /\ t[Len(s) + 1] = step /\ t # <<>>
    BY <1>2, <2>2, SeqAdd
  <2> QED  BY <2>1, <2>2, <2>3, <2>4
<1>7. \A i \in DOMAIN record.steps : record.steps[i] = step \/ (i \in DOMAIN s /\ record.steps[i] = s[i])
  BY <1>6
<1>8. Shaped(record, cmd.dep) /\ Truthful(record, cmd.dep)
  BY <1>2, <1>4, <1>5, <1>6, <1>7 DEF Shaped, Truthful
<1>9. \A o \in Traces : Id(o) # <<cmd.dep, place>>
  <2>1. disk[cmd.dep].steps = s
    BY <1>1, <1>2 DEF Knows
  <2> QED  BY <1>6, <2>1 DEF LaunchInv, TracesFit, Id
<1>10. /\ done.dep = cmd.dep /\ done.mem = record /\ done.pc = "fenced" /\ done.fence = place
  BY <1>2 DEF IsCommand
<1>11. /\ failed.dep = cmd.dep /\ failed.pc = "fail" /\ failed.outcome = "uncertain"
       /\ failed.mem = record \/ failed.mem = cmd.mem
  BY <1>2 DEF IsCommand, Failing, Held
<1>12. LastStep(record) = step
  BY <1>6 DEF LastStep
<1> HIDE DEF record, done, failed
<1>13. /\ RecordsFit' /\ ChildrenFit' /\ TracesFit' /\ Numbered'
       /\ \A d, i : Traceless(d, i) => Traceless(d, i)'
       /\ cmd' = failed \/ (cmd' = done /\ disk'[cmd.dep] = record)
  BY <1>1, <1>2, <1>8, QuietChildrenWane, WriteKeepsLaunches
<1>14. CASE cmd' = failed
  BY <1>2, <1>8, <1>11, <1>13, <1>14, CommandLeftKnows
<1>15. CASE cmd' = done /\ disk'[cmd.dep] = record
  <2>1. Traces' = Traces
    BY <1>1 DEF Traces
  <2>2. PICK rec, dep : rec = record /\ dep = cmd.dep
    OBVIOUS
  <2>3. Truthful(rec, dep)'
    BY <1>8, <1>13, <2>2 DEF Truthful
  <2>4. /\ cmd'.mem = rec /\ cmd'.dep = dep /\ cmd'.pc = "fenced" /\ cmd'.fence = Len(rec.steps)
        /\ disk'[dep] = rec /\ Shaped(rec, dep) /\ rec.steps # <<>> /\ LastStep(rec).outcome = "none"
        /\ \A o \in Traces' : Id(o) # <<dep, Len(rec.steps)>>
    BY <1>4, <1>6, <1>8, <1>9, <1>10, <1>12, <1>15, <2>1, <2>2
  <2>5. Knows(cmd)'
    BY <2>3, <2>4 DEF Knows, Truthful, Shaped, IsStep, LastStep, Id
  <2> QED  BY <1>13, <2>5 DEF LaunchInv
<1> QED  BY <1>13, <1>14, <1>15

LEMMA SpawnLaunches ==
  ASSUME LaunchInv, FenceInv, Spawn
  PROVE  LaunchInv'
<1> DEFINE child == [dep |-> cmd.dep, step |-> cmd.fence, phase |-> "spawned", outcome |-> "none"]
<1>1. /\ cmd # None /\ cmd.pc = "fenced" /\ UNCHANGED <<disk, objects, flight>> /\ cmd' = To("call")
      /\ children' = children \cup {child}
  BY DEF Spawn, At
<1>2. children = {} /\ IsCommand(cmd) /\ Knows(cmd) /\ cmd.dep \in Existing
  BY <1>1, CommandHasShape, CommandKnows DEF MayHaveChild
<1>3. children' = {child} /\ Traces' = Traces /\ Existing' = Existing
  BY <1>1, <1>2 DEF Traces, Existing
<1>4. /\ cmd'.mem = cmd.mem /\ cmd'.dep = cmd.dep /\ cmd'.pc = "call" /\ cmd'.fence = cmd.fence
  BY <1>1, <1>2, ToKnows
<1>5. /\ disk[cmd.dep].steps = cmd.mem.steps /\ cmd.fence = Len(cmd.mem.steps)
      /\ cmd.fence \in DOMAIN cmd.mem.steps /\ cmd.mem.steps[cmd.fence].outcome = "none"
      /\ \A o \in Traces : Id(o) # <<cmd.dep, cmd.fence>>
  BY <1>1, <1>2, SeqFacts DEF Knows, Shaped, LastStep
<1>6. ASSUME NEW d, NEW i, Traceless(d, i), <<d, i>> # <<cmd.dep, cmd.fence>>
      PROVE  Traceless(d, i)'
  BY <1>3, <1>6 DEF Traceless, Id, MayCall
<1>7. ASSUME NEW d \in Existing
      PROVE  Truthful(disk[d], d)'
  <2>1. Truthful(disk[d], d)
    BY DEF LaunchInv, RecordsFit
  <2> QED  BY <1>1, <1>5, <1>6, <2>1 DEF Truthful
<1>8. RecordsFit' /\ Numbered'
  BY <1>1, <1>3, <1>7 DEF LaunchInv, Numbered, RecordsFit, Shaped, LastLaunchCounts, Launches, Declined, IsStep
<1>9. Truthful(cmd.mem, cmd.dep)'
  <2>1. Truthful(cmd.mem, cmd.dep)
    BY <1>2 DEF Knows
  <2> QED  BY <1>4, <1>5, <1>6, <2>1 DEF Truthful
<1>10. Knows(cmd)'
  BY <1>1, <1>2, <1>4, <1>9 DEF Knows, Shaped, IsStep, LastStep
<1>11. ChildrenFit'
  BY <1>1, <1>3, <1>5 DEF ChildrenFit, MayCall, Id
<1>12. TracesFit'
  BY <1>1, <1>3 DEF LaunchInv, TracesFit, Id
<1> QED  BY <1>8, <1>10, <1>11, <1>12 DEF LaunchInv

LEMMA RetainLaunches ==
  ASSUME LaunchInv, FenceInv, NEW c \in children, Retain(c)
  PROVE  LaunchInv'
<1> DEFINE step == [LastStep(cmd.mem) EXCEPT !.returned = TRUE]
           record == WithLast(cmd.mem, step)
           done == [cmd EXCEPT !.mem = record]
           answered == [c EXCEPT !.phase = "done", !.outcome = "none"]
<1>1. /\ cmd # None /\ cmd.pc = "call" /\ IsCommand(cmd) /\ children = {c}
      /\ {"dep", "step", "phase", "outcome"} = DOMAIN c
  BY AttendedIsAlone DEF Retain
<1>2. /\ Knows(cmd) /\ cmd.dep \in Existing
      /\ Shaped(cmd.mem, cmd.dep) /\ Truthful(cmd.mem, cmd.dep) /\ IsSeq(cmd.mem.steps)
  BY <1>1, CommandKnows
<1>3. PICK failed : Retains(c, record, done, failed)
  BY <1>1, RetainWrites
<1>14. UNCHANGED <<objects, flight>> /\ Write(cmd.dep, record, done, failed)
       /\ (children' = {answered} \/ children' \subseteq children)
  <2>1. children \ {c} \subseteq children
    OBVIOUS
  <2> QED  BY <1>1, <1>3, <2>1 DEF Retain, Retains
<1>4. ChildrenWane
  <2>1. answered.dep = c.dep /\ answered.step = c.step /\ answered.phase = "done"
    BY <1>1
  <2> HIDE DEF answered
  <2>2. CASE children' = {answered}
    BY <1>14, <2>1, <2>2 DEF ChildrenWane, MayCall
  <2>3. CASE children' \subseteq children
    <3>1. c.phase = "answered"
      BY DEF Retain
    <3> QED  BY <1>1, <2>3, <3>1 DEF ChildrenWane, MayCall
  <2> QED  BY <1>14, <2>2, <2>3
<1>5. /\ cmd.mem.steps # <<>> /\ cmd.fence = Len(cmd.mem.steps)
      /\ Len(cmd.mem.steps) \in DOMAIN cmd.mem.steps
      /\ LastStep(cmd.mem) = cmd.mem.steps[Len(cmd.mem.steps)] /\ LastStep(cmd.mem).outcome = "none"
  BY <1>1, <1>2, SeqFacts DEF Knows, LastStep
<1>6. IsStep(step) /\ step.outcome = "none"
  BY <1>2, <1>5 DEF Shaped, IsStep
<1> HIDE DEF step
<1>7. /\ Shaped(record, cmd.dep) /\ Len(record.steps) = Len(cmd.mem.steps)
      /\ DOMAIN record.steps = DOMAIN cmd.mem.steps /\ record.steps # <<>>
      /\ \A i \in DOMAIN cmd.mem.steps :
           record.steps[i] = IF i = Len(cmd.mem.steps) THEN step ELSE cmd.mem.steps[i]
  BY <1>2, <1>5, <1>6, LastReplaced
<1>8. Truthful(record, cmd.dep) /\ LastStep(record) = step
  BY <1>2, <1>5, <1>6, <1>7 DEF Truthful, LastStep
<1>9. done.dep = cmd.dep /\ done.mem = record /\ done.pc = "call" /\ done.fence = cmd.fence
  BY <1>1 DEF IsCommand
<1>10. /\ failed.dep = cmd.dep /\ failed.pc = "fail" /\ failed.outcome = "uncertain"
       /\ failed.mem = record \/ failed.mem = cmd.mem
  BY <1>3 DEF Held, Retains
<1> HIDE DEF record, done
<1>11. /\ RecordsFit' /\ ChildrenFit' /\ TracesFit' /\ Numbered'
       /\ \A d, i : Traceless(d, i) => Traceless(d, i)'
       /\ cmd' = failed \/ (cmd' = done /\ disk'[cmd.dep] = record)
  BY <1>2, <1>4, <1>7, <1>8, <1>14, WriteKeepsLaunches
<1>12. CASE cmd' = failed
  BY <1>2, <1>7, <1>8, <1>10, <1>11, <1>12, CommandLeftKnows
<1>13. CASE cmd' = done /\ disk'[cmd.dep] = record
  <2>1. PICK rec, dep : rec = record /\ dep = cmd.dep
    OBVIOUS
  <2>2. Truthful(rec, dep)'
    BY <1>8, <1>11, <2>1 DEF Truthful
  <2>3. /\ cmd'.mem = rec /\ cmd'.dep = dep /\ cmd'.pc = "call" /\ cmd'.fence = Len(rec.steps)
        /\ disk'[dep] = rec /\ Shaped(rec, dep) /\ rec.steps # <<>> /\ LastStep(rec).outcome = "none"
    BY <1>5, <1>6, <1>7, <1>8, <1>9, <1>13, <2>1
  <2>4. Knows(cmd)'
    BY <2>2, <2>3 DEF Knows, Truthful, Shaped, IsStep, LastStep
  <2> QED  BY <1>11, <2>4 DEF LaunchInv
<1> QED  BY <1>11, <1>12, <1>13

LEMMA ReplyLaunches ==
  ASSUME LaunchInv, FenceInv, NEW c \in children, Reply(c)
  PROVE  LaunchInv'
<1>1. /\ cmd # None /\ cmd.pc = "call" /\ IsCommand(cmd) /\ children = {c}
      /\ c.dep = cmd.dep /\ c.step = cmd.fence
  BY AttendedIsAlone DEF Reply, Attended
<1>2. Shaped(cmd.mem, cmd.dep) /\ Truthful(cmd.mem, cmd.dep)
  BY <1>1, CommandKnows
<1>3. UNCHANGED <<objects, flight>> /\ children' = children \ {c} /\ ChildrenWane
  BY QuietChildrenWane DEF Reply
<1>4. Shaped(Confirmed(cmd.mem), cmd.dep) /\ Truthful(Confirmed(cmd.mem), cmd.dep)
  BY <1>2, StepsOfFields, SameStepsFit DEF Shaped
<1>5. CASE c.phase = "done"
  <2>1. Persist(Confirmed(cmd.mem), To("observe"))
    BY <1>5 DEF Reply
  <2>2. DOMAIN To("observe") = DOMAIN cmd /\ To("observe").dep = cmd.dep /\ To("observe").pc = "observe"
    BY <1>1 DEF IsCommand, To
  <2> QED  BY <1>1, <1>3, <1>4, <2>1, <2>2, PersistKeepsLaunches
<1>6. CASE c.phase # "done"
  <2>1. PICK k : k = [cmd EXCEPT !.pc = "fail", !.outcome = c.outcome]
    OBVIOUS
  <2>2. Persist(Confirmed(cmd.mem), k) /\ c.phase = "failed"
    BY <1>6, <2>1 DEF Reply
  <2>3. /\ DOMAIN k = DOMAIN cmd /\ k.dep = cmd.dep /\ k.pc = "fail" /\ k.outcome = c.outcome
        /\ k.fence = cmd.fence
    BY <1>1, <2>1 DEF IsCommand
  <2>4. Refusal(k.outcome) => Traceless(k.dep, k.fence)
    BY <1>1, <2>2, <2>3 DEF LaunchInv, ChildrenFit
  <2> QED  BY <1>1, <1>3, <1>4, <2>2, <2>3, <2>4, PersistKeepsLaunches
<1> QED  BY <1>5, <1>6

LEMMA CloseLaunches ==
  ASSUME LaunchInv, FenceInv, Close
  PROVE  LaunchInv'
<1> DEFINE base == Attested(cmd.mem)
           record == Closed(base)
           step == [LastStep(base) EXCEPT !.outcome = cmd.outcome]
           done == [cmd EXCEPT !.mem = record, !.pc = IF TriesNextZone THEN "next" ELSE "end"]
           failed == [cmd EXCEPT !.mem = Held(record), !.pc = IF TriesNextZone THEN "fail" ELSE "end"]
<1>1. cmd # None /\ cmd.pc = "fail" /\ UNCHANGED <<children, objects, flight>>
      /\ Write(cmd.dep, record, done, failed)
  BY DEF Close, At
<1>2. /\ IsCommand(cmd) /\ Knows(cmd) /\ cmd.dep \in Existing
      /\ Shaped(cmd.mem, cmd.dep) /\ Truthful(cmd.mem, cmd.dep) /\ IsSeq(cmd.mem.steps)
  BY <1>1, CommandKnows
<1>3. {"id", "steps"} \subseteq DOMAIN base /\ base.id = cmd.mem.id /\ base.steps = cmd.mem.steps
  BY <1>2, StepsOfFields DEF Attested, Shaped
<1>4. Shaped(base, cmd.dep) /\ Truthful(base, cmd.dep)
  BY <1>2, <1>3, SameStepsFit
<1>5. Refusal(cmd.outcome) => Traceless(cmd.dep, cmd.fence)
  BY <1>1, <1>2 DEF Knows
<1>6. record = base \/ (record = WithLast(base, step) /\ OwnsOpenStep)
  BY DEF Closed
<1> HIDE DEF base
<1>7. Shaped(record, cmd.dep) /\ Truthful(record, cmd.dep)
  <2>1. CASE record = base
    BY <1>4, <2>1
  <2>2. CASE record = WithLast(base, step) /\ OwnsOpenStep
    <3>1. cmd.fence # 0 /\ cmd.fence = Len(base.steps)
      BY <1>3, <2>2 DEF OwnsOpenStep, Verifying
    <3>2. base.steps # <<>>
      BY <3>1, EmptySeq
    <3>3. Len(base.steps) \in DOMAIN base.steps /\ LastStep(base) = base.steps[Len(base.steps)]
      BY <1>2, <1>3, <3>2, SeqFacts DEF LastStep
    <3>4. IsStep(step) /\ step.outcome = cmd.outcome
      BY <1>4, <3>3 DEF Shaped, IsStep
    <3> HIDE DEF step
    <3>5. /\ Shaped(record, cmd.dep) /\ DOMAIN record.steps = DOMAIN base.steps
          /\ \A i \in DOMAIN base.steps :
               record.steps[i] = IF i = Len(base.steps) THEN step ELSE base.steps[i]
      BY <1>4, <2>2, <3>2, <3>4, LastReplaced
    <3> QED  BY <1>4, <1>5, <3>1, <3>4, <3>5 DEF Truthful
  <2> QED  BY <1>6, <2>1, <2>2
<1> HIDE DEF record
<1>8. /\ done.dep = cmd.dep /\ done.mem = record /\ done.pc \in {"next", "end"}
      /\ failed.dep = cmd.dep /\ failed.mem = Held(record) /\ failed.pc \in {"fail", "end"}
      /\ failed.outcome = cmd.outcome /\ failed.fence = cmd.fence
  BY <1>2 DEF IsCommand
<1> HIDE DEF done, failed
<1>9. /\ RecordsFit' /\ ChildrenFit' /\ TracesFit' /\ Numbered'
      /\ \A d, i : Traceless(d, i) => Traceless(d, i)'
      /\ cmd' = failed \/ (cmd' = done /\ disk'[cmd.dep] = record)
  BY <1>1, <1>2, <1>7, QuietChildrenWane, WriteKeepsLaunches
<1>10. Shaped(Held(record), cmd.dep) /\ Truthful(Held(record), cmd.dep)
  BY <1>2, <1>7 DEF Held
<1>11. CASE cmd' = failed
  BY <1>5, <1>8, <1>9, <1>10, <1>11, CommandLeftKnows
<1>12. CASE cmd' = done /\ disk'[cmd.dep] = record
  BY <1>7, <1>8, <1>9, <1>12, CommandLeftKnows
<1> QED  BY <1>9, <1>11, <1>12

-----------------------------------------------------------------------------
(* Commands that start.                                                     *)

LEMMA NewIsNew ==
  ASSUME LaunchInv
  PROVE  /\ New \notin Existing
         /\ IsFiniteSet(Existing \cup {New})
         /\ Existing \cup {New} = 1..Cardinality(Existing \cup {New})
<1>1. PICK n : n = Cardinality(Existing)
  OBVIOUS
<1>2. n \in Nat /\ Existing = 1..n /\ New = n + 1
  BY <1>1, FS_CardinalityType DEF LaunchInv, Numbered, New
<1>3. Existing \cup {New} = 1..(n + 1)
  BY <1>2
<1>4. IsFiniteSet(1..(n + 1)) /\ Cardinality(1..(n + 1)) = n + 1
  <2>1. n + 1 \in Int /\ 1 \in Int /\ 1 <= n + 1 /\ (n + 1) - 1 + 1 = n + 1
    BY <1>2
  <2> QED  BY <2>1, FS_Interval
<1>5. New \notin Existing
  BY <1>2
<1>6. Cardinality(Existing \cup {New}) = n + 1 /\ IsFiniteSet(Existing \cup {New})
  BY <1>3, <1>4, Zenon
<1> QED  BY <1>3, <1>5, <1>6

LEMMA NewRecordLaunches ==
  ASSUME LaunchInv, children' = {}, UNCHANGED <<objects, flight>>,
         NEW record, {"id", "steps"} \subseteq DOMAIN record, record.id = New, record.steps = <<>>,
         disk' = Recorded(New, record),
         NEW k, cmd' = k, k.dep = New, k.mem = record, k.pc \notin {"fenced", "call", "fail"}
  PROVE  LaunchInv'
<1>1. PICK new : new = New
  OBVIOUS
<1>2. /\ new \notin Existing /\ Existing' = Existing \cup {new}
      /\ \A e \in Existing : disk'[e] = disk[e]
      /\ disk'[new] = record
  BY <1>1, NewIsNew DEF Recorded, Existing
<1>3. Numbered'
  BY <1>1, <1>2, NewIsNew DEF Numbered
<1>4. Traces' = Traces
  BY DEF Traces
<1>5. \A d, i : Traceless(d, i) => Traceless(d, i)'
  BY <1>4 DEF Traceless, Id
<1>6. IsSeq(record.steps) /\ DOMAIN record.steps = {}
  <2>1. record.steps \in Seq({}) /\ Len(record.steps) = 0
    BY EmptySeq
  <2>2. IsSeq(record.steps)
    BY <2>1, SeqOfIsSeq
  <2>3. DOMAIN record.steps = 1..0
    BY <2>1, <2>2, SeqFacts
  <2> QED  BY <2>2, <2>3
<1>7. Shaped(record, new) /\ Truthful(record, new) /\ LastLaunchCounts(record)
  BY <1>1, <1>6 DEF Shaped, Truthful, LastLaunchCounts, Launches
<1>8. ASSUME NEW e \in Existing'
      PROVE  Shaped(disk'[e], e) /\ Truthful(disk[e], e)' /\ LastLaunchCounts(disk'[e])
  <2>1. Shaped(disk'[e], e) /\ Truthful(disk'[e], e) /\ LastLaunchCounts(disk'[e])
    BY <1>2, <1>7 DEF LaunchInv, RecordsFit
  <2> QED  BY <1>5, <2>1 DEF Truthful
<1>9. RecordsFit'
  BY <1>8 DEF RecordsFit, Shaped, LastLaunchCounts, Truthful, Launches, Declined, IsStep
<1>10. TracesFit'
  BY <1>2, <1>4 DEF LaunchInv, TracesFit, Id
<1>11. ChildrenFit'
  BY DEF ChildrenFit
<1> QED  BY <1>1, <1>2, <1>3, <1>5, <1>7, <1>9, <1>10, <1>11, CommandLeftKnows

LEMMA BeginLaunches ==
  ASSUME LaunchInv, FenceInv, Ready, NEW k, k.dep \in Existing, k.mem = disk[k.dep],
         k.pc \notin {"fenced", "call", "fail"}, Begin(k)
  PROVE  LaunchInv'
<1>3. children' = {} /\ UNCHANGED <<disk, objects, flight>> /\ cmd' = k
  BY ReadyHasNoChild DEF Begin
<1>4. Existing' = Existing
  BY <1>3 DEF Existing
<1>5. DiskGrows /\ ChildrenWane
  BY <1>3, <1>4 DEF DiskGrows, ChildrenWane
<1>6. ChildrenFit' /\ TracesFit' /\ \A e, i : Traceless(e, i) => Traceless(e, i)'
  BY <1>3, <1>5, WaningKeeps
<1>7. RecordsFit' /\ Numbered'
  BY <1>3, <1>4, <1>6 DEF LaunchInv, Numbered, RecordsFit, Shaped, Truthful, LastLaunchCounts, Launches, Declined, IsStep
<1>8. Shaped(k.mem, k.dep) /\ Truthful(k.mem, k.dep)
  BY DEF LaunchInv, RecordsFit
<1> QED  BY <1>3, <1>6, <1>7, <1>8, CommandLeftKnows

LEMMA CommandBegins ==
  ASSUME NEW op, NEW d, NEW r, NEW pc
  PROVE  Command(op, d, r, pc).dep = d /\ Command(op, d, r, pc).mem = r /\ Command(op, d, r, pc).pc = pc
BY DEF Command

LEMMA DeploymentIsEmpty ==
  ASSUME NEW id, NEW previous, NEW volume
  PROVE  LET r == Deployment(id, previous, volume)
         IN {"id", "steps"} \subseteq DOMAIN r /\ r.id = id /\ r.steps = <<>>
BY DEF Deployment

LEMMA StartsLaunches ==
  ASSUME LaunchInv, FenceInv, Starts
  PROVE  LaunchInv'
<1>1. ASSUME NEW previous, CreateNew(previous)
      PROVE  LaunchInv'
  <2>1. PICK record : record = Deployment(New, previous, None)
    OBVIOUS
  <2>2. PICK k : k = Command("create", New, record, "key")
    OBVIOUS
  <2>3. /\ children' = {} /\ UNCHANGED <<objects, flight>>
        /\ disk' = Recorded(New, record) /\ cmd' = k
    BY <1>1, <2>1, <2>2, ReadyHasNoChild DEF CreateNew
  <2>4. {"id", "steps"} \subseteq DOMAIN record /\ record.id = New /\ record.steps = <<>>
    BY <2>1, DeploymentIsEmpty
  <2>5. k.dep = New /\ k.mem = record /\ k.pc = "key"
    BY <2>2 DEF Command
  <2> QED  BY <2>3, <2>4, <2>5, NewRecordLaunches
<1>2. ASSUME NEW d \in Existing, CreateReuse(d)
      PROVE  LaunchInv'
  <2>1. PICK k : k = Command("reuse", d, disk[d], "observe")
    OBVIOUS
  <2>2. Ready /\ Begin(k)
    BY <1>2, <2>1 DEF CreateReuse
  <2>3. k.dep = d /\ k.mem = disk[d] /\ k.pc = "observe"
    BY <2>1, CommandBegins
  <2> QED  BY <2>2, <2>3, BeginLaunches
<1>3. ASSUME NEW d \in Existing, RemoveHost(d)
      PROVE  LaunchInv'
  <2>1. PICK k : k = Command("remove", d, disk[d], "observe")
    OBVIOUS
  <2>2. Ready /\ Begin(k)
    BY <1>3, <2>1 DEF RemoveHost
  <2>3. k.dep = d /\ k.mem = disk[d] /\ k.pc = "observe"
    BY <2>1, CommandBegins
  <2> QED  BY <2>2, <2>3, BeginLaunches
<1>4. ASSUME NEW d \in Existing, Abandon(d)
      PROVE  LaunchInv'
  <2>1. PICK k : k = Command("abandon", d, disk[d], "observe")
    OBVIOUS
  <2>2. Ready /\ Begin(k)
    BY <1>4, <2>1 DEF Abandon
  <2>3. k.dep = d /\ k.mem = disk[d] /\ k.pc = "observe"
    BY <2>1, CommandBegins
  <2> QED  BY <2>2, <2>3, BeginLaunches
<1>5. ASSUME NEW d \in Existing, Inspect(d)
      PROVE  LaunchInv'
  <2>1. PICK k : k = Command("inspect", d, disk[d], "observe")
    OBVIOUS
  <2>2. Ready /\ Begin(k)
    BY <1>5, <2>1 DEF Inspect
  <2>3. k.dep = d /\ k.mem = disk[d] /\ k.pc = "observe"
    BY <2>1, CommandBegins
  <2> QED  BY <2>2, <2>3, BeginLaunches
<1>6. ASSUME NEW d \in Existing, HandOff(d)
      PROVE  LaunchInv'
  <2>1. PICK k : k = Command("handoff", d, disk[d], "settle")
    OBVIOUS
  <2>2. Ready /\ Begin(k)
    BY <1>6, <2>1 DEF HandOff
  <2>3. k.dep = d /\ k.mem = disk[d] /\ k.pc = "settle"
    BY <2>1, CommandBegins
  <2> QED  BY <2>2, <2>3, BeginLaunches
<1> QED  BY <1>1, <1>2, <1>3, <1>4, <1>5, <1>6 DEF Starts

LEMMA ApproveLaunches ==
  ASSUME LaunchInv, FenceInv, Approve
  PROVE  LaunchInv'
<1>1. PICK record : record = Deployment(New, cmd.dep, Reusable(disk[cmd.dep]))
  OBVIOUS
<1>2. PICK k : k = [cmd EXCEPT !.op = "create", !.dep = New, !.mem = record, !.pc = "reserve"]
  OBVIOUS
<1>3. /\ cmd # None /\ cmd.pc = "approve" /\ UNCHANGED <<children, objects, flight>>
      /\ disk' = Recorded(New, record) /\ cmd' = k
  BY <1>1, <1>2 DEF Approve, At
<1>4. children' = {} /\ IsCommand(cmd)
  BY <1>3, CommandHasShape DEF MayHaveChild
<1>5. {"id", "steps"} \subseteq DOMAIN record /\ record.id = New /\ record.steps = <<>>
  BY <1>1, DeploymentIsEmpty
<1>6. k.dep = New /\ k.mem = record /\ k.pc = "reserve"
  BY <1>2, <1>4 DEF IsCommand
<1> QED  BY <1>3, <1>4, <1>5, <1>6, NewRecordLaunches

-----------------------------------------------------------------------------
(* The child, the provider and what happens outside the CLI.                *)

(* Disk and command stand still.                                            *)
LEMMA StillLaunches ==
  ASSUME LaunchInv, UNCHANGED <<disk, cmd>>, ChildrenFit', TracesFit',
         \A d, i : Traceless(d, i) => Traceless(d, i)',
         cmd # None /\ cmd.pc = "fenced" => Traces' \subseteq Traces
  PROVE  LaunchInv'
<1>1. Existing' = Existing
  BY DEF Existing
<1>2. RecordsFit' /\ Numbered'
  BY <1>1 DEF LaunchInv, Numbered, RecordsFit, Shaped, Truthful, LastLaunchCounts, Launches, Declined, IsStep
<1>3. ASSUME cmd # None
      PROVE  Knows(cmd)'
  <2>1. Knows(cmd)
    BY <1>3 DEF LaunchInv
  <2>2. Truthful(cmd.mem, cmd.dep)'
    BY <2>1 DEF Knows, Truthful
  <2>3. cmd.pc = "fenced" => \A o \in Traces' : Id(o) # <<cmd.dep, cmd.fence>>
    BY <1>3, <2>1 DEF Knows
  <2> QED  BY <2>1, <2>2, <2>3 DEF Knows, Shaped, IsStep, LastStep, Id
<1> QED  BY <1>2, <1>3 DEF LaunchInv

LEMMA WaningLaunches ==
  ASSUME LaunchInv, FenceInv, ChildrenWane, UNCHANGED <<disk, cmd, objects, flight>>
  PROVE  LaunchInv'
<1>1. DiskGrows
  BY DEF DiskGrows, Existing
<1>2. Traces' = Traces
  BY DEF Traces
<1> QED  BY <1>1, <1>2, WaningKeeps, StillLaunches

(* With one child at most, a child that becomes another is the only one left. *)
LEMMA BecomeWanes ==
  ASSUME LaunchInv, FenceInv, NEW c \in children, NEW phase, NEW outcome,
         Become(c, phase, outcome),
         phase \in {"spawned", "authorised"} => MayCall(c),
         phase = "failed" /\ Refusal(outcome) => \A o \in Traces : Id(o) # <<c.dep, c.step>>
  PROVE  ChildrenWane /\ children = {c}
<1>1. PICK changed : changed = [c EXCEPT !.phase = phase, !.outcome = outcome]
  OBVIOUS
<1>2. /\ changed.dep = c.dep /\ changed.step = c.step /\ changed.phase = phase
      /\ changed.outcome = outcome
  BY <1>1 DEF FenceInv, ChildShape
<1>3. children = {c}
  BY DEF LaunchInv, ChildrenFit
<1>4. children' = {changed}
  BY <1>1, <1>3 DEF Become
<1> QED  BY <1>2, <1>3, <1>4 DEF ChildrenWane, MayCall

LEMMA DispatchLaunches ==
  ASSUME LaunchInv, FenceInv, NEW c \in children, Dispatch(c)
  PROVE  LaunchInv'
<1>1. PICK call : call = Request(disk[c.dep], c.step)
  OBVIOUS
<1>2. /\ c.phase = "authorised" /\ flight' = flight \cup {call} /\ Become(c, "asked", "none")
      /\ UNCHANGED <<disk, cmd, objects>>
  BY <1>1 DEF Dispatch
<1>3. c.dep \in Existing /\ c.step \in DOMAIN disk[c.dep].steps /\ disk[c.dep].id = c.dep
  BY DEF FenceInv, ChildShape, LaunchInv, ChildrenFit, RecordsFit, Shaped
<1>4. /\ call.dep = c.dep /\ call.step = c.step
      /\ call.action = disk[c.dep].steps[c.step].action
  BY <1>1, <1>3 DEF Request
<1>5. MayCall(c) /\ \A o \in Traces : Id(o) # <<c.dep, c.step>>
  BY <1>2 DEF MayCall, LaunchInv, ChildrenFit
<1>6. ChildrenWane /\ children = {c}
  BY <1>2, BecomeWanes
<1>7. PICK asked : asked = [c EXCEPT !.phase = "asked", !.outcome = "none"]
  OBVIOUS
<1>8. children' = {asked} /\ asked.dep = c.dep /\ asked.step = c.step /\ asked.phase = "asked"
  BY <1>2, <1>6, <1>7 DEF Become, FenceInv, ChildShape
<1>9. Traces' = Traces \cup {call} /\ Existing' = Existing /\ Id(call) = <<c.dep, c.step>>
  BY <1>2, <1>4 DEF Traces, Existing, Id
<1>10. TracesFit'
  <2>1. flight' \cap objects' = {}
    BY <1>2, <1>5, <1>9 DEF LaunchInv, TracesFit, Traces
  <2>2. ASSUME NEW x \in Traces', NEW y \in Traces', Id(x) = Id(y)
        PROVE  x = y
    BY <1>5, <1>9, <2>2 DEF LaunchInv, TracesFit
  <2>3. \A o \in Traces' : o.dep \in Existing /\ o.step \in DOMAIN disk[o.dep].steps
                          /\ o.action = disk[o.dep].steps[o.step].action
    BY <1>3, <1>4, <1>9 DEF LaunchInv, TracesFit
  <2> QED  BY <1>2, <1>9, <2>1, <2>2, <2>3 DEF TracesFit, Id
<1>11. ASSUME NEW d, NEW i, Traceless(d, i)
       PROVE  Traceless(d, i)'
  BY <1>5, <1>8, <1>9, <1>11 DEF Traceless, MayCall, Id
<1>12. ChildrenFit'
  BY <1>2, <1>3, <1>8 DEF ChildrenFit, MayCall
<1>13. ~(cmd # None /\ cmd.pc = "fenced")
  BY CommandHasShape DEF MayHaveChild
<1> QED  BY <1>2, <1>10, <1>11, <1>12, <1>13, StillLaunches

(* A call that ends, with its reporting to the child that waits for it.      *)
LEMMA EndedCallLaunches ==
  ASSUME LaunchInv, FenceInv, NEW call \in flight, UNCHANGED <<disk, cmd>>,
         flight' = flight \ {call}, objects' \subseteq objects \cup {call},
         NEW phase \in {"answered", "failed"}, NEW outcome, Reported(call, phase, outcome),
         phase = "failed" => objects' \subseteq objects
  PROVE  LaunchInv'
<1>1. Existing' = Existing /\ Traces' \subseteq Traces /\ flight' \cap objects' = {}
  BY DEF Existing, Traces, LaunchInv, TracesFit
<1>2. phase = "failed" => \A o \in Traces' : Id(o) # Id(call)
  <2>1. call \in Traces /\ call \notin objects
    BY DEF Traces, LaunchInv, TracesFit
  <2>2. phase = "failed" => call \notin Traces'
    BY <2>1 DEF Traces
  <2> QED  BY <1>1, <2>1, <2>2 DEF LaunchInv, TracesFit
<1> DEFINE changed(c) == IF c \in Waiting(call) THEN [c EXCEPT !.phase = phase, !.outcome = outcome] ELSE c
<1>3. children' = {changed(c) : c \in children}
  BY DEF Reported
<1>4. ASSUME NEW c \in children
      PROVE  /\ changed(c).dep = c.dep /\ changed(c).step = c.step
             /\ changed(c) = c \/ (changed(c).phase = phase /\ <<c.dep, c.step>> = Id(call))
  BY DEF FenceInv, ChildShape, Waiting
<1> HIDE DEF changed
<1>5. \A e \in children' : \E c \in children :
        /\ e.dep = c.dep /\ e.step = c.step
        /\ e = c \/ (e.phase = phase /\ <<c.dep, c.step>> = Id(call))
  BY <1>3, <1>4
<1>6. \A c, e \in children' : c = e
  BY <1>3 DEF LaunchInv, ChildrenFit
<1>7. ASSUME NEW d, NEW i, Traceless(d, i)
      PROVE  Traceless(d, i)'
  BY <1>1, <1>5, <1>7 DEF Traceless, MayCall, Id
<1>8. ASSUME NEW e \in children'
      PROVE  /\ e.step \in DOMAIN disk[e.dep].steps
             /\ MayCall(e) => \A o \in Traces' : Id(o) # <<e.dep, e.step>>
             /\ e.phase = "failed" /\ Refusal(e.outcome) => Traceless(e.dep, e.step)'
  <2>1. PICK c \in children :
          /\ e.dep = c.dep /\ e.step = c.step
          /\ e = c \/ (e.phase = phase /\ <<c.dep, c.step>> = Id(call))
    BY <1>5
  <2>2. CASE e = c
    BY <1>1, <1>7, <2>2 DEF LaunchInv, ChildrenFit
  <2>3. CASE e.phase = phase /\ <<c.dep, c.step>> = Id(call)
    <3>1. ~MayCall(e) /\ e.step \in DOMAIN disk[e.dep].steps
      BY <2>1, <2>3 DEF MayCall, LaunchInv, ChildrenFit
    <3>2. \A x \in children' : ~MayCall(x)
      BY <1>6, <3>1
    <3>3. e.phase = "failed" => Traceless(e.dep, e.step)'
      BY <1>2, <2>1, <2>3, <3>2 DEF Traceless, MayCall, Id
    <3> QED  BY <3>1, <3>3
  <2> QED  BY <2>1, <2>2, <2>3
<1>9. ChildrenFit'
  BY <1>6, <1>8 DEF ChildrenFit, MayCall, Id
<1>10. TracesFit'
  BY <1>1 DEF LaunchInv, TracesFit, Id
<1> QED  BY <1>1, <1>7, <1>9, <1>10, StillLaunches

LEMMA CallsLaunches ==
  ASSUME LaunchInv, FenceInv, Calls
  PROVE  LaunchInv'
<1>1. ASSUME NEW c \in children, Authorise(c)
      PROVE  LaunchInv'
  <2>1. MayCall(c) /\ Become(c, "authorised", "none") /\ UNCHANGED <<disk, cmd, objects, flight>>
    BY <1>1 DEF Authorise, MayCall
  <2> QED  BY <2>1, BecomeWanes, WaningLaunches
<1>2. ASSUME NEW c \in children, Dispatch(c)
      PROVE  LaunchInv'
  BY <1>2, DispatchLaunches
<1>3. ASSUME NEW c \in children, DoNotAttempt(c)
      PROVE  LaunchInv'
  <2>1. Become(c, "failed", "unattempted") /\ UNCHANGED <<disk, cmd, objects, flight>> /\ MayCall(c)
    BY <1>3 DEF DoNotAttempt, MayCall
  <2>2. \A o \in Traces : Id(o) # <<c.dep, c.step>>
    BY <2>1 DEF LaunchInv, ChildrenFit
  <2> QED  BY <2>1, <2>2, BecomeWanes, WaningLaunches
<1>4. ASSUME NEW c \in children, GiveUp(c)
      PROVE  LaunchInv'
  <2>1. Become(c, "failed", "uncertain") /\ UNCHANGED <<disk, cmd, objects, flight>>
    BY <1>4 DEF GiveUp
  <2> QED  BY <2>1, BecomeWanes, WaningLaunches
<1>5. ASSUME NEW c \in children, Leave(c)
      PROVE  LaunchInv'
  <2>1. children' \subseteq children /\ UNCHANGED <<disk, cmd, objects, flight>>
    BY <1>5 DEF Leave
  <2> QED  BY <2>1, QuietChildrenWane, WaningLaunches
<1>6. ASSUME NEW call \in flight, Land(call)
      PROVE  LaunchInv'
  <2>1. objects' \subseteq objects \cup {call}
    BY <1>6 DEF Land, Effect
  <2> QED  BY <1>6, <2>1, EndedCallLaunches DEF Land
<1>7. ASSUME NEW call \in flight, Refuse(call)
      PROVE  LaunchInv'
  BY <1>7, EndedCallLaunches DEF Refuse
<1> QED  BY <1>1, <1>2, <1>3, <1>4, <1>5, <1>6, <1>7 DEF Calls

LEMMA CommandGoneLaunches ==
  ASSUME LaunchInv, FenceInv, UNCHANGED <<disk, children, flight>>, cmd' \in {cmd, None},
         objects' \subseteq objects
  PROVE  LaunchInv'
<1>1. Existing' = Existing /\ Traces' \subseteq Traces
  BY DEF Existing, Traces
<1>2. ASSUME NEW d, NEW i, Traceless(d, i)
      PROVE  Traceless(d, i)'
  BY <1>1, <1>2 DEF Traceless, MayCall, Id
<1>3. TracesFit'
  BY <1>1 DEF LaunchInv, TracesFit, Id
<1>4. ChildrenFit'
  BY <1>1, <1>2 DEF LaunchInv, ChildrenFit, MayCall, Id
<1>5. CASE cmd' = cmd
  BY <1>1, <1>2, <1>3, <1>4, <1>5, StillLaunches
<1>6. CASE cmd' = None
  <2>1. RecordsFit' /\ Numbered'
    BY <1>1, <1>2 DEF LaunchInv, Numbered, RecordsFit, Shaped, Truthful, LastLaunchCounts, Launches, Declined, IsStep
  <2> QED  BY <1>3, <1>4, <1>6, <2>1 DEF LaunchInv
<1> QED  BY <1>5, <1>6

LEMMA CoordinatesLaunches ==
  ASSUME LaunchInv, FenceInv, Coordinates
  PROVE  LaunchInv'
<1>1. CASE End
  BY <1>1, CommandGoneLaunches DEF End
<1>2. CASE Fence \/ Spawn \/ Close \/ Approve
  BY <1>2, FenceLaunches, SpawnLaunches, CloseLaunches, ApproveLaunches
<1>3. CASE Decide \/ Cancel \/ Finish \/ CallBreaks
  BY <1>3, MovingLaunches
<1>4. CASE \E c \in children : Retain(c) \/ Reply(c)
  BY <1>4, RetainLaunches, ReplyLaunches
<1>5. CASE FenceKey \/ KeyGenerated \/ FenceObserve \/ FenceHealth \/ RecordHealth \/ Probe
  BY <1>5, PersistingLaunches
<1>6. CASE Look \/ Reconcile \/ ReservePrevious \/ Settle \/ RecordAbandonment
  BY <1>6, LookLaunches, ReconcileLaunches, SettlingLaunches, RecordAbandonmentLaunches
<1> QED  BY <1>1, <1>2, <1>3, <1>4, <1>5, <1>6 DEF Coordinates

LEMMA NextLaunches ==
  ASSUME LaunchInv, FenceInv, [Next]_vars
  PROVE  LaunchInv'
<1>1. CASE Starts
  BY <1>1, StartsLaunches
<1>2. CASE Coordinates
  BY <1>2, CoordinatesLaunches
<1>3. CASE Calls
  BY <1>3, CallsLaunches
<1>4. CASE Crash
  BY <1>4, CommandGoneLaunches DEF Crash
<1>5. CASE ClearLock
  BY <1>5, CommandGoneLaunches DEF ClearLock
<1>6. CASE Drift
  <2>1. UNCHANGED <<disk, children, flight, cmd>> /\ objects' \subseteq objects
    BY <1>6 DEF Drift
  <2> QED  BY <2>1, CommandGoneLaunches
<1>7. CASE UNCHANGED vars
  BY <1>7, CommandGoneLaunches DEF vars
<1> QED  BY <1>1, <1>2, <1>3, <1>4, <1>5, <1>6, <1>7 DEF Next

(* The inductive invariant of the steps: the records name every call that was  *)
(* made, no call is made twice for a step, and nothing came of a launch that   *)
(* the provider declined (process.ts, Deployer.recordDeclined).               *)
THEOREM LaunchInvariant == Spec => []LaunchInv
<1>1. Init => LaunchInv
  <2> SUFFICES ASSUME Init PROVE LaunchInv
    OBVIOUS
  <2>1. disk \in Seq({}) /\ Len(disk) = 0
    BY EmptySeq, Zenon DEF Init
  <2>2. Existing = {}
    BY <2>1 DEF Existing
  <2>3. children = {} /\ cmd = None /\ objects = {} /\ flight = {}
    BY Zenon DEF Init
  <2>4. Numbered
    BY <2>2, FS_EmptySet DEF Numbered
  <2> QED  BY <2>2, <2>3, <2>4 DEF LaunchInv, RecordsFit, ChildrenFit, TracesFit, Traces
<1>2. LaunchInv /\ FenceInv /\ [Next]_vars => LaunchInv'
  BY NextLaunches
<1> QED  BY <1>1, <1>2, FenceInvariant, PTL DEF Spec

(* A deployment has one instance at most, and no launch on its way beside it,   *)
(* however many zones were tried and however its commands ended               *)
(* (deployer.ts, Deployer.recordDeclined).                                    *)
THEOREM AwsLaunchIsUnique == Spec => []LaunchIsUnique
<1>1. ASSUME LaunchInv
      PROVE  LaunchIsUnique
  <2>1. SUFFICES ASSUME NEW d \in Existing
                 PROVE  Cardinality({o \in objects \cup flight : o.dep = d /\ o.action = "run-instances"}) <= 1
    BY DEF LaunchIsUnique
  <2> DEFINE launched == {o \in objects \cup flight : o.dep = d /\ o.action = "run-instances"}
  <2>2. ASSUME NEW x \in launched, NEW y \in launched
        PROVE  ~(x.step < y.step)
    <3>1. x \in Traces /\ x.step \in Launches(disk[d]) /\ y.step \in Launches(disk[d])
      BY <1>1 DEF LaunchInv, TracesFit, Traces, Launches
    <3>2. SUFFICES ASSUME x.step < y.step PROVE FALSE
      OBVIOUS
    <3>3. disk[d].steps[x.step].outcome = "capacity"
      BY <1>1, <3>1, <3>2 DEF LaunchInv, RecordsFit, LastLaunchCounts, Declined
    <3>4. Traceless(d, x.step)
      BY <1>1, <3>1, <3>3 DEF LaunchInv, RecordsFit, Truthful, Launches
    <3> QED  BY <3>1, <3>4 DEF Traceless, Id
  <2>3. ASSUME NEW x \in launched, NEW y \in launched
        PROVE  x = y
    <3>1. x.step \in Nat /\ y.step \in Nat
      <4>1. DOMAIN disk[d].steps \subseteq Nat
        BY <1>1, SeqFacts DEF LaunchInv, RecordsFit, Shaped
      <4> QED  BY <1>1, <4>1 DEF LaunchInv, TracesFit, Traces
    <3>2. x.step = y.step
      BY <2>2, <3>1
    <3> QED  BY <1>1, <3>2 DEF LaunchInv, TracesFit, Traces, Id
  <2> HIDE DEF launched
  <2>4. CASE launched = {}
    BY <2>4, FS_EmptySet DEF launched
  <2>5. CASE launched # {}
    <3>1. PICK x : launched = {x}
      BY <2>3, <2>5
    <3>2. Cardinality(launched) = 1
      BY <3>1, FS_Singleton
    <3> QED  BY <3>2 DEF launched
  <2> QED  BY <2>4, <2>5
<1> QED  BY <1>1, LaunchInvariant, PTL

-----------------------------------------------------------------------------
(* What is concluded from a record.  Nothing is forgotten because each reason  *)
(* to leave a resource out of account was a sight of its absence, and a call   *)
(* that was answered or refused never acts again.                             *)

(* Every record, on disk and in memory, passes the checks for reading one.   *)
ParsedInv ==
  /\ \A d \in Existing : IsConsistent(disk[d])
  /\ cmd # None => IsConsistent(cmd.mem)

(* No call of a step is under way or will be made.                           *)
Answered(d, i) ==
  /\ \A o \in flight : Id(o) # <<d, i>>
  /\ \A c \in children : MayCall(c) => <<c.dep, c.step>> # <<d, i>>
Owned(r, key) == key \in RESOURCES /\ (r.reuse = None \/ key \notin RETAINED)
(* Each sight of an absence in an observation of a record was true and stays so. *)
Absences(r, d, observation) ==
  \A key \in DOMAIN observation :
    Owned(r, key) /\ observation[key] = "absent" => Traceless(d, StepOf(r, key))
Sees(r, d) ==
  /\ \A i \in DOMAIN r.steps : r.steps[i].returned => Answered(d, i)
  /\ \A i \in DOMAIN r.steps : r.steps[i].verified =>
       \A made \in Undoes(r.steps[i].action) \cap RESOURCES : Traceless(d, StepOf(r, made))
  /\ r.latest # None => Absences(r, d, r.latest)
(* A removal makes nothing.                                                 *)
Removing == {REMOVALS[p][1] : p \in DOMAIN REMOVALS}
Directed(r) == \A i \in DOMAIN r.steps : r.steps[i].removal # 0 => r.steps[i].action \in Removing

(* What a command knows.                                                    *)
Aware(k) ==
  /\ Sees(k.mem, k.dep)
  /\ k.pc = "reconcile" => Absences(k.mem, k.dep, k.observation)
  /\ k.pc = "fenced" => ~LastStep(k.mem).returned
RecordsSee == \A d \in Existing : Sees(disk[d], d) /\ Directed(disk[d])
AnswersCount == \A c \in children : c.phase = "answered" => Answered(c.dep, c.step)
SightInv ==
  /\ RecordsSee
  /\ cmd # None => Aware(cmd)
  /\ AnswersCount

-----------------------------------------------------------------------------
(* Records can be read.                                                     *)

LEMMA EmptySteps ==
  ASSUME NEW s, s = <<>>
  PROVE  IsSeq(s) /\ Len(s) = 0 /\ DOMAIN s = {} /\ 1..Len(s) = {}
<1>1. s \in Seq({}) /\ Len(s) = 0
  BY EmptySeq
<1>2. IsSeq(s)
  BY <1>1, SeqOfIsSeq
<1> QED  BY <1>1, <1>2, SeqFacts

LEMMA DeploymentParses ==
  ASSUME NEW id, NEW previous, NEW volume
  PROVE  IsConsistent(Deployment(id, previous, volume))
<1>1. PICK r : r = Deployment(id, previous, volume)
  OBVIOUS
<1>2. /\ r.steps = <<>> /\ r.removals = 0 /\ r.health = FALSE /\ r.successor = None /\ r.abandoned = FALSE
      /\ r.latest = None /\ r.implicit = FALSE
  BY <1>1 DEF Deployment
<1>3. DOMAIN r.steps = {} /\ 1..Len(r.steps) = {}
  BY <1>2, EmptySteps
<1>4. InPlan(r)
  BY <1>2, <1>3 DEF InPlan, CreationsOf
<1>5. LaunchesOrdered(r)
  <2>1. Launches(r) = {} /\ Cardinality(Launches(r)) = 0
    BY <1>3, FS_EmptySet DEF Launches
  <2> QED  BY <2>1, SlotAssumption DEF LaunchesOrdered, Slots
<1>6. Discovered(r)
  BY <1>2, <1>3 DEF Discovered, Verified, StepOf, SelectLastInSeq
<1> QED
  BY <1>1, <1>2, <1>3, <1>4, <1>5, <1>6
     DEF IsConsistent, Keyed, Undone, HealthRecorded, SuccessorRecorded, AbandonmentRecorded, ObservedKnown

LEMMA WriteParses ==
  ASSUME ParsedInv, cmd # None, NEW d \in Existing, NEW record, NEW done, NEW failed,
         Write(d, record, done, failed),
         done.mem \in {cmd.mem, record}, failed.mem \in {cmd.mem, Held(record)}
  PROVE  ParsedInv'
<1>1. /\ Existing' = Existing
      /\ \A e \in Existing : disk'[e] = disk[e] \/ (disk'[e] = record /\ Accepted(d, record))
      /\ cmd' = failed \/ (cmd' = done /\ Accepted(d, record))
  BY DEF Write, Existing
<1>2. Accepted(d, record) => IsConsistent(record)
  BY DEF Accepted
<1>3. IsConsistent(Held(record))
  BY DEF Held, ParsedInv
<1> QED  BY <1>1, <1>2, <1>3 DEF ParsedInv

LEMMA PersistParses ==
  ASSUME ParsedInv, FenceInv, cmd # None, NEW record, NEW next, DOMAIN next = DOMAIN cmd, Persist(record, next)
  PROVE  ParsedInv'
<1>1. IsCommand(cmd) /\ cmd.dep \in Existing
  BY DEF FenceInv, CommandShape, IsCommand
<1>2. [next EXCEPT !.mem = record].mem = record /\ Failing(record).mem = Held(record)
  BY <1>1 DEF IsCommand, Failing
<1> QED  BY <1>1, <1>2, WriteParses DEF Persist

(* A command that starts on a record, or goes on with its own.              *)
LEMMA StillParses ==
  ASSUME ParsedInv, UNCHANGED disk,
         cmd' = None \/ (cmd # None /\ cmd'.mem = cmd.mem) \/ \E d \in Existing : cmd'.mem = disk[d]
  PROVE  ParsedInv'
BY DEF ParsedInv, Existing

LEMMA NewParses ==
  ASSUME ParsedInv, NEW d, NEW record, IsConsistent(record), disk' = Recorded(d, record), cmd'.mem = record
  PROVE  ParsedInv'
<1>1. \A e \in Existing' : disk'[e] = record \/ (e \in Existing /\ disk'[e] = disk[e])
  BY DEF Recorded, Existing
<1> QED  BY <1>1 DEF ParsedInv

LEMMA StartsParse ==
  ASSUME ParsedInv, FenceInv, Starts
  PROVE  ParsedInv'
<1>1. ASSUME NEW previous, CreateNew(previous)
      PROVE  ParsedInv'
  <2>1. PICK record : record = Deployment(New, previous, None)
    OBVIOUS
  <2>2. disk' = Recorded(New, record) /\ cmd'.mem = record
    BY <1>1, <2>1, CommandBegins DEF CreateNew
  <2> QED  BY <2>1, <2>2, DeploymentParses, NewParses
<1>2. ASSUME NEW d \in Existing, CreateReuse(d) \/ RemoveHost(d) \/ Abandon(d) \/ Inspect(d) \/ HandOff(d)
      PROVE  ParsedInv'
  <2>1. \E op, pc : Begin(Command(op, d, disk[d], pc))
    BY <1>2 DEF CreateReuse, RemoveHost, Abandon, Inspect, HandOff
  <2>2. UNCHANGED disk /\ cmd'.mem = disk[d]
    BY <2>1, CommandBegins DEF Begin
  <2> QED  BY <2>2, StillParses
<1> QED  BY <1>1, <1>2 DEF Starts

LEMMA CoordinatesParses ==
  ASSUME ParsedInv, LaunchInv, FenceInv, Coordinates
  PROVE  ParsedInv'
<1>1. cmd # None
  BY DEF Coordinates, Approve, ReservePrevious, FenceKey, KeyGenerated, Fence, Spawn, Cancel, Finish, Retain, Reply,
         Attended, CallBreaks, FenceObserve, Look, Reconcile, Decide, FenceHealth, Probe, RecordHealth,
         RecordAbandonment, Settle, Close, End, At
<1>2. IsCommand(cmd) /\ cmd.dep \in Existing
  BY <1>1 DEF FenceInv, CommandShape, IsCommand
<1>3. \A pc : DOMAIN To(pc) = DOMAIN cmd /\ To(pc).mem = cmd.mem
  BY <1>2 DEF To, IsCommand
<1>4. CASE Approve
  <2>1. PICK record : record = Deployment(New, cmd.dep, Reusable(disk[cmd.dep]))
    OBVIOUS
  <2>2. disk' = Recorded(New, record) /\ cmd'.mem = record
    BY <1>2, <1>4, <2>1 DEF Approve, IsCommand
  <2> QED  BY <2>1, <2>2, DeploymentParses, NewParses
<1>5. CASE FenceKey \/ KeyGenerated \/ FenceObserve \/ FenceHealth \/ Probe \/ RecordHealth
  <2>1. \E record, pc : Persist(record, To(pc))
    BY <1>5 DEF FenceKey, KeyGenerated, FenceObserve, FenceHealth, Probe, RecordHealth
  <2> QED  BY <1>1, <1>3, <2>1, PersistParses
<1>6. CASE Look \/ Reconcile \/ \E c \in children : Reply(c)
  <2>1. \E record, next : DOMAIN next = DOMAIN cmd /\ Persist(record, next)
    BY <1>3, <1>6 DEF Look, Reconcile, Reply
  <2> QED  BY <1>1, <2>1, PersistParses
<1>12. ASSUME NEW c \in children, Retain(c)
       PROVE  ParsedInv'
  <2>1. PICK step, record : step = [LastStep(cmd.mem) EXCEPT !.returned = TRUE] /\ record = WithLast(cmd.mem, step)
    OBVIOUS
  <2>2. PICK done : done = [cmd EXCEPT !.mem = record]
    OBVIOUS
  <2>3. PICK failed : Retains(c, record, done, failed)
    BY <1>2, <1>12, <2>1, <2>2, RetainWrites
  <2>4. done.mem = record /\ failed.mem = Held(record) /\ Write(cmd.dep, record, done, failed)
    BY <1>2, <2>2, <2>3 DEF IsCommand, Retains
  <2> QED  BY <1>1, <1>2, <2>4, WriteParses
<1>7. CASE Fence
  <2>1. PICK record, place, k :
          /\ k.mem = record
          /\ Write(cmd.dep, record, k, [Failing(record) EXCEPT !.fence = place])
    BY <1>2, <1>7 DEF Fence, IsCommand
  <2>2. [Failing(record) EXCEPT !.fence = place].mem = Held(record)
    BY <1>2 DEF Failing, IsCommand
  <2> QED  BY <1>1, <1>2, <2>1, <2>2, WriteParses
<1>8. CASE Close
  <2>1. PICK record, k, f : k.mem = record /\ f.mem = Held(record) /\ Write(cmd.dep, record, k, f)
    BY <1>2, <1>8 DEF Close, IsCommand
  <2> QED  BY <1>1, <1>2, <2>1, WriteParses
<1>9. CASE RecordAbandonment
  <2>1. PICK record, k : k.mem = record /\ Write(cmd.dep, record, k, To("end"))
    BY <1>2, <1>9 DEF RecordAbandonment, IsCommand
  <2> QED  BY <1>1, <1>2, <1>3, <2>1, WriteParses
<1>10. CASE ReservePrevious \/ Settle
  <2>1. cmd.mem.previous \in Existing
    BY <1>2, <1>10 DEF ReservePrevious, Settle, At, IsCommand, IsRecord
  <2>2. disk[cmd.mem.previous].id = cmd.mem.previous
    BY <2>1 DEF LaunchInv, RecordsFit, Shaped
  <2>3. CASE UNCHANGED disk /\ cmd'.mem = cmd.mem
    BY <1>1, <2>3, StillParses
  <2>4. CASE \E record, done, failed :
               Write(disk[cmd.mem.previous].id, record, done, failed) /\ done.mem = cmd.mem /\ failed.mem = cmd.mem
    BY <1>1, <2>1, <2>2, <2>4, WriteParses
  <2>5. [cmd EXCEPT !.pc = "fail", !.outcome = "uncertain"].mem = cmd.mem
    BY <1>2 DEF IsCommand
  <2>6. CASE ReservePrevious
    BY <1>3, <2>4, <2>6 DEF ReservePrevious
  <2>7. CASE Settle
    <3>1. PICK f : f = IF cmd.op = "create" THEN [cmd EXCEPT !.pc = "fail", !.outcome = "uncertain"] ELSE To("end")
      OBVIOUS
    <3>2. f.mem = cmd.mem
      BY <1>3, <2>5, <3>1
    <3>3. \/ \E record : Write(disk[cmd.mem.previous].id, record, cmd, f)
          \/ UNCHANGED disk /\ cmd' = To(IF cmd.op = "create" THEN "next" ELSE "end")
      BY <2>7, <3>1 DEF Settle
    <3> QED  BY <1>3, <2>3, <2>4, <3>2, <3>3
  <2> QED  BY <1>10, <2>6, <2>7
<1>11. CASE Spawn \/ Cancel \/ Finish \/ CallBreaks \/ Decide \/ End
  <2>1. UNCHANGED disk /\ (cmd' = None \/ cmd'.mem = cmd.mem)
    BY <1>2, <1>3, <1>11 DEF Spawn, Cancel, Finish, CallBreaks, Decide, End, IsCommand
  <2> QED  BY <1>1, <2>1, StillParses
<1> QED  BY <1>4, <1>5, <1>6, <1>7, <1>8, <1>9, <1>10, <1>11, <1>12 DEF Coordinates

(* Every record on disk, and the one a command holds, passes the checks that   *)
(* reading a record makes (audit.ts), after any failed write or crash.        *)
THEOREM RecordsParse == Spec => []ParsedInv
<1>1. Init => ParsedInv
  <2> SUFFICES ASSUME Init PROVE ParsedInv
    OBVIOUS
  <2>1. DOMAIN disk = {} /\ cmd = None
    BY EmptySteps, Zenon DEF Init
  <2> QED  BY <2>1 DEF ParsedInv, Existing
<1>2. ParsedInv /\ LaunchInv /\ FenceInv /\ [Next]_vars => ParsedInv'
  <2> SUFFICES ASSUME ParsedInv, LaunchInv, FenceInv, [Next]_vars
               PROVE  ParsedInv'
    OBVIOUS
  <2>1. CASE Calls \/ Crash \/ ClearLock \/ Drift \/ UNCHANGED vars
    <3>1. UNCHANGED disk /\ cmd' \in {cmd, None}
      BY <2>1 DEF Calls, Authorise, Dispatch, DoNotAttempt, GiveUp, Leave, Land, Refuse, Crash, ClearLock, Drift, vars
    <3> QED  BY <3>1, StillParses
  <2> QED  BY <2>1, StartsParse, CoordinatesParses DEF Next
<1> QED  BY <1>1, <1>2, FenceInvariant, LaunchInvariant, PTL DEF Spec

-----------------------------------------------------------------------------
(* The last step of an action.                                              *)

LEMMA LeastNatural ==
  ASSUME NEW S \in SUBSET Nat, S # {}
  PROVE  \E p \in S : \A q \in S : p <= q
<1>1. PICK less : less = {pair \in Nat \X Nat : pair[1] < pair[2]}
  OBVIOUS
<1>2. IsWellFoundedOn(less, Nat)
  BY <1>1, NatLessThanWellFounded DEF OpToRel
<1>3. PICK p \in S : \A q \in S : <<q, p>> \notin less
  BY <1>2, WFMin
<1>4. ASSUME NEW q \in S PROVE p <= q
  <2>1. p \in Nat /\ q \in Nat /\ <<q, p>> \in Nat \X Nat /\ <<q, p>>[1] = q /\ <<q, p>>[2] = p
    OBVIOUS
  <2>2. ~(q < p)
    BY <1>1, <1>3, <2>1
  <2> QED  BY <2>1, <2>2
<1> QED  BY <1>4

LEMMA GreatestOf ==
  ASSUME NEW n \in Nat, NEW S \in SUBSET (1..n), S # {}
  PROVE  Max(S) \in S /\ \A q \in S : q <= Max(S)
<1>1. PICK T : T = {n - q : q \in S}
  OBVIOUS
<1>0. \A q \in S : q \in Nat /\ n - q \in Nat
  <2>1. \A q \in S : q \in 1..n
    OBVIOUS
  <2>2. \A q \in 1..n : q \in Nat /\ n - q \in Nat
    OBVIOUS
  <2> QED  BY <2>1, <2>2
<1>2. T \in SUBSET Nat /\ T # {}
  BY <1>0, <1>1
<1>3. PICK t \in T : \A u \in T : t <= u
  BY <1>2, LeastNatural
<1>4. PICK p \in S : t = n - p
  BY <1>1
<1>5. ASSUME NEW q \in S PROVE p >= q
  <2>1. n - q \in T /\ p \in Nat /\ q \in Nat
    BY <1>0, <1>1
  <2>2. n - p <= n - q
    BY <1>3, <1>4, <2>1
  <2> QED  BY <2>1, <2>2
<1>6. Max(S) \in S /\ \A q \in S : Max(S) >= q
  BY <1>5 DEF Max
<1>7. Max(S) \in Nat /\ \A q \in S : q \in Nat
  BY <1>0, <1>6
<1> QED  BY <1>6, <1>7

LEMMA StepOfFound ==
  ASSUME NEW r, IsSeq(r.steps), NEW action, StepOf(r, action) # 0
  PROVE  /\ StepOf(r, action) \in DOMAIN r.steps
         /\ r.steps[StepOf(r, action)].action = action
         /\ \A j \in DOMAIN r.steps : j > StepOf(r, action) => r.steps[j].action # action
<1> DEFINE I == {j \in 1..Len(r.steps) : r.steps[j].action = action}
<1>1. Len(r.steps) \in Nat /\ DOMAIN r.steps = 1..Len(r.steps)
  BY SeqFacts
<1>2. I # {} /\ StepOf(r, action) = Max(I)
  BY DEF StepOf, SelectLastInSeq
<1>3. I \in SUBSET (1..Len(r.steps))
  OBVIOUS
<1>4. Max(I) \in I /\ \A q \in I : q <= Max(I)
  <2> HIDE DEF I
  <2> QED  BY <1>1, <1>2, <1>3, GreatestOf
<1>5. PICK m : m = StepOf(r, action)
  OBVIOUS
<1>6. m \in 1..Len(r.steps) /\ r.steps[m].action = action
  BY <1>2, <1>4, <1>5
<1>7. ASSUME NEW j \in 1..Len(r.steps), j > m
      PROVE  r.steps[j].action # action
  <2>1. SUFFICES ASSUME j \in I PROVE FALSE
    OBVIOUS
  <2>2. j <= m
    BY <1>2, <1>4, <1>5, <2>1
  <2> QED  BY <1>1, <1>6, <1>7, <2>2
<1> QED  BY <1>1, <1>5, <1>6, <1>7

LEMMA StepOfLast ==
  ASSUME NEW r, IsSeq(r.steps), NEW i \in DOMAIN r.steps,
         \A j \in DOMAIN r.steps : j > i => r.steps[j].action # r.steps[i].action
  PROVE  StepOf(r, r.steps[i].action) = i
<1> DEFINE I == {j \in 1..Len(r.steps) : r.steps[j].action = r.steps[i].action}
<1>1. Len(r.steps) \in Nat /\ DOMAIN r.steps = 1..Len(r.steps)
  BY SeqFacts
<1>2. i \in I /\ (\A j \in I : i >= j)
  BY <1>1
<1>3. \A j \in I : (\A m \in I : j >= m) => j = i
  BY <1>1, <1>2
<1>4. Max(I) = i
  BY <1>2, <1>3 DEF Max
<1> QED  BY <1>2, <1>4 DEF StepOf, SelectLastInSeq

LEMMA StepOfKept ==
  ASSUME NEW r, NEW q, IsSeq(r.steps), IsSeq(q.steps), DOMAIN q.steps = DOMAIN r.steps,
         \A i \in DOMAIN r.steps : q.steps[i].action = r.steps[i].action, NEW action
  PROVE  StepOf(q, action) = StepOf(r, action)
<1>1. DOMAIN r.steps = 1..Len(r.steps) /\ DOMAIN q.steps = 1..Len(q.steps)
  BY SeqFacts
<1>2. {i \in 1..Len(q.steps) : q.steps[i].action = action} = {i \in 1..Len(r.steps) : r.steps[i].action = action}
  BY <1>1
<1> QED  BY <1>2 DEF StepOf, SelectLastInSeq

LEMMA StepOfAppended ==
  ASSUME NEW r, NEW q, IsSeq(r.steps), NEW step, q.steps = Append(r.steps, step), NEW action,
         step.action # action
  PROVE  StepOf(q, action) = StepOf(r, action)
<1>1. DOMAIN r.steps = 1..Len(r.steps) /\ Len(r.steps) \in Nat
  BY SeqFacts
<1>2. /\ IsSeq(q.steps) /\ Len(q.steps) = Len(r.steps) + 1
      /\ \A i \in DOMAIN r.steps : q.steps[i] = r.steps[i]
      /\ q.steps[Len(r.steps) + 1] = step
  BY SeqAdd
<1>3. {i \in 1..Len(q.steps) : q.steps[i].action = action} = {i \in 1..Len(r.steps) : r.steps[i].action = action}
  BY <1>1, <1>2
<1> QED  BY <1>3 DEF StepOf, SelectLastInSeq

(* What is concluded of a resource, is concluded of one that was answered for. *)
LEMMA ClaimsReturned ==
  ASSUME NEW r, IsConsistent(r)
  PROVE  /\ \A i \in DOMAIN r.steps : \A made \in Undoes(r.steps[i].action) : Returned(r, made)
         /\ r.latest # None => \A key \in DOMAIN r.latest : Owned(r, key) => Returned(r, key)
<1>1. \A i \in DOMAIN r.steps : \A made \in Undoes(r.steps[i].action) : Returned(r, made)
  BY DEF IsConsistent, Undone
<1>2. ASSUME r.latest # None, NEW key \in DOMAIN r.latest, Owned(r, key)
      PROVE  Returned(r, key)
  <2>1. key \in Resources(r) \cup {"implicit"} /\ key # "implicit"
    BY <1>2 DEF IsConsistent, ObservedKnown, Owned, RESOURCES
  <2> QED  BY <1>2, <2>1 DEF Resources, Owned
<1> QED  BY <1>1, <1>2

-----------------------------------------------------------------------------
(* What becomes of a record that tells the truth.                           *)

(* A record that goes on with the steps of another.                         *)
LEMMA ProgressSees ==
  ASSUME NEW d, NEW r, NEW q, Shaped(r, d), Shaped(q, d), Sees(r, d), q.reuse = r.reuse,
         DOMAIN q.steps = DOMAIN r.steps,
         \A i \in DOMAIN r.steps :
           /\ q.steps[i].action = r.steps[i].action
           /\ q.steps[i].returned => r.steps[i].returned \/ Answered(d, i)
           /\ q.steps[i].verified =>
                \/ r.steps[i].verified
                \/ \A made \in Undoes(r.steps[i].action) \cap RESOURCES : Traceless(d, StepOf(r, made)),
         q.latest = r.latest \/ Absences(r, d, q.latest)
  PROVE  Sees(q, d)
<1>1. \A action : StepOf(q, action) = StepOf(r, action)
  BY StepOfKept DEF Shaped
<1>2. \A key : Owned(q, key) <=> Owned(r, key)
  BY DEF Owned
<1> QED  BY <1>1, <1>2 DEF Sees, Absences

LEMMA SameStepsSee ==
  ASSUME NEW d, NEW r, NEW q, Shaped(r, d), Sees(r, d), {"id", "steps"} \subseteq DOMAIN q, q.id = r.id,
         q.steps = r.steps, q.latest = r.latest, q.reuse = r.reuse
  PROVE  Sees(q, d)
<1>1. Shaped(q, d)
  BY SameStepsFit
<1> QED  BY <1>1, ProgressSees

(* A record with one more step, that is not answered.                       *)
LEMMA AppendedSees ==
  ASSUME NEW d, NEW r, NEW q, Shaped(r, d), Sees(r, d), NEW step, ~step.returned, ~step.verified,
         q.steps = Append(r.steps, step), q.latest = r.latest, q.reuse = r.reuse, IsConsistent(q)
  PROVE  Sees(q, d)
<1>1. /\ IsSeq(r.steps) /\ IsSeq(q.steps) /\ Len(r.steps) \in Nat
      /\ DOMAIN r.steps = 1..Len(r.steps) /\ DOMAIN q.steps = 1..(Len(r.steps) + 1)
      /\ \A i \in DOMAIN r.steps : q.steps[i] = r.steps[i]
      /\ q.steps[Len(r.steps) + 1] = step
  BY SeqFacts, SeqAdd DEF Shaped
<1>2. ASSUME NEW action, Returned(q, action)
      PROVE  StepOf(q, action) = StepOf(r, action)
  <2>1. ASSUME step.action = action PROVE FALSE
    <3>1. Len(r.steps) + 1 \in DOMAIN q.steps
          /\ \A j \in DOMAIN q.steps : ~(j > Len(r.steps) + 1)
      BY <1>1
    <3>2. StepOf(q, action) = Len(r.steps) + 1
      BY <1>1, <2>1, <3>1, StepOfLast
    <3> QED  BY <1>1, <1>2, <3>2 DEF Returned
  <2> QED  BY <1>1, <2>1, StepOfAppended
<1>3. \A i \in DOMAIN q.steps : q.steps[i].returned \/ q.steps[i].verified => i \in DOMAIN r.steps /\ q.steps[i] = r.steps[i]
  BY <1>1
<1>4. \A i \in DOMAIN q.steps : q.steps[i].verified =>
        \A made \in Undoes(q.steps[i].action) \cap RESOURCES : Traceless(d, StepOf(q, made))
  BY <1>2, <1>3, ClaimsReturned DEF Sees
<1>5. q.latest # None => Absences(q, d, q.latest)
  BY <1>2, ClaimsReturned DEF Sees, Absences, Owned
<1> QED  BY <1>3, <1>4, <1>5 DEF Sees

-----------------------------------------------------------------------------
(* Steps that make no call possible leave what was concluded true.          *)

Calm == \A d, i : (Traceless(d, i) => Traceless(d, i)') /\ (Answered(d, i) => Answered(d, i)')

LEMMA QuietCalms ==
  ASSUME flight' \subseteq flight, Traces' \subseteq Traces,
         \A c \in children' : MayCall(c) => \E e \in children : MayCall(e) /\ e.dep = c.dep /\ e.step = c.step
  PROVE  Calm
BY DEF Calm, Traceless, Answered, Id, MayCall

LEMMA CalmSees ==
  ASSUME Calm, NEW r, NEW d
  PROVE  /\ Sees(r, d) => Sees(r, d)'
         /\ \A observation : Absences(r, d, observation) => Absences(r, d, observation)'
BY DEF Calm, Sees, Absences

LEMMA CommandLeftSees ==
  ASSUME RecordsSee', AnswersCount', Calm, NEW k, cmd' = k, Aware(k)
  PROVE  SightInv'
<1>1. Sees(k.mem, k.dep)' /\ (k.pc = "reconcile" => Absences(k.mem, k.dep, k.observation)')
  BY CalmSees DEF Aware
<1>2. Aware(k)'
  BY <1>1 DEF Aware, LastStep
<1>3. Aware(cmd)'
  BY <1>2
<1> QED  BY <1>3 DEF SightInv

LEMMA QuietAnswers ==
  ASSUME SightInv, Calm, \A c \in children' : c.phase = "answered" => c \in children
  PROVE  AnswersCount'
<1>1. \A c \in children' : c.phase = "answered" => Answered(c.dep, c.step)
  BY DEF SightInv, AnswersCount
<1>2. \A c \in children' : c.phase = "answered" => Answered(c.dep, c.step)'
  BY <1>1 DEF Calm
<1> QED  BY <1>2 DEF AnswersCount

LEMMA StillRecordsSee ==
  ASSUME SightInv, Calm, UNCHANGED disk
  PROVE  RecordsSee'
<1>1. ASSUME NEW d \in Existing
      PROVE  Sees(disk[d], d)' /\ Directed(disk[d])
  BY CalmSees DEF SightInv, RecordsSee
<1> QED  BY <1>1 DEF RecordsSee, Existing, Directed

(* A step of a removal is the next one that is due.                         *)
LEMMA NextRemovalRemoves ==
  ASSUME NEW r, RemovalPlan(r) # {}
  PROVE  NextRemoval(r) \in Removing
<1> DEFINE plan == RemovalPlan(r)
<1>1. plan \subseteq DOMAIN REMOVALS
  BY DEF RemovalPlan, Removals
<1>2. DOMAIN REMOVALS = 1..11
  BY DEF REMOVALS
<1>3. PICK p \in plan : \A q \in plan : p <= q
  <2> HIDE DEF plan
  <2>1. plan \subseteq Nat /\ plan # {}
    BY <1>1, <1>2 DEF plan
  <2> QED  BY <2>1, LeastNatural
<1>4. Min(plan) \in plan
  BY <1>3 DEF Min
<1> QED  BY <1>1, <1>4 DEF NextRemoval, Removing

(* A removal makes nothing.                                                 *)
LEMMA RemovingMakesNothing ==
  \A action \in Removing : action \notin RESOURCES /\ action # "attach-volume"
<1>1. DOMAIN REMOVALS = 1..11
  BY DEF REMOVALS
<1>2. \A q \in 1..11 : REMOVALS[q][1] \notin RESOURCES /\ REMOVALS[q][1] # "attach-volume"
  BY DEF REMOVALS, RESOURCES
<1> QED  BY <1>1, <1>2 DEF Removing

LEMMA AcceptedDirects ==
  ASSUME NEW d, NEW record, Shaped(disk[d], d), Shaped(record, d), Directed(disk[d]), Accepted(d, record)
  PROVE  Directed(record)
<1> DEFINE before == disk[d].steps
           after == record.steps
<1>1. /\ IsSeq(before) /\ Len(before) \in Nat /\ DOMAIN before = 1..Len(before)
      /\ IsSeq(after) /\ Len(after) \in Nat /\ DOMAIN after = 1..Len(after)
  BY SeqFacts DEF Shaped
<1>2. RequireSteps(disk[d], record)
  BY DEF Accepted, RequireTransition
<1>3. CASE /\ Len(after) = Len(before)
           /\ \A i \in DOMAIN before :
                IF i < Len(before) THEN before[i] = after[i] ELSE RequireProgress(before[i], after[i])
  <2>1. \A i \in DOMAIN before : after[i].action = before[i].action /\ after[i].removal = before[i].removal
    BY <1>3 DEF RequireProgress
  <2> QED  BY <1>1, <1>3, <2>1 DEF Directed
<1>4. CASE Len(after) = Len(before) + 1 /\ Front(after) = before /\ RequireNewStep(disk[d], record)
  <2>1. \A i \in 1..Len(before) : after[i] = before[i]
    BY <1>1, <1>4, FrontKeeps
  <2>2. Last(after) = after[Len(after)]
    BY DEF Last
  <2>3. Last(after).removal # 0 => Last(after).action \in Removing
    BY <1>4, NextRemovalRemoves DEF RequireNewStep
  <2>4. \A i \in DOMAIN after : i \in DOMAIN before \/ i = Len(after)
    BY <1>1, <1>4
  <2> QED  BY <1>1, <2>1, <2>2, <2>3, <2>4 DEF Directed
<1> QED  BY <1>2, <1>3, <1>4 DEF RequireSteps

(* A write of a record that tells the truth if it is one at all.            *)
LEMMA WriteSees ==
  ASSUME SightInv, LaunchInv, Calm, AnswersCount',
         NEW d \in Existing, NEW record, NEW done, NEW failed, Write(d, record, done, failed),
         Shaped(record, d), IsConsistent(record) => Sees(record, d),
         IsConsistent(record) => Aware(done), Aware(failed)
  PROVE  SightInv'
<1>1. /\ Existing' = Existing
      /\ \A e \in Existing : disk'[e] = disk[e] \/ (e = d /\ disk'[e] = record /\ Accepted(d, record))
      /\ cmd' = failed \/ (cmd' = done /\ Accepted(d, record))
  BY DEF Write, Existing
<1>2. Accepted(d, record) => IsConsistent(record)
  BY DEF Accepted
<1>3. \A e \in Existing : Sees(disk[e], e) /\ Directed(disk[e]) /\ Shaped(disk[e], e)
  BY DEF SightInv, RecordsSee, LaunchInv, RecordsFit
<1>4. ASSUME NEW e \in Existing
      PROVE  Sees(disk[e], e)' /\ Directed(disk'[e])
  <2>1. CASE disk'[e] = disk[e]
    BY <1>3, <2>1, CalmSees
  <2>2. CASE e = d /\ disk'[e] = record /\ Accepted(d, record)
    <3>1. Sees(record, d) /\ Directed(record)
      BY <1>2, <1>3, <2>2, AcceptedDirects
    <3>2. Sees(record, d)'
      BY <3>1, CalmSees
    <3> QED  BY <2>2, <3>1, <3>2
  <2> QED  BY <1>1, <2>1, <2>2
<1>5. RecordsSee'
  BY <1>1, <1>4 DEF RecordsSee
<1> QED  BY <1>1, <1>2, <1>5, CommandLeftSees

-----------------------------------------------------------------------------
(* Commands.                                                                *)

LEMMA CommandSees ==
  ASSUME SightInv, LaunchInv, FenceInv, cmd # None
  PROVE  /\ IsCommand(cmd) /\ cmd.dep \in Existing /\ Knows(cmd) /\ Aware(cmd)
         /\ Shaped(cmd.mem, cmd.dep) /\ Sees(cmd.mem, cmd.dep)
         /\ {"id", "steps", "reuse", "latest"} \subseteq DOMAIN cmd.mem
BY CommandKnows DEF SightInv, Aware, IsCommand, IsRecord, Shaped

LEMMA HeldSees ==
  ASSUME NEW record, NEW d, IsConsistent(record) => Sees(record, d), Sees(cmd.mem, d)
  PROVE  Sees(Held(record), d)
BY DEF Held

LEMMA PersistSees ==
  ASSUME SightInv, LaunchInv, FenceInv, cmd # None, Calm, AnswersCount',
         NEW record, Shaped(record, cmd.dep), IsConsistent(record) => Sees(record, cmd.dep),
         NEW next, DOMAIN next = DOMAIN cmd, next.dep = cmd.dep, next.pc # "fenced",
         next.pc = "reconcile" => Absences(record, cmd.dep, next.observation),
         Persist(record, next)
  PROVE  SightInv'
<1> DEFINE done == [next EXCEPT !.mem = record]
           failed == Failing(record)
<1>1. IsCommand(cmd) /\ cmd.dep \in Existing /\ Sees(cmd.mem, cmd.dep)
  BY CommandSees
<1>2. Write(cmd.dep, record, done, failed)
  BY DEF Persist
<1>3. /\ done.dep = cmd.dep /\ done.mem = record /\ done.pc = next.pc /\ done.observation = next.observation
      /\ failed.dep = cmd.dep /\ failed.mem = Held(record) /\ failed.pc = "fail"
  BY <1>1 DEF IsCommand, Failing
<1> HIDE DEF done, failed
<1>4. Aware(failed) /\ (IsConsistent(record) => Aware(done))
  BY <1>1, <1>3, HeldSees DEF Aware
<1> QED  BY <1>1, <1>2, <1>4, WriteSees

(* A record of the command with other fields than its steps and what was seen. *)
LEMMA PersistToSees ==
  ASSUME SightInv, LaunchInv, FenceInv, cmd # None, Calm, AnswersCount',
         NEW record, {"id", "steps"} \subseteq DOMAIN record,
         record.id = cmd.mem.id, record.steps = cmd.mem.steps,
         record.latest = cmd.mem.latest, record.reuse = cmd.mem.reuse,
         NEW pc, pc \notin {"fenced", "reconcile"},
         Persist(record, To(pc))
  PROVE  SightInv'
<1>1. IsCommand(cmd) /\ Shaped(cmd.mem, cmd.dep) /\ Sees(cmd.mem, cmd.dep)
  BY CommandSees
<1>2. Shaped(record, cmd.dep) /\ Sees(record, cmd.dep)
  BY <1>1, SameStepsFit, SameStepsSee
<1>3. DOMAIN To(pc) = DOMAIN cmd /\ To(pc).dep = cmd.dep /\ To(pc).pc = pc
  BY <1>1 DEF IsCommand, To
<1> QED  BY <1>2, <1>3, PersistSees

LEMMA FieldsKept ==
  ASSUME NEW r, {"id", "steps", "reuse", "latest"} \subseteq DOMAIN r, NEW q,
         q \in {Fenced(r), Confirmed(r), [Confirmed(r) EXCEPT !.key = TRUE], [r EXCEPT !.health = TRUE],
                [r EXCEPT !.abandoned = TRUE]}
  PROVE  /\ {"id", "steps", "reuse", "latest"} \subseteq DOMAIN q
         /\ q.id = r.id /\ q.steps = r.steps /\ q.latest = r.latest /\ q.reuse = r.reuse
<1>1. CASE q \in {Fenced(r), Confirmed(r)}
  BY <1>1 DEF Fenced, Confirmed
<1>2. CASE q = [Confirmed(r) EXCEPT !.key = TRUE]
  BY <1>2 DEF Confirmed
<1>3. CASE q \in {[r EXCEPT !.health = TRUE], [r EXCEPT !.abandoned = TRUE]}
  BY <1>3
<1> QED  BY <1>1, <1>2, <1>3

LEMMA PersistingSees ==
  ASSUME SightInv, LaunchInv, FenceInv, Calm, AnswersCount',
         FenceKey \/ KeyGenerated \/ FenceObserve \/ FenceHealth \/ RecordHealth \/ Probe
  PROVE  SightInv'
<1>1. cmd # None
  BY DEF FenceKey, KeyGenerated, FenceObserve, FenceHealth, RecordHealth, Probe, At
<1>2. {"id", "steps", "reuse", "latest"} \subseteq DOMAIN cmd.mem
  BY <1>1, CommandSees
<1>3. PICK record, pc :
        /\ record \in {Fenced(cmd.mem), Confirmed(cmd.mem), [Confirmed(cmd.mem) EXCEPT !.key = TRUE],
                       [cmd.mem EXCEPT !.health = TRUE]}
        /\ pc \in {"keyed", "look", "probe", "next", "end", "healthy"}
        /\ Persist(record, To(pc))
  BY DEF FenceKey, KeyGenerated, FenceObserve, FenceHealth, RecordHealth, Probe
<1>4. /\ {"id", "steps"} \subseteq DOMAIN record /\ record.id = cmd.mem.id /\ record.steps = cmd.mem.steps
      /\ record.latest = cmd.mem.latest /\ record.reuse = cmd.mem.reuse
  BY <1>2, <1>3, FieldsKept
<1> QED  BY <1>1, <1>3, <1>4, PersistToSees

(* The observation reads what exists; that nothing is on its way is known of   *)
(* what was answered for.                                                    *)
LEMMA ObserveSees ==
  ASSUME LaunchInv, NEW r, NEW d, Shaped(r, d), Sees(r, d)
  PROVE  Absences(r, d, Observe(r))
<1>1. SUFFICES ASSUME NEW key \in DOMAIN Observe(r), Owned(r, key), Observe(r)[key] = "absent"
               PROVE  Traceless(d, StepOf(r, key))
  BY DEF Absences
<1>2. key # "implicit" /\ Parent(key) = key
  BY <1>1 DEF Owned, RESOURCES, Parent
<1>3. key \in Active(r) /\ Seen(r, key) = "absent"
  BY <1>1, <1>2 DEF Observe
<1>4. Returned(r, key)
  BY <1>1, <1>2, <1>3 DEF Active, Resources, Owned
<1>5. ~Alive(KeyId(r, key))
  BY <1>3 DEF Seen
<1>6. KeyId(r, key) = <<d, StepOf(r, key)>>
  BY <1>1, <1>2, <1>4 DEF KeyId, VolumeId, Owned, RETAINED, Shaped
<1>7. StepOf(r, key) \in DOMAIN r.steps
  BY <1>4, StepOfFound DEF Returned, Shaped
<1>8. Answered(d, StepOf(r, key))
  BY <1>4, <1>7 DEF Sees, Returned
<1> QED  BY <1>5, <1>6, <1>8 DEF Traceless, Traces, Alive, Answered, Id

LEMMA LookSees ==
  ASSUME SightInv, LaunchInv, FenceInv, Calm, AnswersCount', Look
  PROVE  SightInv'
<1> DEFINE next == [cmd EXCEPT !.pc = "reconcile", !.observation = Observe(cmd.mem)]
<1>1. cmd # None /\ Persist(Confirmed(cmd.mem), next)
  BY DEF Look, At
<1>2. /\ IsCommand(cmd) /\ Shaped(cmd.mem, cmd.dep) /\ Sees(cmd.mem, cmd.dep)
      /\ {"id", "steps", "reuse", "latest"} \subseteq DOMAIN cmd.mem
  BY <1>1, CommandSees
<1>3. PICK record : record = Confirmed(cmd.mem)
  OBVIOUS
<1>4. /\ {"id", "steps"} \subseteq DOMAIN record /\ record.id = cmd.mem.id /\ record.steps = cmd.mem.steps
      /\ record.latest = cmd.mem.latest /\ record.reuse = cmd.mem.reuse
  BY <1>2, <1>3, FieldsKept
<1>5. Shaped(record, cmd.dep) /\ Sees(record, cmd.dep)
  BY <1>2, <1>4, SameStepsFit, SameStepsSee
<1>6. Absences(record, cmd.dep, Observe(cmd.mem))
  <2>1. Absences(cmd.mem, cmd.dep, Observe(cmd.mem))
    BY <1>2, ObserveSees
  <2> QED  BY <1>4, <2>1 DEF Absences, Owned, StepOf
<1>7. /\ DOMAIN next = DOMAIN cmd /\ next.dep = cmd.dep /\ next.pc = "reconcile"
      /\ next.observation = Observe(cmd.mem)
  BY <1>2 DEF IsCommand
<1> HIDE DEF next
<1> QED  BY <1>1, <1>3, <1>5, <1>6, <1>7, PersistSees

(* A removal that is verified was seen to have removed.                     *)
LEMMA VerifiedSees ==
  ASSUME NEW r, NEW d, Shaped(r, d), IsConsistent(r), r.steps # <<>>, LastStep(r).returned,
         NEW observation, Matches(r, observation), Absences(r, d, observation),
         NEW made \in Undoes(LastStep(r).action) \cap RESOURCES
  PROVE  Traceless(d, StepOf(r, made))
<1> DEFINE action == LastStep(r).action
<1>1. /\ Len(r.steps) \in Nat /\ DOMAIN r.steps = 1..Len(r.steps) /\ Len(r.steps) \in DOMAIN r.steps
      /\ LastStep(r) = r.steps[Len(r.steps)] /\ IsSeq(r.steps)
  BY SeqFacts DEF Shaped, LastStep
<1>2. Returned(r, action)
  <2>1. \A j \in DOMAIN r.steps : ~(j > Len(r.steps))
    BY <1>1
  <2>2. StepOf(r, action) = Len(r.steps)
    BY <1>1, <2>1, StepOfLast
  <2> QED  BY <1>1, <2>2 DEF Returned
<1>3. Returned(r, made)
  BY <1>1, ClaimsReturned
<1>4. PICK p \in Removals : REMOVALS[p][1] = action /\ REMOVALS[p][2] = made
  BY DEF Undoes
<1>5. made \notin RETAINED /\ made # "implicit" /\ made \in Included
  <2>1. DOMAIN REMOVALS = 1..11
    BY DEF REMOVALS
  <2>2. \A q \in 1..11 : REMOVALS[q][2] # "create-volume" /\ REMOVALS[q][2] # "implicit"
    BY DEF REMOVALS
  <2> QED  BY <1>4, <2>1, <2>2 DEF Removals, RETAINED
<1>6. made \in Active(r)
  BY <1>3, <1>5 DEF Active, Resources
<1>7. action \in RemovedBy(r, made)
  BY <1>4, <1>5 DEF RemovedBy, Removers, Parent
<1>8. ~Present(r, made)
  BY <1>2, <1>7 DEF Present
<1>9. made \in DOMAIN observation /\ observation[made] = "absent"
  BY <1>6, <1>8 DEF Matches, Expectation
<1> QED  BY <1>5, <1>9 DEF Absences, Owned

LEMMA ReconcileSees ==
  ASSUME SightInv, ParsedInv, LaunchInv, FenceInv, Calm, AnswersCount', Reconcile
  PROVE  SightInv'
<1> DEFINE record == Reconciled(cmd.mem, cmd.observation)
           agrees == Matches(cmd.mem, cmd.observation)
           latest == [cmd.mem EXCEPT !.latest = cmd.observation,
                                     !.implicit = @ \/ (agrees /\ "implicit" \in DOMAIN cmd.observation)]
           verified == [LastStep(cmd.mem) EXCEPT !.verified = TRUE]
           next == IF ~Verifying THEN To("observed")
                   ELSE IF ~Matches(cmd.mem, cmd.observation)
                   THEN [cmd EXCEPT !.pc = "fail", !.outcome = "uncertain"]
                   ELSE IF LastStep(cmd.mem).action = "attach-volume" /\ cmd.mem.reuse # None
                   THEN To("settle") ELSE To("next")
<1>1. cmd # None /\ cmd.pc = "reconcile" /\ Persist(record, next)
  BY DEF Reconcile, At
<1>2. /\ IsCommand(cmd) /\ Shaped(cmd.mem, cmd.dep) /\ Sees(cmd.mem, cmd.dep) /\ Aware(cmd)
      /\ {"id", "steps", "reuse", "latest"} \subseteq DOMAIN cmd.mem
  BY <1>1, CommandSees
<1>3. IsConsistent(cmd.mem) /\ Absences(cmd.mem, cmd.dep, cmd.observation)
  BY <1>1, <1>2 DEF ParsedInv, Aware
<1>4. /\ {"id", "steps", "reuse", "latest"} \subseteq DOMAIN latest /\ latest.id = cmd.mem.id
      /\ latest.steps = cmd.mem.steps /\ latest.reuse = cmd.mem.reuse /\ latest.latest = cmd.observation
  BY <1>2
<1>5. \/ record = latest
      \/ record = WithLast(latest, verified) /\ cmd.mem.steps # <<>> /\ agrees
         /\ StateOf(LastStep(cmd.mem)) = "returned"
  BY DEF Reconciled
<1>6. DOMAIN next = DOMAIN cmd /\ next.dep = cmd.dep /\ next.pc \notin {"fenced", "reconcile"}
  BY <1>2 DEF IsCommand, To
<1> HIDE DEF next, latest, record
<1>7. Shaped(latest, cmd.dep)
  BY <1>2, <1>4, SameStepsFit
<1>8. CASE record = latest
  <2>1. Sees(record, cmd.dep)
    BY <1>2, <1>3, <1>4, <1>7, <1>8, ProgressSees
  <2> QED  BY <1>1, <1>6, <1>7, <1>8, <2>1, PersistSees
<1>9. CASE record = WithLast(latest, verified) /\ cmd.mem.steps # <<>> /\ agrees
           /\ StateOf(LastStep(cmd.mem)) = "returned"
  <2>1. Len(latest.steps) \in DOMAIN latest.steps /\ LastStep(cmd.mem) = latest.steps[Len(latest.steps)]
    BY <1>2, <1>4, <1>9, SeqFacts DEF LastStep, Shaped
  <2>2. LastStep(cmd.mem).returned
    BY <1>9 DEF StateOf
  <2>3. /\ IsStep(verified) /\ verified.action = LastStep(cmd.mem).action
        /\ verified.returned = LastStep(cmd.mem).returned
    BY <1>7, <2>1 DEF Shaped, IsStep
  <2>4. \A made \in Undoes(LastStep(cmd.mem).action) \cap RESOURCES : Traceless(cmd.dep, StepOf(cmd.mem, made))
    BY <1>2, <1>3, <1>9, <2>2, VerifiedSees
  <2> HIDE DEF verified
  <2>5. /\ Shaped(record, cmd.dep) /\ DOMAIN record.steps = DOMAIN latest.steps
        /\ \A i \in DOMAIN latest.steps :
             record.steps[i] = IF i = Len(latest.steps) THEN verified ELSE latest.steps[i]
    BY <1>4, <1>7, <1>9, <2>3, LastReplaced
  <2>6. record.reuse = cmd.mem.reuse /\ record.latest = cmd.observation
    BY <1>4, <1>9 DEF WithLast
  <2>7. \A i \in DOMAIN cmd.mem.steps :
           /\ record.steps[i].action = cmd.mem.steps[i].action
           /\ record.steps[i].returned => cmd.mem.steps[i].returned
           /\ record.steps[i].verified =>
                \/ cmd.mem.steps[i].verified
                \/ \A made \in Undoes(cmd.mem.steps[i].action) \cap RESOURCES :
                     Traceless(cmd.dep, StepOf(cmd.mem, made))
    BY <1>4, <2>1, <2>3, <2>4, <2>5
  <2>8. Sees(record, cmd.dep)
    BY <1>2, <1>3, <1>4, <2>5, <2>6, <2>7, ProgressSees
  <2> QED  BY <1>1, <1>6, <2>5, <2>8, PersistSees
<1> QED  BY <1>5, <1>8, <1>9

LEMMA RetainSees ==
  ASSUME SightInv, LaunchInv, FenceInv, Calm, AnswersCount', NEW c \in children, Retain(c)
  PROVE  SightInv'
<1> DEFINE step == [LastStep(cmd.mem) EXCEPT !.returned = TRUE]
           record == WithLast(cmd.mem, step)
<1>1. cmd # None /\ cmd.pc = "call" /\ c.dep = cmd.dep /\ c.step = cmd.fence /\ c.phase = "answered"
  BY DEF Retain, Attended, At
<1>2. /\ IsCommand(cmd) /\ Knows(cmd) /\ Shaped(cmd.mem, cmd.dep) /\ Sees(cmd.mem, cmd.dep)
      /\ {"id", "steps", "reuse", "latest"} \subseteq DOMAIN cmd.mem
  BY <1>1, CommandSees
<1>3. Answered(cmd.dep, Len(cmd.mem.steps))
  BY <1>1, <1>2 DEF SightInv, AnswersCount, Knows
<1>4. /\ cmd.mem.steps # <<>> /\ Len(cmd.mem.steps) \in DOMAIN cmd.mem.steps
      /\ LastStep(cmd.mem) = cmd.mem.steps[Len(cmd.mem.steps)]
  BY <1>1, <1>2, SeqFacts DEF Knows, LastStep, Shaped
<1>5. IsStep(step) /\ step.action = LastStep(cmd.mem).action /\ step.verified = LastStep(cmd.mem).verified
  BY <1>2, <1>4 DEF Shaped, IsStep
<1>6. record.reuse = cmd.mem.reuse /\ record.latest = cmd.mem.latest
  BY <1>2 DEF WithLast
<1>11. PICK done : done = [cmd EXCEPT !.mem = record]
  OBVIOUS
<1>10. PICK failed : Retains(c, record, done, failed)
  BY <1>2, <1>11, RetainWrites
<1> HIDE DEF step
<1>7. /\ Shaped(record, cmd.dep) /\ DOMAIN record.steps = DOMAIN cmd.mem.steps
      /\ \A i \in DOMAIN cmd.mem.steps :
           record.steps[i] = IF i = Len(cmd.mem.steps) THEN step ELSE cmd.mem.steps[i]
  BY <1>2, <1>4, <1>5, LastReplaced
<1>8. \A i \in DOMAIN cmd.mem.steps :
        /\ record.steps[i].action = cmd.mem.steps[i].action
        /\ record.steps[i].returned => cmd.mem.steps[i].returned \/ Answered(cmd.dep, i)
        /\ record.steps[i].verified => cmd.mem.steps[i].verified
  BY <1>3, <1>4, <1>5, <1>7
<1> HIDE DEF record
<1>9. Sees(record, cmd.dep)
  BY <1>2, <1>6, <1>7, <1>8, ProgressSees
<1>12. Aware(done) /\ Aware(failed)
  <2>1. done.dep = cmd.dep /\ done.mem = record /\ done.pc = "call"
    BY <1>1, <1>2, <1>11 DEF IsCommand
  <2>2. Sees(Held(record), cmd.dep)
    BY <1>1, <1>2, <1>9, HeldSees
  <2> QED  BY <1>9, <1>10, <2>1, <2>2 DEF Aware, Retains
<1>13. cmd.dep \in Existing
  BY <1>2 DEF IsCommand
<1> QED  BY <1>1, <1>7, <1>9, <1>10, <1>12, <1>13, WriteSees DEF Retains

LEMMA ReplySees ==
  ASSUME SightInv, LaunchInv, FenceInv, Calm, AnswersCount', NEW c \in children, Reply(c)
  PROVE  SightInv'
<1>1. cmd # None
  BY DEF Reply, Attended, At
<1>2. /\ IsCommand(cmd) /\ Shaped(cmd.mem, cmd.dep) /\ Sees(cmd.mem, cmd.dep)
      /\ {"id", "steps", "reuse", "latest"} \subseteq DOMAIN cmd.mem
  BY <1>1, CommandSees
<1>3. PICK record : record = Confirmed(cmd.mem)
  OBVIOUS
<1>4. /\ {"id", "steps"} \subseteq DOMAIN record /\ record.id = cmd.mem.id /\ record.steps = cmd.mem.steps
      /\ record.latest = cmd.mem.latest /\ record.reuse = cmd.mem.reuse
  BY <1>2, <1>3, FieldsKept
<1>5. Shaped(record, cmd.dep) /\ Sees(record, cmd.dep)
  BY <1>2, <1>4, SameStepsFit, SameStepsSee
<1>6. PICK next : /\ Persist(record, next)
                  /\ next \in {To("observe"), [cmd EXCEPT !.pc = "fail", !.outcome = c.outcome]}
  BY <1>3 DEF Reply
<1>7. DOMAIN next = DOMAIN cmd /\ next.dep = cmd.dep /\ next.pc \in {"observe", "fail"}
  BY <1>2, <1>6 DEF IsCommand, To
<1> QED  BY <1>1, <1>5, <1>6, <1>7, PersistSees

LEMMA CloseSees ==
  ASSUME SightInv, LaunchInv, FenceInv, Calm, AnswersCount', Close
  PROVE  SightInv'
<1> DEFINE base == Attested(cmd.mem)
           record == Closed(base)
           step == [LastStep(base) EXCEPT !.outcome = cmd.outcome]
           done == [cmd EXCEPT !.mem = record, !.pc = IF TriesNextZone THEN "next" ELSE "end"]
           failed == [cmd EXCEPT !.mem = Held(record), !.pc = IF TriesNextZone THEN "fail" ELSE "end"]
<1>1. cmd # None /\ Write(cmd.dep, record, done, failed)
  BY DEF Close, At
<1>2. /\ IsCommand(cmd) /\ cmd.dep \in Existing /\ Shaped(cmd.mem, cmd.dep) /\ Sees(cmd.mem, cmd.dep)
      /\ {"id", "steps", "reuse", "latest"} \subseteq DOMAIN cmd.mem
  BY <1>1, CommandSees
<1>3. /\ {"id", "steps", "reuse", "latest"} \subseteq DOMAIN base /\ base.id = cmd.mem.id
      /\ base.steps = cmd.mem.steps /\ base.latest = cmd.mem.latest /\ base.reuse = cmd.mem.reuse
  BY <1>2, FieldsKept DEF Attested
<1>4. record = base \/ (record = WithLast(base, step) /\ OwnsOpenStep)
  BY DEF Closed
<1> HIDE DEF base
<1>5. Shaped(base, cmd.dep) /\ Sees(base, cmd.dep)
  BY <1>2, <1>3, SameStepsFit, SameStepsSee
<1>6. Shaped(record, cmd.dep) /\ Sees(record, cmd.dep)
  <2>1. CASE record = base
    BY <1>5, <2>1
  <2>2. CASE record = WithLast(base, step) /\ OwnsOpenStep
    <3>1. cmd.fence # 0 /\ cmd.fence = Len(base.steps)
      BY <1>3, <2>2 DEF OwnsOpenStep, Verifying
    <3>2. base.steps # <<>>
      BY <3>1, EmptySeq
    <3>3. Len(base.steps) \in DOMAIN base.steps /\ LastStep(base) = base.steps[Len(base.steps)]
      BY <1>5, <3>2, SeqFacts DEF LastStep, Shaped
    <3>4. /\ IsStep(step) /\ step.action = LastStep(base).action /\ step.returned = LastStep(base).returned
          /\ step.verified = LastStep(base).verified
      BY <1>5, <3>3 DEF Shaped, IsStep
    <3>5. record.reuse = base.reuse /\ record.latest = base.latest
      BY <1>3, <2>2 DEF WithLast
    <3> HIDE DEF step
    <3>6. /\ Shaped(record, cmd.dep) /\ DOMAIN record.steps = DOMAIN base.steps
          /\ \A i \in DOMAIN base.steps :
               record.steps[i] = IF i = Len(base.steps) THEN step ELSE base.steps[i]
      BY <1>5, <2>2, <3>2, <3>4, LastReplaced
    <3>7. \A i \in DOMAIN base.steps :
            /\ record.steps[i].action = base.steps[i].action
            /\ record.steps[i].returned => base.steps[i].returned
            /\ record.steps[i].verified => base.steps[i].verified
      BY <3>3, <3>4, <3>6
    <3> HIDE DEF record
    <3> QED  BY <1>5, <3>5, <3>6, <3>7, ProgressSees
  <2> QED  BY <1>4, <2>1, <2>2
<1> HIDE DEF record
<1>7. /\ done.dep = cmd.dep /\ done.mem = record /\ done.pc \in {"next", "end"}
      /\ failed.dep = cmd.dep /\ failed.mem = Held(record) /\ failed.pc \in {"fail", "end"}
  BY <1>2 DEF IsCommand
<1> HIDE DEF done, failed
<1>8. Aware(done) /\ Aware(failed)
  BY <1>2, <1>6, <1>7, HeldSees DEF Aware
<1> QED  BY <1>1, <1>2, <1>6, <1>8, WriteSees

LEMMA FenceSees ==
  ASSUME SightInv, LaunchInv, FenceInv, Calm, AnswersCount', Fence
  PROVE  SightInv'
<1> DEFINE attempt == IF cmd.op = "create" THEN 0 ELSE cmd.mem.removals + (IF cmd.approval THEN 1 ELSE 0)
           step == Step(Planned, attempt)
           record == [Fenced(cmd.mem) EXCEPT !.steps = Append(@, step), !.removals = attempt]
           place == Len(record.steps)
           done == [cmd EXCEPT !.mem = record, !.pc = "fenced", !.fence = place, !.approval = FALSE]
           failed == [Failing(record) EXCEPT !.fence = place]
<1>1. cmd # None /\ Write(cmd.dep, record, done, failed)
  BY DEF Fence, At
<1>2. /\ IsCommand(cmd) /\ cmd.dep \in Existing /\ Shaped(cmd.mem, cmd.dep) /\ Sees(cmd.mem, cmd.dep)
      /\ {"id", "steps", "reuse", "latest"} \subseteq DOMAIN cmd.mem
  BY <1>1, CommandSees
<1>3. IsStep(step) /\ ~step.returned /\ ~step.verified
  BY DEF Step, IsStep
<1> HIDE DEF step
<1>4. /\ record.id = cmd.dep /\ record.steps = Append(cmd.mem.steps, step)
      /\ record.latest = cmd.mem.latest /\ record.reuse = cmd.mem.reuse
      /\ {"id", "steps"} \subseteq DOMAIN record
  BY <1>2 DEF Shaped, Fenced
<1>5. /\ done.dep = cmd.dep /\ done.mem = record /\ done.pc = "fenced"
      /\ failed.dep = cmd.dep /\ failed.mem = Held(record) /\ failed.pc = "fail"
  BY <1>2 DEF IsCommand, Failing
<1> HIDE DEF record, done, failed
<1>6. Shaped(record, cmd.dep) /\ LastStep(record) = step
  <2>1. /\ IsSeq(cmd.mem.steps) /\ DOMAIN cmd.mem.steps = 1..Len(cmd.mem.steps) /\ Len(cmd.mem.steps) \in Nat
    BY <1>2, SeqFacts DEF Shaped
  <2>2. /\ IsSeq(record.steps) /\ Len(record.steps) = Len(cmd.mem.steps) + 1
        /\ DOMAIN record.steps = 1..(Len(cmd.mem.steps) + 1)
        /\ \A i \in DOMAIN cmd.mem.steps : record.steps[i] = cmd.mem.steps[i]
        /\ record.steps[Len(cmd.mem.steps) + 1] = step
    BY <1>4, <2>1, SeqAdd
  <2>3. \A i \in DOMAIN record.steps : IsStep(record.steps[i])
    BY <1>2, <1>3, <2>1, <2>2 DEF Shaped
  <2> QED  BY <1>4, <2>2, <2>3 DEF Shaped, LastStep
<1>7. IsConsistent(record) => Sees(record, cmd.dep)
  BY <1>2, <1>3, <1>4, AppendedSees
<1>8. (IsConsistent(record) => Aware(done)) /\ Aware(failed)
  BY <1>2, <1>3, <1>5, <1>6, <1>7, HeldSees DEF Aware
<1> QED  BY <1>1, <1>2, <1>6, <1>7, <1>8, WriteSees

(* A child that starts may call for the step that was fenced, of which nothing  *)
(* has been concluded.                                                       *)
LEMMA UnspawnedSees ==
  ASSUME NEW r, NEW d, NEW e, NEW fence, IsConsistent(r), Shaped(r, d), Sees(r, d),
         \A x, i : <<x, i>> # <<e, fence>> =>
           (Traceless(x, i) => Traceless(x, i)') /\ (Answered(x, i) => Answered(x, i)'),
         d = e => fence \in DOMAIN r.steps /\ ~r.steps[fence].returned
  PROVE  Sees(r, d)'
<1>1. \A i \in DOMAIN r.steps : r.steps[i].returned => Answered(d, i)'
  BY DEF Sees
<1>2. ASSUME NEW key, Returned(r, key)
      PROVE  <<d, StepOf(r, key)>> # <<e, fence>>
  BY <1>2 DEF Returned
<1>3. \A i \in DOMAIN r.steps : r.steps[i].verified =>
        \A made \in Undoes(r.steps[i].action) \cap RESOURCES : Traceless(d, StepOf(r, made))'
  BY <1>2, ClaimsReturned DEF Sees
<1>4. r.latest # None =>
        \A key \in DOMAIN r.latest : Owned(r, key) /\ r.latest[key] = "absent" => Traceless(d, StepOf(r, key))'
  BY <1>2, ClaimsReturned DEF Sees, Absences
<1> QED  BY <1>1, <1>3, <1>4 DEF Sees, Absences

LEMMA SpawnSees ==
  ASSUME SightInv, ParsedInv, LaunchInv, FenceInv, Spawn
  PROVE  SightInv'
<1> DEFINE child == [dep |-> cmd.dep, step |-> cmd.fence, phase |-> "spawned", outcome |-> "none"]
<1>1. /\ cmd # None /\ cmd.pc = "fenced" /\ UNCHANGED <<disk, objects, flight>> /\ cmd' = To("call")
      /\ children' = children \cup {child}
  BY DEF Spawn, At
<1>2. /\ IsCommand(cmd) /\ Knows(cmd) /\ Aware(cmd) /\ cmd.dep \in Existing /\ Shaped(cmd.mem, cmd.dep)
      /\ Sees(cmd.mem, cmd.dep)
  BY <1>1, CommandSees
<1>3. /\ disk[cmd.dep].steps = cmd.mem.steps /\ cmd.fence \in DOMAIN cmd.mem.steps
      /\ ~cmd.mem.steps[cmd.fence].returned
  BY <1>1, <1>2, SeqFacts DEF Knows, Aware, Shaped, LastStep
<1>4. \A d, i : <<d, i>> # <<cmd.dep, cmd.fence>> =>
        (Traceless(d, i) => Traceless(d, i)') /\ (Answered(d, i) => Answered(d, i)')
  BY <1>1 DEF Traceless, Answered, Traces, Id, MayCall
<1>5. ASSUME NEW d \in Existing
      PROVE  Sees(disk[d], d)' /\ Directed(disk[d])
  <2>1. IsConsistent(disk[d]) /\ Shaped(disk[d], d) /\ Sees(disk[d], d) /\ Directed(disk[d])
    BY DEF ParsedInv, LaunchInv, RecordsFit, SightInv, RecordsSee
  <2>2. PICK r, e, fence : r = disk[d] /\ e = cmd.dep /\ fence = cmd.fence
    OBVIOUS
  <2>3. /\ IsConsistent(r) /\ Shaped(r, d) /\ Sees(r, d)
        /\ d = e => fence \in DOMAIN r.steps /\ ~r.steps[fence].returned
        /\ \A x, i : <<x, i>> # <<e, fence>> =>
             (Traceless(x, i) => Traceless(x, i)') /\ (Answered(x, i) => Answered(x, i)')
    BY <1>3, <1>4, <2>1, <2>2
  <2>4. Sees(r, d)'
    BY <2>3, UnspawnedSees
  <2> QED  BY <1>1, <2>1, <2>2, <2>4
<1>6. RecordsSee'
  BY <1>1, <1>5 DEF RecordsSee, Existing, Directed
<1>7. PICK k : k = To("call")
  OBVIOUS
<1>8. k.mem = cmd.mem /\ k.dep = cmd.dep /\ k.pc = "call"
  BY <1>2, <1>7, ToKnows
<1>9. Sees(k.mem, k.dep)'
  <2>1. IsConsistent(k.mem)
    BY <1>1, <1>8 DEF ParsedInv
  <2>2. PICK fence : fence = cmd.fence
    OBVIOUS
  <2> QED  BY <1>2, <1>3, <1>4, <1>8, <2>1, <2>2, UnspawnedSees
<1>10. Aware(cmd)'
  BY <1>1, <1>7, <1>8, <1>9 DEF Aware
<1>11. AnswersCount'
  <2>1. children = {}
    BY <1>1, CommandHasShape DEF MayHaveChild
  <2> QED  BY <1>1, <2>1 DEF AnswersCount
<1> QED  BY <1>6, <1>10, <1>11 DEF SightInv

-----------------------------------------------------------------------------
(* Writes to the record of the predecessor, moves and starts.               *)

LEMMA PredecessorSees ==
  ASSUME SightInv, LaunchInv, FenceInv, Calm, AnswersCount', cmd # None, cmd.mem.reuse # None,
         NEW record, record \in {Reserve(disk[cmd.mem.previous], cmd.dep), Complete(disk[cmd.mem.previous])},
         NEW done, done.mem = cmd.mem, done.dep = cmd.dep, done.pc \notin {"reconcile", "fenced"},
         NEW failed, failed.mem = cmd.mem, failed.dep = cmd.dep, failed.pc \notin {"reconcile", "fenced"},
         Write(disk[cmd.mem.previous].id, record, done, failed)
  PROVE  SightInv'
<1>1. PICK e : e = cmd.mem.previous
  OBVIOUS
<1>2. IsCommand(cmd) /\ Sees(cmd.mem, cmd.dep)
  BY CommandSees
<1>3. e \in Existing /\ {"reuse", "latest"} \subseteq DOMAIN disk[e]
  BY <1>1, <1>2 DEF IsCommand, IsRecord, FenceInv, DiskShape
<1>4. Shaped(disk[e], e) /\ Shaped(record, e) /\ record.steps = disk[e].steps
  BY <1>1, <1>3, PredecessorFits
<1>5. /\ {"id", "steps"} \subseteq DOMAIN record /\ record.id = disk[e].id
      /\ record.latest = disk[e].latest /\ record.reuse = disk[e].reuse
  <2>1. CASE record = Reserve(disk[e], cmd.dep)
    BY <1>3, <1>4, <2>1 DEF Reserve, Shaped
  <2>2. CASE record = Complete(disk[e])
    BY <1>3, <1>4, <2>2 DEF Complete, Shaped
  <2> QED  BY <1>1, <2>1, <2>2
<1>6. Sees(record, e)
  <2>1. Sees(disk[e], e)
    BY <1>3 DEF SightInv, RecordsSee
  <2> QED  BY <1>4, <1>5, <2>1, SameStepsSee
<1>7. Write(e, record, done, failed)
  BY <1>1, <1>4 DEF Shaped
<1>8. Aware(done) /\ Aware(failed)
  BY <1>2 DEF Aware
<1> QED  BY <1>3, <1>4, <1>6, <1>7, <1>8, WriteSees

LEMMA MoveSees ==
  ASSUME SightInv, LaunchInv, FenceInv, Calm, AnswersCount', cmd # None, UNCHANGED disk,
         NEW k, cmd' = k, k.mem = cmd.mem, k.dep = cmd.dep, k.pc \notin {"reconcile", "fenced"}
  PROVE  SightInv'
<1>1. Aware(k)
  BY CommandSees DEF Aware
<1> QED  BY <1>1, StillRecordsSee, CommandLeftSees

LEMMA SettlingSees ==
  ASSUME SightInv, LaunchInv, FenceInv, Calm, AnswersCount', ReservePrevious \/ Settle
  PROVE  SightInv'
<1> DEFINE previous == disk[cmd.mem.previous]
           failed == IF cmd.op = "create" THEN [cmd EXCEPT !.pc = "fail", !.outcome = "uncertain"] ELSE To("end")
<1>1. cmd # None /\ cmd.pc \in {"reserve", "settle"}
  BY DEF ReservePrevious, Settle, At
<1>2. IsCommand(cmd) /\ cmd.mem.reuse # None
  BY <1>1, CommandSees DEF IsCommand
<1>3. CASE ReservePrevious
  <2>1. Write(previous.id, Reserve(previous, cmd.dep), To("key"), To("end"))
    BY <1>3 DEF ReservePrevious
  <2>2. /\ To("key").mem = cmd.mem /\ To("key").dep = cmd.dep /\ To("key").pc = "key"
        /\ To("end").mem = cmd.mem /\ To("end").dep = cmd.dep /\ To("end").pc = "end"
    BY <1>2, ToKnows
  <2> QED  BY <1>1, <1>2, <2>1, <2>2, PredecessorSees
<1>4. CASE Settle
  <2>1. failed.mem = cmd.mem /\ failed.dep = cmd.dep /\ failed.pc \in {"fail", "end"}
    BY <1>2 DEF IsCommand, To
  <2>2. cmd.pc = "settle"
    BY <1>4 DEF Settle, At
  <2>3. CASE Write(previous.id, Reserve(previous, cmd.dep), cmd, failed)
    <3> HIDE DEF failed
    <3> QED  BY <1>1, <1>2, <2>1, <2>2, <2>3, PredecessorSees
  <2>4. CASE Write(previous.id, Complete(previous), cmd, failed)
    <3> HIDE DEF failed
    <3> QED  BY <1>1, <1>2, <2>1, <2>2, <2>4, PredecessorSees
  <2>5. CASE cmd' = To(IF cmd.op = "create" THEN "next" ELSE "end") /\ UNCHANGED disk
    <3>1. PICK pc \in {"next", "end"} : cmd' = To(pc)
      BY <2>5
    <3> QED  BY <1>1, <1>2, <2>5, <3>1, ToKnows, MoveSees
  <2> QED  BY <1>4, <2>3, <2>4, <2>5 DEF Settle
<1> QED  BY <1>3, <1>4

LEMMA RecordAbandonmentSees ==
  ASSUME SightInv, LaunchInv, FenceInv, Calm, AnswersCount', RecordAbandonment
  PROVE  SightInv'
<1> DEFINE record == [cmd.mem EXCEPT !.abandoned = TRUE]
           done == [cmd EXCEPT !.mem = record, !.pc = "settle"]
<1>1. cmd # None /\ Write(cmd.dep, record, done, To("end"))
  BY DEF RecordAbandonment, At
<1>2. /\ IsCommand(cmd) /\ cmd.dep \in Existing /\ Shaped(cmd.mem, cmd.dep) /\ Sees(cmd.mem, cmd.dep)
      /\ {"id", "steps", "reuse", "latest"} \subseteq DOMAIN cmd.mem
  BY <1>1, CommandSees
<1>3. /\ {"id", "steps"} \subseteq DOMAIN record /\ record.id = cmd.mem.id /\ record.steps = cmd.mem.steps
      /\ record.latest = cmd.mem.latest /\ record.reuse = cmd.mem.reuse
  BY <1>2, FieldsKept
<1>4. Shaped(record, cmd.dep) /\ Sees(record, cmd.dep)
  BY <1>2, <1>3, SameStepsFit, SameStepsSee
<1>5. done.dep = cmd.dep /\ done.mem = record /\ done.pc = "settle"
  BY <1>2 DEF IsCommand
<1>6. To("end").mem = cmd.mem /\ To("end").dep = cmd.dep /\ To("end").pc = "end"
  BY <1>2, ToKnows
<1> HIDE DEF record, done
<1>7. Aware(done) /\ Aware(To("end"))
  BY <1>2, <1>4, <1>5, <1>6 DEF Aware
<1> QED  BY <1>1, <1>2, <1>4, <1>7, WriteSees

LEMMA MovingSees ==
  ASSUME SightInv, LaunchInv, FenceInv, Calm, AnswersCount', Decide \/ Cancel \/ Finish \/ CallBreaks
  PROVE  SightInv'
<1>1. cmd # None /\ UNCHANGED disk
  BY DEF Decide, Cancel, Finish, CallBreaks, At
<1>2. IsCommand(cmd)
  BY <1>1, CommandSees
<1>3. cmd'.mem = cmd.mem /\ cmd'.dep = cmd.dep
      /\ cmd'.pc \in {"next", "health", "end", "approve", "abandon", "fail"}
  BY <1>2 DEF Decide, Cancel, Finish, CallBreaks, To, IsCommand
<1>4. PICK k : cmd' = k
  OBVIOUS
<1> QED  BY <1>1, <1>3, <1>4, MoveSees

LEMMA EmptySees ==
  ASSUME NEW id, NEW previous, NEW volume, NEW d
  PROVE  LET r == Deployment(id, previous, volume) IN Sees(r, d) /\ Directed(r)
<1>1. PICK r : r = Deployment(id, previous, volume)
  OBVIOUS
<1>2. r.steps = <<>> /\ r.latest = None
  BY <1>1 DEF Deployment
<1>3. DOMAIN r.steps = {}
  BY <1>2, EmptySteps
<1> QED  BY <1>1, <1>2, <1>3 DEF Sees, Directed

LEMMA NewRecordSees ==
  ASSUME SightInv, LaunchInv, Calm, AnswersCount',
         NEW d, NEW record, Sees(record, d), Directed(record), disk' = Recorded(d, record),
         NEW k, cmd' = k, k.dep = d, k.mem = record, k.pc \notin {"reconcile", "fenced"}
  PROVE  SightInv'
<1>1. /\ Existing' = Existing \cup {d}
      /\ \A e \in Existing' : disk'[e] = IF e = d THEN record ELSE disk[e]
  BY DEF Recorded, Existing
<1>2. ASSUME NEW e \in Existing'
      PROVE  Sees(disk[e], e)' /\ Directed(disk'[e])
  <2>1. PICK r : r = disk'[e]
    OBVIOUS
  <2>2. Sees(r, e) /\ Directed(r)
    BY <1>1, <2>1 DEF SightInv, RecordsSee
  <2> QED  BY <2>1, <2>2, CalmSees
<1>3. RecordsSee'
  BY <1>2 DEF RecordsSee
<1>4. Aware(k)
  BY DEF Aware
<1> QED  BY <1>3, <1>4, CommandLeftSees

(* Steps that leave the records and the command alone.                      *)
LEMMA StillSees ==
  ASSUME SightInv, Calm, AnswersCount', UNCHANGED disk, cmd' \in {cmd, None}
  PROVE  SightInv'
<1>1. CASE cmd # None /\ cmd' = cmd
  <2>1. PICK k : k = cmd
    OBVIOUS
  <2>2. cmd' = k /\ Aware(k)
    BY <1>1, <2>1 DEF SightInv
  <2> QED  BY <2>2, StillRecordsSee, CommandLeftSees
<1>2. CASE cmd' = None
  BY <1>2, StillRecordsSee DEF SightInv
<1> QED  BY <1>1, <1>2

LEMMA BeginSees ==
  ASSUME SightInv, FenceInv, Ready, NEW d \in Existing, NEW op, NEW pc \in {"observe", "settle"},
         Begin(Command(op, d, disk[d], pc))
  PROVE  SightInv'
<1>1. PICK k : k = Command(op, d, disk[d], pc)
  OBVIOUS
<1>2. k.dep = d /\ k.mem = disk[d] /\ k.pc = pc
  BY <1>1, CommandBegins
<1>3. children' = {} /\ UNCHANGED <<disk, objects, flight>> /\ cmd' = k
  BY <1>1, ReadyHasNoChild DEF Begin
<1>4. Calm
  BY <1>3, QuietCalms DEF Traces
<1>5. AnswersCount'
  BY <1>3 DEF AnswersCount
<1>6. Aware(k)
  BY <1>2 DEF Aware, SightInv, RecordsSee
<1> QED  BY <1>3, <1>4, <1>5, <1>6, StillRecordsSee, CommandLeftSees

LEMMA CreationSees ==
  ASSUME SightInv, LaunchInv, children' = {}, UNCHANGED <<objects, flight>>,
         NEW previous, NEW volume, NEW record, record = Deployment(New, previous, volume),
         disk' = Recorded(New, record),
         NEW k, cmd' = k, k.dep = New, k.mem = record, k.pc \notin {"reconcile", "fenced"}
  PROVE  SightInv'
<1>1. Calm
  BY QuietCalms DEF Traces
<1>2. AnswersCount'
  BY DEF AnswersCount
<1>3. PICK d : d = New
  OBVIOUS
<1>4. Sees(record, d) /\ Directed(record)
  BY EmptySees
<1> QED  BY <1>1, <1>2, <1>3, <1>4, NewRecordSees

LEMMA StartsSee ==
  ASSUME SightInv, LaunchInv, FenceInv, Starts
  PROVE  SightInv'
<1>1. ASSUME NEW previous, CreateNew(previous)
      PROVE  SightInv'
  <2>1. PICK record : record = Deployment(New, previous, None)
    OBVIOUS
  <2>2. PICK k : k = Command("create", New, record, "key")
    OBVIOUS
  <2>3. /\ children' = {} /\ UNCHANGED <<objects, flight>>
        /\ disk' = Recorded(New, record) /\ cmd' = k
    BY <1>1, <2>1, <2>2, ReadyHasNoChild DEF CreateNew
  <2>4. k.dep = New /\ k.mem = record /\ k.pc = "key"
    BY <2>2, CommandBegins
  <2> QED  BY <2>1, <2>3, <2>4, CreationSees
<1>2. ASSUME NEW d \in Existing, CreateReuse(d) \/ RemoveHost(d) \/ Abandon(d) \/ Inspect(d) \/ HandOff(d)
      PROVE  SightInv'
  <2>1. Ready /\ \E op : \E pc \in {"observe", "settle"} : Begin(Command(op, d, disk[d], pc))
    BY <1>2 DEF CreateReuse, RemoveHost, Abandon, Inspect, HandOff
  <2> QED  BY <2>1, BeginSees
<1> QED  BY <1>1, <1>2 DEF Starts

LEMMA ApproveSees ==
  ASSUME SightInv, LaunchInv, FenceInv, Approve
  PROVE  SightInv'
<1>1. PICK record : record = Deployment(New, cmd.dep, Reusable(disk[cmd.dep]))
  OBVIOUS
<1>2. PICK k : k = [cmd EXCEPT !.op = "create", !.dep = New, !.mem = record, !.pc = "reserve"]
  OBVIOUS
<1>3. /\ cmd # None /\ cmd.pc = "approve" /\ UNCHANGED <<children, objects, flight>>
      /\ disk' = Recorded(New, record) /\ cmd' = k
  BY <1>1, <1>2 DEF Approve, At
<1>4. children' = {} /\ IsCommand(cmd)
  BY <1>3, CommandHasShape DEF MayHaveChild
<1>5. k.dep = New /\ k.mem = record /\ k.pc = "reserve"
  BY <1>2, <1>4 DEF IsCommand
<1> QED  BY <1>1, <1>3, <1>4, <1>5, CreationSees

(* The coordinator makes no call possible but by starting a child.          *)
LEMMA CoordinatesCalm ==
  ASSUME SightInv, FenceInv, LaunchInv, Coordinates, ~Spawn
  PROVE  Calm /\ AnswersCount'
<1>1. flight' = flight /\ Traces' = Traces
  BY DEF Coordinates, Approve, ReservePrevious, FenceKey, KeyGenerated, Fence, Cancel, Finish, Retain, Reply,
         CallBreaks, FenceObserve, Look, Reconcile, Decide, FenceHealth, Probe, RecordHealth,
         RecordAbandonment, Settle, Close, End, Traces
<1>2. CASE children' \subseteq children
  <2>1. Calm
    BY <1>1, <1>2, QuietCalms
  <2> QED  BY <1>2, <2>1, QuietAnswers
<1>3. ASSUME NEW c \in children, Become(c, "done", "none")
      PROVE  Calm /\ AnswersCount'
  <2>1. PICK e : e = [c EXCEPT !.phase = "done", !.outcome = "none"]
    OBVIOUS
  <2>2. children' = (children \ {c}) \cup {e} /\ e.phase = "done"
    BY <1>3, <2>1 DEF Become, FenceInv, ChildShape
  <2>3. Calm
    BY <1>1, <2>2, QuietCalms DEF MayCall
  <2> QED  BY <2>2, <2>3, QuietAnswers
<1>4. children' \subseteq children \/ \E c \in children : Become(c, "done", "none")
  BY DEF Coordinates, Approve, ReservePrevious, FenceKey, KeyGenerated, Fence, Cancel, Finish, Retain, Reply,
         CallBreaks, FenceObserve, Look, Reconcile, Decide, FenceHealth, Probe, RecordHealth,
         RecordAbandonment, Settle, Close, End
<1> QED  BY <1>2, <1>3, <1>4

LEMMA CoordinatesSee ==
  ASSUME SightInv, ParsedInv, LaunchInv, FenceInv, Coordinates
  PROVE  SightInv'
<1>1. CASE Spawn
  BY <1>1, SpawnSees
<1>2. CASE Approve
  BY <1>2, ApproveSees
<1>3. ASSUME ~Spawn PROVE Calm /\ AnswersCount'
  BY <1>3, CoordinatesCalm
<1>4. CASE ~Spawn /\ (FenceKey \/ KeyGenerated \/ FenceObserve \/ FenceHealth \/ RecordHealth \/ Probe)
  BY <1>3, <1>4, PersistingSees
<1>5. CASE ~Spawn /\ (Look \/ Reconcile \/ Fence \/ Close)
  BY <1>3, <1>5, LookSees, ReconcileSees, FenceSees, CloseSees
<1>6. CASE ~Spawn /\ (ReservePrevious \/ Settle \/ RecordAbandonment)
  BY <1>3, <1>6, SettlingSees, RecordAbandonmentSees
<1>7. CASE ~Spawn /\ (Decide \/ Cancel \/ Finish \/ CallBreaks)
  BY <1>3, <1>7, MovingSees
<1>8. CASE ~Spawn /\ \E c \in children : Retain(c) \/ Reply(c)
  BY <1>3, <1>8, RetainSees, ReplySees
<1>9. CASE ~Spawn /\ End
  BY <1>3, <1>9, StillSees DEF End
<1> QED  BY <1>1, <1>2, <1>4, <1>5, <1>6, <1>7, <1>8, <1>9 DEF Coordinates

-----------------------------------------------------------------------------
(* The child and the provider.                                              *)

LEMMA BecomeSees ==
  ASSUME SightInv, FenceInv, NEW c \in children, NEW phase, NEW outcome, Become(c, phase, outcome),
         phase \in {"spawned", "authorised"} => MayCall(c), phase # "answered",
         UNCHANGED <<disk, cmd, objects, flight>>
  PROVE  SightInv'
<1>1. PICK e : e = [c EXCEPT !.phase = phase, !.outcome = outcome]
  OBVIOUS
<1>2. children' = (children \ {c}) \cup {e} /\ e.phase = phase /\ e.dep = c.dep /\ e.step = c.step
  BY <1>1 DEF Become, FenceInv, ChildShape
<1>3. Traces' = Traces
  BY DEF Traces
<1>4. Calm
  BY <1>2, <1>3, QuietCalms DEF MayCall
<1>5. AnswersCount'
  BY <1>2, <1>4, QuietAnswers
<1> QED  BY <1>4, <1>5, StillSees

(* A child that makes its call was free to make it.                         *)
LEMMA DispatchCalms ==
  ASSUME LaunchInv, FenceInv, NEW c \in children, Dispatch(c)
  PROVE  Calm /\ \A e \in children' : e.phase = "answered" => e \in children
<1>1. PICK call : call = Request(disk[c.dep], c.step)
  OBVIOUS
<1>2. /\ c.phase = "authorised" /\ flight' = flight \cup {call} /\ Become(c, "asked", "none")
      /\ UNCHANGED <<disk, cmd, objects>>
  BY <1>1 DEF Dispatch
<1>3. c.dep \in Existing /\ disk[c.dep].id = c.dep
  BY DEF FenceInv, ChildShape, LaunchInv, RecordsFit, Shaped
<1>4. Id(call) = <<c.dep, c.step>>
  BY <1>1, <1>3 DEF Request, Id
<1>5. PICK e : e = [c EXCEPT !.phase = "asked", !.outcome = "none"]
  OBVIOUS
<1>6. children' = (children \ {c}) \cup {e} /\ e.phase = "asked"
  BY <1>2, <1>5 DEF Become, FenceInv, ChildShape
<1>7. MayCall(c)
  BY <1>2 DEF MayCall
<1>8. ASSUME NEW d, NEW i, Answered(d, i)
      PROVE  Answered(d, i)'
  BY <1>2, <1>4, <1>6, <1>7, <1>8 DEF Answered, MayCall, Id
<1>9. ASSUME NEW d, NEW i, Traceless(d, i)
      PROVE  Traceless(d, i)'
  BY <1>2, <1>4, <1>6, <1>7, <1>9 DEF Traceless, Traces, MayCall, Id
<1>10. Calm
  BY <1>8, <1>9 DEF Calm
<1> QED  BY <1>6, <1>10

LEMMA DispatchSees ==
  ASSUME SightInv, LaunchInv, FenceInv, NEW c \in children, Dispatch(c)
  PROVE  SightInv'
<1>1. Calm /\ UNCHANGED <<disk, cmd>>
  BY DispatchCalms DEF Dispatch
<1>2. AnswersCount'
  BY <1>1, DispatchCalms, QuietAnswers
<1> QED  BY <1>1, <1>2, StillSees

(* A call that ends is never under way again.                               *)
LEMMA EndedCallCalms ==
  ASSUME LaunchInv, FenceInv, NEW call \in flight, UNCHANGED <<disk, cmd>>,
         flight' = flight \ {call}, objects' \subseteq objects \cup {call},
         NEW phase \in {"answered", "failed"}, NEW outcome, Reported(call, phase, outcome)
  PROVE  /\ Calm
         /\ \A o \in flight' : Id(o) # Id(call)
         /\ \A c, e \in children' : c = e
         /\ \A e \in children' : \E c \in children :
              /\ e.dep = c.dep /\ e.step = c.step
              /\ e = c \/ (e.phase = phase /\ <<c.dep, c.step>> = Id(call))
<1>1. \A o \in flight' : Id(o) # Id(call)
  BY DEF LaunchInv, TracesFit, Traces
<1> DEFINE changed(c) == IF c \in Waiting(call) THEN [c EXCEPT !.phase = phase, !.outcome = outcome] ELSE c
<1>2. children' = {changed(c) : c \in children}
  BY DEF Reported
<1>3. ASSUME NEW c \in children
      PROVE  /\ changed(c).dep = c.dep /\ changed(c).step = c.step
             /\ changed(c) = c \/ (changed(c).phase = phase /\ <<c.dep, c.step>> = Id(call))
  BY DEF FenceInv, ChildShape, Waiting
<1> HIDE DEF changed
<1>4. \A e \in children' : \E c \in children :
        /\ e.dep = c.dep /\ e.step = c.step
        /\ e = c \/ (e.phase = phase /\ <<c.dep, c.step>> = Id(call))
  BY <1>2, <1>3
<1>5. flight' \subseteq flight /\ Traces' \subseteq Traces
  BY DEF Traces
<1>6. \A e \in children' : MayCall(e) => \E c \in children : MayCall(c) /\ c.dep = e.dep /\ c.step = e.step
  BY <1>4 DEF MayCall
<1>7. Calm
  BY <1>5, <1>6, QuietCalms
<1>8. \A c, e \in children' : c = e
  BY <1>2 DEF LaunchInv, ChildrenFit
<1> QED  BY <1>1, <1>4, <1>7, <1>8

LEMMA EndedCallSees ==
  ASSUME SightInv, LaunchInv, FenceInv, NEW call \in flight, UNCHANGED <<disk, cmd>>,
         flight' = flight \ {call}, objects' \subseteq objects \cup {call},
         NEW phase \in {"answered", "failed"}, NEW outcome, Reported(call, phase, outcome)
  PROVE  SightInv'
<1>1. /\ Calm
      /\ \A o \in flight' : Id(o) # Id(call)
      /\ \A c, e \in children' : c = e
      /\ \A e \in children' : \E c \in children :
           /\ e.dep = c.dep /\ e.step = c.step
           /\ e = c \/ (e.phase = phase /\ <<c.dep, c.step>> = Id(call))
  BY EndedCallCalms
<1>2. ASSUME NEW e \in children', e.phase = "answered"
      PROVE  Answered(e.dep, e.step)'
  <2>1. PICK c \in children :
          /\ e.dep = c.dep /\ e.step = c.step
          /\ e = c \/ (e.phase = phase /\ <<c.dep, c.step>> = Id(call))
    BY <1>1
  <2>2. CASE e = c
    <3>1. Answered(e.dep, e.step)
      BY <1>2, <2>2 DEF SightInv, AnswersCount
    <3> QED  BY <1>1, <3>1 DEF Calm
  <2>3. CASE <<c.dep, c.step>> = Id(call)
    <3>1. \A x \in children' : x.phase = "answered"
      BY <1>1, <1>2
    <3> QED  BY <1>1, <2>1, <2>3, <3>1 DEF Answered, MayCall, Id
  <2> QED  BY <2>1, <2>2, <2>3
<1>3. AnswersCount'
  BY <1>2 DEF AnswersCount
<1> QED  BY <1>1, <1>3, StillSees

LEMMA CallsSee ==
  ASSUME SightInv, LaunchInv, FenceInv, Calls
  PROVE  SightInv'
<1>1. ASSUME NEW c \in children, Authorise(c) \/ DoNotAttempt(c) \/ GiveUp(c)
      PROVE  SightInv'
  <2>1. CASE Authorise(c)
    BY <2>1, BecomeSees DEF Authorise, MayCall
  <2>2. CASE DoNotAttempt(c)
    BY <2>2, BecomeSees DEF DoNotAttempt
  <2>3. CASE GiveUp(c)
    BY <2>3, BecomeSees DEF GiveUp
  <2> QED  BY <1>1, <2>1, <2>2, <2>3
<1>2. ASSUME NEW c \in children, Leave(c)
      PROVE  SightInv'
  <2>1. children' \subseteq children /\ UNCHANGED <<disk, cmd, objects, flight>> /\ Traces' = Traces
    BY <1>2 DEF Leave, Traces
  <2>2. Calm
    BY <2>1, QuietCalms
  <2> QED  BY <2>1, <2>2, QuietAnswers, StillSees
<1>3. ASSUME NEW call \in flight, Land(call)
      PROVE  SightInv'
  <2>1. objects' \subseteq objects \cup {call}
    BY <1>3 DEF Land, Effect
  <2> QED  BY <1>3, <2>1, EndedCallSees DEF Land
<1>4. ASSUME NEW call \in flight, Refuse(call)
      PROVE  SightInv'
  BY <1>4, EndedCallSees DEF Refuse
<1> QED  BY <1>1, <1>2, <1>3, <1>4, DispatchSees DEF Calls

(* What each record, and the record in memory, lets its reader conclude was   *)
(* seen and stays true: a step that was answered has no call under way, and a  *)
(* resource whose absence was seen never comes back (deployer.ts, reconcile).  *)
THEOREM SightInvariant == Spec => []SightInv
<1>1. Init => SightInv
  <2> SUFFICES ASSUME Init PROVE SightInv
    OBVIOUS
  <2>1. DOMAIN disk = {} /\ cmd = None /\ children = {}
    BY EmptySteps, Zenon DEF Init
  <2> QED  BY <2>1 DEF SightInv, RecordsSee, AnswersCount, Existing
<1>2. SightInv /\ ParsedInv /\ LaunchInv /\ FenceInv /\ [Next]_vars => SightInv'
  <2> SUFFICES ASSUME SightInv, ParsedInv, LaunchInv, FenceInv, [Next]_vars
               PROVE  SightInv'
    OBVIOUS
  <2>1. CASE Crash \/ ClearLock \/ Drift \/ UNCHANGED vars
    <3>1. UNCHANGED <<disk, children, flight>> /\ cmd' \in {cmd, None} /\ Traces' \subseteq Traces
      BY <2>1 DEF Crash, ClearLock, Drift, vars, Traces
    <3>2. Calm
      BY <3>1, QuietCalms
    <3> QED  BY <3>1, <3>2, QuietAnswers, StillSees
  <2> QED  BY <2>1, StartsSee, CoordinatesSee, CallsSee DEF Next
<1> QED  BY <1>1, <1>2, FenceInvariant, LaunchInvariant, RecordsParse, PTL DEF Spec

-----------------------------------------------------------------------------
(* Nothing is forgotten.                                                    *)

LEMMA RankIncreases ==
  ASSUME NEW n \in Nat, NEW S \in SUBSET (1..n), NEW i \in S, NEW j \in S, i < j
  PROVE  Rank(S, i) # Rank(S, j)
<1> DEFINE below == {q \in S : q <= i}
           upto == {q \in S : q <= j}
<1>1. i \in Nat /\ j \in Nat /\ \A q \in S : q \in Nat
  OBVIOUS
<1>2. IsFiniteSet(1..n)
  <2>1. 1 \in Int /\ n \in Int
    OBVIOUS
  <2> QED  BY <2>1, FS_Interval
<1>3. IsFiniteSet(upto)
  <2>1. upto \subseteq 1..n
    OBVIOUS
  <2> QED  BY <1>2, <2>1, FS_Subset
<1>4. below \subseteq upto /\ j \in upto /\ j \notin below
  <2>1. ~(j <= i) /\ j <= j
    BY <1>1
  <2>2. \A q \in S : q <= i => q <= j
    BY <1>1
  <2> QED  BY <2>1, <2>2
<1>5. Cardinality(below) < Cardinality(upto)
  <2> HIDE DEF below, upto
  <2>1. IsFiniteSet(below) /\ Cardinality(below) <= Cardinality(upto)
        /\ (Cardinality(below) = Cardinality(upto) => below = upto)
    BY <1>3, <1>4, FS_Subset
  <2>2. Cardinality(below) \in Nat /\ Cardinality(upto) \in Nat
    BY <1>3, <2>1, FS_CardinalityType
  <2> QED  BY <1>4, <2>1, <2>2
<1>6. Rank(S, i) = Cardinality(below) /\ Rank(S, j) = Cardinality(upto)
  BY DEF Rank
<1>7. Cardinality(below) \in Nat /\ Cardinality(upto) \in Nat
  <2>1. IsFiniteSet(below)
    BY <1>3, <1>4, FS_Subset
  <2> QED  BY <1>3, <2>1, FS_CardinalityType
<1> HIDE DEF below, upto
<1> QED  BY <1>5, <1>6, <1>7

(* A resource is made by one step, but for launches that were declined, and a  *)
(* volume is attached by one.                                                *)
LEMMA NoRepeats ==
  ASSUME NEW r, NEW d, Shaped(r, d), IsConsistent(r), Directed(r),
         NEW i \in DOMAIN r.steps, NEW j \in DOMAIN r.steps, i < j,
         r.steps[i].action \notin Removing, r.steps[j].action = r.steps[i].action
  PROVE  Declined(r.steps[i])
<1>1. IsSeq(r.steps) /\ Len(r.steps) \in Nat /\ DOMAIN r.steps = 1..Len(r.steps)
  BY SeqFacts DEF Shaped
<1>2. CASE r.steps[i].action = "run-instances"
  BY <1>2 DEF IsConsistent, LaunchesOrdered, Launches
<1>3. CASE r.steps[i].action # "run-instances"
  <2>1. i \in CreationsOf(r) /\ j \in CreationsOf(r)
    BY <1>3 DEF CreationsOf, Directed, Declined
  <2>2. PICK p \in CreationPlan(r) :
          r.steps[i].action = CREATIONS[p] /\ Rank(CreationPlan(r), p) = Rank(CreationsOf(r), i)
    BY <2>1 DEF IsConsistent, InPlan
  <2>3. PICK q \in CreationPlan(r) :
          r.steps[j].action = CREATIONS[q] /\ Rank(CreationPlan(r), q) = Rank(CreationsOf(r), j)
    BY <2>1 DEF IsConsistent, InPlan
  <2>4. p = q
    <3>1. p \in 1..15 /\ q \in 1..15 /\ CREATIONS[p] = CREATIONS[q]
      BY <2>2, <2>3 DEF CreationPlan, Creations, CREATIONS
    <3>2. \A x, y \in 1..15 : CREATIONS[x] = CREATIONS[y] => x = y
      BY DEF CREATIONS
    <3> QED  BY <3>1, <3>2
  <2>5. CreationsOf(r) \in SUBSET (1..Len(r.steps))
    BY <1>1 DEF CreationsOf
  <2>6. Rank(CreationsOf(r), i) # Rank(CreationsOf(r), j)
    BY <1>1, <2>1, <2>5, RankIncreases
  <2> QED  BY <2>2, <2>3, <2>4, <2>6
<1> QED  BY <1>2, <1>3

(* What exists or is under way was made by the step that the record names.  *)
LEMMA TraceIsNamed ==
  ASSUME LaunchInv, ParsedInv, SightInv, NEW o \in Traces, o.action \in RESOURCES,
         Unnamed(disk[o.dep]) = {}
  PROVE  /\ o.dep \in Existing
         /\ Returned(disk[o.dep], o.action) /\ StepOf(disk[o.dep], o.action) = o.step
         /\ o.action \in Included
         /\ o.action = "create-volume" => disk[o.dep].reuse = None
<1>1. PICK r, d, i, a : r = disk[o.dep] /\ d = o.dep /\ i = o.step /\ a = o.action
  OBVIOUS
<1>2. /\ d \in Existing /\ i \in DOMAIN r.steps /\ r.steps[i].action = a /\ a \in RESOURCES
      /\ ~Traceless(d, i)
  BY <1>1 DEF LaunchInv, TracesFit, Traceless, Id
<1>3. Shaped(r, d) /\ Truthful(r, d) /\ IsConsistent(r) /\ Directed(r)
  BY <1>1, <1>2 DEF LaunchInv, RecordsFit, ParsedInv, SightInv, RecordsSee
<1>4. ~Declined(r.steps[i]) /\ r.steps[i].returned
  <2>1. ~Refusal(r.steps[i].outcome)
    BY <1>2, <1>3 DEF Truthful
  <2>2. ~IsOpen(r.steps[i])
    BY <1>1, <1>2 DEF Unnamed
  <2>3. r.steps[i].verified => r.steps[i].returned
    BY <1>2, <1>3 DEF IsConsistent, WellFormed
  <2>4. r.steps[i].returned
    BY <2>1, <2>2, <2>3 DEF IsOpen, StateOf
  <2> QED  BY <2>1, <2>4 DEF Declined
<1>5. IsSeq(r.steps) /\ Len(r.steps) \in Nat /\ DOMAIN r.steps = 1..Len(r.steps)
  BY <1>3, SeqFacts DEF Shaped
<1>6. \A j \in DOMAIN r.steps : j > i => r.steps[j].action # r.steps[i].action
  <2>1. ASSUME NEW j \in DOMAIN r.steps, j > i, r.steps[j].action = r.steps[i].action
        PROVE  FALSE
    <3>1. i < j
      BY <1>2, <1>5, <2>1
    <3>2. r.steps[i].action \notin Removing
      BY <1>2, RemovingMakesNothing
    <3> QED  BY <1>2, <1>3, <1>4, <2>1, <3>1, <3>2, NoRepeats
  <2> QED  BY <2>1
<1>7. StepOf(r, a) = i
  BY <1>2, <1>5, <1>6, StepOfLast
<1>8. PICK p \in CreationPlan(r) : a = CREATIONS[p]
  <2>1. i \in CreationsOf(r)
    BY <1>2, <1>3, <1>4, RemovingMakesNothing DEF CreationsOf, Directed
  <2> QED  BY <1>2, <1>3, <2>1 DEF IsConsistent, InPlan
<1>9. a \in Included /\ (a = "create-volume" => r.reuse = None)
  BY <1>8 DEF CreationPlan, Creations
<1>10. Returned(r, a)
  BY <1>2, <1>4, <1>5, <1>7 DEF Returned
<1> QED  BY <1>1, <1>2, <1>7, <1>9, <1>10

(* What is concluded to be gone is gone.                                    *)
LEMMA ReleasedIsGone ==
  ASSUME NEW r, NEW d, Shaped(r, d), Sees(r, d), NEW key, Owned(r, key), Released(r, key)
  PROVE  Traceless(d, StepOf(r, key))
<1>1. Parent(key) = key
  BY DEF Parent, Owned, RESOURCES
<1>2. ASSUME NEW action \in RemovedBy(r, key), Verified(r, action)
      PROVE  Traceless(d, StepOf(r, key))
  <2>1. key \in Undoes(action)
    BY <1>1 DEF RemovedBy, Removers, Undoes
  <2>2. PICK j : j = StepOf(r, action)
    OBVIOUS
  <2>3. j \in DOMAIN r.steps /\ r.steps[j].action = action /\ r.steps[j].verified
    BY <1>2, <2>2, StepOfFound DEF Verified, Shaped
  <2> QED  BY <2>1, <2>3 DEF Sees, Owned
<1>3. CASE r.latest # None /\ key \in DOMAIN r.latest /\ r.latest[key] = "absent"
  BY <1>3 DEF Sees, Absences
<1> QED  BY <1>2, <1>3 DEF Released

(* A record from which no unresolved effect is concluded has left nothing at   *)
(* the provider, and nothing on its way there, but the volume it retains: the   *)
(* account of a deployment's effects is complete, however its calls were lost,  *)
(* late or refused and whatever was deleted behind the CLI's back             *)
(* (observe/facts.ts, effects).                                               *)
THEOREM AwsNothingIsForgotten == Spec => []NothingIsForgotten
<1>1. ASSUME LaunchInv, ParsedInv, SightInv
      PROVE  NothingIsForgotten
  <2>1. SUFFICES ASSUME NEW o \in Traces, o.action \in RESOURCES, Effects(disk[o.dep]) # "outstanding"
                 PROVE  /\ Id(o) = VolumeId(disk[o.dep])
                        /\ Effects(disk[o.dep]) = "retained" \/ HandedOff(disk[o.dep])
    BY DEF NothingIsForgotten, Traces
  <2>2. PICK r, d, a : r = disk[o.dep] /\ d = o.dep /\ a = o.action
    OBVIOUS
  <2>3. Unnamed(r) = {} /\ Unreleased(r) = {} /\ (Retained(r) # {} => Effects(r) = "retained")
    BY <2>1, <2>2 DEF Effects
  <2>4. /\ d \in Existing /\ Returned(r, a) /\ StepOf(r, a) = o.step /\ a \in Included /\ a \in RESOURCES
        /\ a = "create-volume" => r.reuse = None
    BY <1>1, <2>1, <2>2, <2>3, TraceIsNamed
  <2>5. Shaped(r, d) /\ Sees(r, d)
    BY <1>1, <2>2, <2>4 DEF LaunchInv, RecordsFit, SightInv, RecordsSee
  <2>6. ~Released(r, a)
    <3>1. Owned(r, a)
      BY <2>4 DEF Owned, RETAINED
    <3>2. ~Traceless(d, StepOf(r, a))
      BY <2>2, <2>4 DEF Traceless, Id
    <3> QED  BY <2>5, <3>1, <3>2, ReleasedIsGone
  <2>7. a \in Resources(r)
    BY <2>4 DEF Resources
  <2>8. a = "create-volume"
    BY <2>3, <2>6, <2>7 DEF Unreleased, RETAINED
  <2>9. Retained(r) # {} \/ HandedOff(r)
    BY <2>6, <2>7, <2>8 DEF Retained, RETAINED
  <2>10. VolumeId(r) = <<d, o.step>>
    BY <2>4, <2>5, <2>8 DEF VolumeId, Shaped
  <2> QED  BY <2>2, <2>3, <2>9, <2>10 DEF Id
<1> QED  BY <1>1, LaunchInvariant, RecordsParse, SightInvariant, PTL

-----------------------------------------------------------------------------
(* The chain of deployments.  A record that reuses a volume is the next after  *)
(* the one it takes it from, which holds it, was reserved before anything was  *)
(* done for the new one, and hands off only to one that holds it.            *)

Fields ==
  {"id", "previous", "reuse", "key", "termination", "steps", "removals", "implicit", "latest", "health",
   "successor", "abandoned"}
Reuses(d) == d \in Existing /\ disk[d].reuse # None

RecordInChain(d) ==
  /\ DOMAIN disk[d] = Fields
  /\ disk[d].previous = IF d = 1 THEN None ELSE d - 1
  /\ VolumeId(disk[d]) # None => VolumeId(disk[d]) \in (1..d) \X Nat
  /\ disk[d].successor # None =>
       /\ Reuses(d + 1)
       /\ disk[d].successor \in [to : {d + 1}, completed : BOOLEAN]
ReuseInChain(e) ==
  /\ e - 1 \in Existing
  /\ VolumeId(disk[e - 1]) = disk[e].reuse
  /\ HoldsVolume(disk[e - 1])
  /\ disk[e - 1].successor = None => disk[e].steps = <<>>
  /\ HandedOff(disk[e - 1]) => HoldsVolume(disk[e])
  /\ Reuses(e + 1) => HandedOff(disk[e - 1])
InChain(k) ==
  /\ DOMAIN k.mem = Fields
  /\ \A field \in {"id", "previous", "reuse", "successor"} : k.mem[field] = disk[k.dep][field]
  /\ k.pc \notin {"fail", "end"} => k.mem = disk[k.dep]
  /\ k.op \in {"create", "reuse"} => k.dep + 1 \notin Existing
  /\ k.pc = "approve" => k.op = "reuse"
  /\ k.pc = "reserve" => k.op = "create"
  /\ k.mem.reuse # None =>
       /\ k.mem.steps # <<>> \/ (k.op = "create" /\ k.pc \notin {"reserve", "end"})
            => disk[k.dep - 1].successor # None
       /\ k.op = "reuse" => HandedOff(disk[k.dep - 1])
  /\ k.op # "create" =>
       /\ k.pc = "fenced" => LastStep(k.mem).action \in Removing
       /\ \A i \in DOMAIN k.mem.steps :
            k.mem.steps[i].action = "attach-volume" => i \in DOMAIN disk[k.dep].steps
ChainHolds ==
  /\ \A d \in Existing : RecordInChain(d)
  /\ \A e \in Existing : Reuses(e) => ReuseInChain(e)
ChainInv == ChainHolds /\ (cmd # None => InChain(cmd))

(* No attachment made by the deployment is there, under way or to come.     *)
Detached(d) ==
  \A i \in DOMAIN disk[d].steps : disk[d].steps[i].action = "attach-volume" => Traceless(d, i)
AttachInv ==
  /\ \A e \in Existing : Reuses(e) => Detached(e - 1)
  /\ \A o \in Traces : o.action = "attach-volume" => o.on \in {None, VolumeId(disk[o.dep])}
  /\ \A o \in objects : o.action = "attach-volume" => InstanceOf(o.dep) # {}

-----------------------------------------------------------------------------
(* What an accepted write keeps.                                            *)

LEMMA StepsProgress ==
  ASSUME NEW d, NEW r, NEW q, Shaped(r, d), Shaped(q, d), RequireSteps(r, q)
  PROVE  /\ DOMAIN r.steps \subseteq DOMAIN q.steps
         /\ \A i \in DOMAIN r.steps :
              /\ q.steps[i].action = r.steps[i].action /\ q.steps[i].removal = r.steps[i].removal
              /\ r.steps[i].returned => q.steps[i].returned
              /\ r.steps[i].verified => q.steps[i].verified
         /\ \/ DOMAIN q.steps = DOMAIN r.steps
            \/ /\ Len(q.steps) = Len(r.steps) + 1 /\ Front(q.steps) = r.steps /\ RequireNewStep(r, q)
               /\ DOMAIN q.steps = DOMAIN r.steps \cup {Len(r.steps) + 1}
               /\ \A i \in DOMAIN r.steps : q.steps[i] = r.steps[i]
<1> DEFINE before == r.steps
           after == q.steps
<1>1. /\ IsSeq(before) /\ Len(before) \in Nat /\ DOMAIN before = 1..Len(before)
      /\ IsSeq(after) /\ Len(after) \in Nat /\ DOMAIN after = 1..Len(after)
  BY SeqFacts DEF Shaped
<1>2. CASE /\ Len(after) = Len(before)
           /\ \A i \in DOMAIN before :
                IF i < Len(before) THEN before[i] = after[i] ELSE RequireProgress(before[i], after[i])
  <2>1. \A i \in DOMAIN before : before[i] = after[i] \/ RequireProgress(before[i], after[i])
    BY <1>2
  <2> QED  BY <1>1, <1>2, <2>1 DEF RequireProgress
<1>3. CASE Len(after) = Len(before) + 1 /\ Front(after) = before /\ RequireNewStep(r, q)
  <2>1. \A i \in 1..Len(before) : after[i] = before[i]
    BY <1>1, <1>3, FrontKeeps
  <2>2. 1..(Len(before) + 1) = 1..Len(before) \cup {Len(before) + 1}
    BY <1>1
  <2> QED  BY <1>1, <1>3, <2>1, <2>2
<1> QED  BY <1>2, <1>3 DEF RequireSteps

(* The step of an action that is done once stays the same one.              *)
LEMMA StepOfStays ==
  ASSUME NEW d, NEW r, NEW q, Shaped(r, d), Shaped(q, d), RequireSteps(r, q), IsConsistent(q), Directed(q),
         NEW action, action \notin Removing, action # "run-instances", StepOf(r, action) # 0
  PROVE  StepOf(q, action) = StepOf(r, action)
<1>1. PICK i : i = StepOf(r, action)
  OBVIOUS
<1>2. i \in DOMAIN r.steps /\ r.steps[i].action = action
  BY <1>1, StepOfFound DEF Shaped
<1>3. i \in DOMAIN q.steps /\ q.steps[i].action = action
  BY <1>2, StepsProgress
<1>4. IsSeq(q.steps) /\ DOMAIN q.steps = 1..Len(q.steps) /\ Len(q.steps) \in Nat
  BY SeqFacts DEF Shaped
<1>5. ASSUME NEW j \in DOMAIN q.steps, j > i, q.steps[j].action = action
      PROVE  FALSE
  <2>1. i < j
    BY <1>3, <1>4, <1>5
  <2>2. Declined(q.steps[i])
    BY <1>3, <1>5, <2>1, NoRepeats
  <2> QED  BY <1>3, <2>2 DEF Declined
<1> QED  BY <1>1, <1>3, <1>4, <1>5, StepOfLast

(* What was returned or verified of such an action stays so.                *)
LEMMA DoneStays ==
  ASSUME NEW d, NEW r, NEW q, Shaped(r, d), Shaped(q, d), RequireSteps(r, q), IsConsistent(q), Directed(q),
         NEW action, action \notin Removing, action # "run-instances"
  PROVE  /\ Returned(r, action) => Returned(q, action) /\ StepOf(q, action) = StepOf(r, action)
         /\ Verified(r, action) => Verified(q, action)
<1> SUFFICES ASSUME StepOf(r, action) # 0
             PROVE  /\ Returned(r, action) => Returned(q, action) /\ StepOf(q, action) = StepOf(r, action)
                    /\ Verified(r, action) => Verified(q, action)
  BY DEF Returned, Verified
<1>1. PICK i : i = StepOf(r, action)
  OBVIOUS
<1>2. i \in DOMAIN r.steps
  BY <1>1, StepOfFound DEF Shaped
<1>3. StepOf(q, action) = i
  BY <1>1, StepOfStays
<1>4. (r.steps[i].returned => q.steps[i].returned) /\ (r.steps[i].verified => q.steps[i].verified)
  BY <1>2, StepsProgress
<1> QED  BY <1>1, <1>3, <1>4 DEF Returned, Verified

LEMMA VolumeActions ==
  \A action \in {"create-volume", "attach-volume"} : action \notin Removing /\ action # "run-instances"
BY RemovingMakesNothing DEF RESOURCES

LEMMA AcceptedKeeps ==
  ASSUME NEW d, NEW record, Shaped(disk[d], d), Shaped(record, d), Directed(disk[d]), Accepted(d, record)
  PROVE  /\ \A field \in {"id", "previous", "reuse"} : record[field] = disk[d][field]
         /\ VolumeId(disk[d]) # None => VolumeId(record) = VolumeId(disk[d])
         /\ HoldsVolume(disk[d]) => HoldsVolume(record)
<1>1. PICK r : r = disk[d]
  OBVIOUS
<1>2. IsConsistent(record) /\ RequireTransition(r, record) /\ Directed(record)
  BY <1>1, AcceptedDirects DEF Accepted
<1>3. \A field \in {"id", "previous", "reuse"} : record[field] = r[field]
  BY <1>2 DEF RequireTransition, RequireFixedFields
<1>4. record.id = r.id /\ record.reuse = r.reuse
  BY <1>3
<1>5. /\ Returned(r, "create-volume") =>
           Returned(record, "create-volume") /\ StepOf(record, "create-volume") = StepOf(r, "create-volume")
      /\ Verified(r, "attach-volume") => Verified(record, "attach-volume")
  BY <1>1, <1>2, VolumeActions, DoneStays DEF RequireTransition
<1>6. r.abandoned => record.abandoned
  BY <1>2 DEF RequireTransition, RequireAbandonment
<1>7. VolumeId(r) # None => VolumeId(record) = VolumeId(r)
  BY <1>4, <1>5 DEF VolumeId
<1>8. HoldsVolume(r) => HoldsVolume(record)
  BY <1>4, <1>5, <1>6 DEF HoldsVolume
<1> QED  BY <1>1, <1>3, <1>7, <1>8

-----------------------------------------------------------------------------
(* The records of the chain.                                                *)

Evolves(r, q) ==
  /\ DOMAIN q = Fields
  /\ \A field \in {"id", "previous", "reuse"} : q[field] = r[field]
  /\ VolumeId(r) # None => VolumeId(q) = VolumeId(r)
  /\ HoldsVolume(r) => HoldsVolume(q)
(* The reservation of d is made for the next record, or completed once that    *)
(* one holds the volume.                                                     *)
HandsOn(d, r, q) ==
  \/ q.successor = r.successor
  \/ /\ Reuses(d + 1)
     /\ q.successor \in [to : {d + 1}, completed : BOOLEAN]
     /\ q.successor.completed => HoldsVolume(disk[d + 1])
     /\ HandedOff(r) => q.successor.completed

LEMMA ReservationIsSomething ==
  ASSUME NEW to \in Nat, NEW successor \in [to : {to}, completed : BOOLEAN]
  PROVE  successor # None
<1>1. successor \in [to : Nat, completed : BOOLEAN]
  OBVIOUS
<1> QED  BY <1>1, NoneAssumption

LEMMA ExistingIsInterval ==
  ASSUME LaunchInv
  PROVE  /\ Cardinality(Existing) \in Nat
         /\ Existing = 1..Cardinality(Existing)
         /\ \A d \in Existing : d \in Nat /\ d >= 1 /\ (d = 1 \/ d - 1 \in Existing) /\ 1..d \subseteq Existing
<1>1. Cardinality(Existing) \in Nat /\ Existing = 1..Cardinality(Existing)
  BY FS_CardinalityType DEF LaunchInv, Numbered
<1>2. PICK n \in Nat : n = Cardinality(Existing)
  BY <1>1
<1>3. PICK E : E = Existing
  OBVIOUS
<1>4. E = 1..n
  BY <1>1, <1>2, <1>3
<1>5. \A d \in E : d \in Nat /\ d >= 1 /\ (d = 1 \/ d - 1 \in E) /\ 1..d \subseteq E
  BY <1>4
<1> QED  BY <1>1, <1>3, <1>5

LEMMA VolumeIdFits ==
  ASSUME NEW r, NEW d \in Nat, d >= 1, Shaped(r, d), r.reuse = None, VolumeId(r) # None
  PROVE  VolumeId(r) \in (1..d) \X Nat
<1>1. VolumeId(r) = <<d, StepOf(r, "create-volume")>> /\ StepOf(r, "create-volume") # 0
  BY DEF VolumeId, Returned, Shaped
<1>2. StepOf(r, "create-volume") \in DOMAIN r.steps
  BY <1>1, StepOfFound DEF Shaped
<1>3. DOMAIN r.steps \subseteq Nat
  BY SeqFacts DEF Shaped
<1>4. d \in 1..d
  OBVIOUS
<1> QED  BY <1>1, <1>2, <1>3, <1>4

LEMMA ChainStays ==
  ASSUME ChainHolds, LaunchInv, \A d \in Existing : Shaped(disk'[d], d), Existing' = Existing,
         \A d \in Existing : Evolves(disk[d], disk'[d]) /\ HandsOn(d, disk[d], disk'[d]),
         \A e \in Existing : Reuses(e) /\ disk'[e].steps # <<>> =>
           disk[e].steps # <<>> \/ disk[e - 1].successor # None
  PROVE  ChainHolds'
<1>1. ASSUME NEW d \in Existing
      PROVE  /\ Reuses(d)' = Reuses(d)
             /\ HandedOff(disk[d]) => HandedOff(disk'[d])
             /\ disk[d].successor # None => disk'[d].successor # None
             /\ disk'[d].reuse = disk[d].reuse
  <2>1. d + 1 \in Nat
    BY ExistingIsInterval
  <2>2. disk'[d].reuse = disk[d].reuse
    BY DEF Evolves
  <2>3. disk'[d].successor # disk[d].successor => disk'[d].successor # None
    BY <2>1, ReservationIsSomething DEF HandsOn
  <2>4. HandedOff(disk[d]) => HandedOff(disk'[d])
    BY <2>3 DEF HandsOn, HandedOff
  <2> QED  BY <2>2, <2>3, <2>4 DEF Reuses
<1>2. \A e : Reuses(e)' = Reuses(e)
  <2>1. ASSUME NEW e PROVE Reuses(e)' = Reuses(e)
    <3>1. CASE e \in Existing
      BY <1>1, <3>1
    <3>2. CASE e \notin Existing
      BY <3>2 DEF Reuses
    <3> QED  BY <3>1, <3>2
  <2> QED  BY <2>1
<1>3. ASSUME NEW d \in Existing
      PROVE  RecordInChain(d)'
  <2>1. RecordInChain(d) /\ Evolves(disk[d], disk'[d]) /\ HandsOn(d, disk[d], disk'[d])
    BY DEF ChainHolds
  <2>2. DOMAIN disk'[d] = Fields /\ disk'[d].previous = disk[d].previous
    BY <2>1 DEF Evolves
  <2>3. VolumeId(disk'[d]) # None => VolumeId(disk'[d]) \in (1..d) \X Nat
    <3>1. CASE VolumeId(disk[d]) # None
      BY <2>1, <3>1 DEF RecordInChain, Evolves
    <3>2. CASE VolumeId(disk[d]) = None
      <4>1. disk'[d].reuse = None
        BY <1>1, <3>2 DEF VolumeId
      <4>2. d \in Nat /\ d >= 1
        BY ExistingIsInterval
      <4> QED  BY <4>1, <4>2, VolumeIdFits
    <3> QED  BY <3>1, <3>2
  <2>4. disk'[d].successor # None =>
          Reuses(d + 1) /\ disk'[d].successor \in [to : {d + 1}, completed : BOOLEAN]
    BY <2>1 DEF RecordInChain, HandsOn
  <2> QED  BY <1>2, <2>1, <2>2, <2>3, <2>4 DEF RecordInChain
<1>4. ASSUME NEW e \in Existing, Reuses(e)
      PROVE  ReuseInChain(e)'
  <2>1. ReuseInChain(e)
    BY <1>4 DEF ChainHolds
  <2>2. PICK p : p = e - 1
    OBVIOUS
  <2>3. p \in Existing /\ p + 1 = e
    BY <2>1, <2>2, ExistingIsInterval DEF ReuseInChain
  <2>4. VolumeId(disk'[p]) = disk'[e].reuse /\ HoldsVolume(disk'[p])
    <3>1. VolumeId(disk[p]) = disk[e].reuse /\ HoldsVolume(disk[p]) /\ disk[e].reuse # None
      BY <1>4, <2>1, <2>2 DEF ReuseInChain, Reuses
    <3>2. disk'[e].reuse = disk[e].reuse
      BY <1>1
    <3> QED  BY <2>3, <3>1, <3>2 DEF Evolves
  <2>5. disk'[p].successor = None => disk'[e].steps = <<>>
    <3>1. disk[p].successor = None => disk[e].steps = <<>>
      BY <2>1, <2>2 DEF ReuseInChain
    <3>2. disk'[p].successor = None => disk[p].successor = None
      BY <1>1, <2>3
    <3> QED  BY <1>4, <2>2, <3>1, <3>2
  <2>6. HandedOff(disk'[p]) => HoldsVolume(disk'[e])
    <3>1. HoldsVolume(disk[e]) => HoldsVolume(disk'[e])
      BY DEF Evolves
    <3>2. HandedOff(disk[p]) => HoldsVolume(disk[e])
      BY <2>1, <2>2 DEF ReuseInChain
    <3>3. HandedOff(disk'[p]) => HandedOff(disk[p]) \/ HoldsVolume(disk[e])
      <4>1. HandsOn(p, disk[p], disk'[p])
        BY <2>3
      <4> QED  BY <2>3, <4>1 DEF HandsOn, HandedOff
    <3> QED  BY <3>1, <3>2, <3>3
  <2>7. Reuses(e + 1)' => HandedOff(disk'[p])
    BY <1>1, <1>2, <2>1, <2>2, <2>3 DEF ReuseInChain
  <2> QED  BY <2>2, <2>3, <2>4, <2>5, <2>6, <2>7 DEF ReuseInChain
<1> QED  BY <1>2, <1>3, <1>4 DEF ChainHolds

-----------------------------------------------------------------------------
(* The command and the chain.                                               *)

(* Only the newest deployment gets an attachment.                           *)
OnlyNewestAttaches ==
  \A d \in Existing : d + 1 \in Existing =>
    \A i \in DOMAIN disk'[d].steps :
      disk'[d].steps[i].action = "attach-volume" =>
        i \in DOMAIN disk[d].steps /\ disk[d].steps[i].action = "attach-volume"

Begun(k) == k.mem.steps # <<>> \/ (k.op = "create" /\ k.pc \notin {"reserve", "end"})
(* The command k may follow the running one on the records of the next state. *)
GoesOn(k) ==
  /\ k.dep = cmd.dep /\ k.op = cmd.op
  /\ DOMAIN k.mem = Fields
  /\ \A field \in {"id", "previous", "reuse", "successor"} : k.mem[field] = cmd.mem[field]
  /\ k.pc = "approve" => k.op = "reuse"
  /\ k.pc # "reserve"
  /\ k.pc = "fenced" /\ k.op # "create" => LastStep(k.mem).action \in Removing

LEMMA CommandStaysChained ==
  ASSUME ChainInv, FenceInv, LaunchInv, cmd # None, Existing' = Existing, NEW k, cmd' = k, GoesOn(k),
         \A field \in {"id", "previous", "reuse", "successor"} : disk'[cmd.dep][field] = disk[cmd.dep][field],
         \A d \in Existing : HandsOn(d, disk[d], disk'[d]),
         k.pc \notin {"fail", "end"} => k.mem = disk'[k.dep],
         Begun(k) => Begun(cmd) \/ disk'[cmd.dep - 1].successor # None,
         k.op # "create" =>
           \A i \in DOMAIN k.mem.steps :
             k.mem.steps[i].action = "attach-volume" => i \in DOMAIN disk'[k.dep].steps
  PROVE  InChain(cmd)'
<1>1. InChain(cmd) /\ cmd.dep \in Existing
  BY CommandKnows DEF ChainInv
<1>2. PICK r : r = disk'[k.dep]
  OBVIOUS
<1>3. \A field \in {"id", "previous", "reuse", "successor"} : k.mem[field] = r[field]
  BY <1>1, <1>2 DEF InChain, GoesOn
<1>4. k.op \in {"create", "reuse"} => k.dep + 1 \notin Existing
  BY <1>1 DEF InChain, GoesOn
<1>5. ASSUME k.mem.reuse # None
      PROVE  /\ Begun(k) => disk'[k.dep - 1].successor # None
             /\ k.op = "reuse" => HandedOff(disk'[k.dep - 1])
  <2>1. cmd.mem.reuse # None /\ k.dep = cmd.dep /\ k.op = cmd.op
    BY <1>5 DEF GoesOn
  <2>2. disk[cmd.dep].reuse # None
    BY <1>1, <2>1 DEF InChain
  <2>3. PICK p : p = cmd.dep - 1
    OBVIOUS
  <2>4. p \in Existing
    BY <1>1, <2>2, <2>3 DEF ChainInv, ChainHolds, Reuses, ReuseInChain
  <2>5. p + 1 \in Nat /\ HandsOn(p, disk[p], disk'[p])
    BY <2>4, ExistingIsInterval
  <2>6. disk[p].successor # None => disk'[p].successor # None
    BY <2>5, ReservationIsSomething DEF HandsOn
  <2>7. HandedOff(disk[p]) => HandedOff(disk'[p])
    BY <2>5, <2>6 DEF HandsOn, HandedOff
  <2>8. Begun(cmd) => disk[p].successor # None
    BY <1>1, <2>1, <2>3 DEF InChain, Begun
  <2>9. cmd.op = "reuse" => HandedOff(disk[p])
    BY <1>1, <2>1, <2>3 DEF InChain
  <2> QED  BY <2>1, <2>3, <2>6, <2>7, <2>8, <2>9
<1>6. Existing' = Existing /\ cmd' = k /\ DOMAIN k.mem = Fields
  BY DEF GoesOn
<1>7. /\ k.pc = "approve" => k.op = "reuse"
      /\ k.pc # "reserve"
      /\ k.pc = "fenced" /\ k.op # "create" => LastStep(k.mem).action \in Removing
  BY DEF GoesOn
<1> QED  BY <1>2, <1>3, <1>4, <1>5, <1>6, <1>7 DEF InChain, Begun, LastStep

LEMMA EvolvesUnchanged ==
  ASSUME ChainHolds, NEW d \in Existing
  PROVE  Evolves(disk[d], disk[d]) /\ HandsOn(d, disk[d], disk[d])
BY DEF ChainHolds, RecordInChain, Evolves, HandsOn

(* Steps that leave the records alone.                                      *)
LEMMA MoveChains ==
  ASSUME ChainInv, FenceInv, LaunchInv, cmd # None, UNCHANGED disk,
         NEW k, cmd' = k, GoesOn(k), k.mem = cmd.mem,
         k.pc \notin {"fail", "end"} => cmd.pc \notin {"fail", "end"},
         Begun(k) => Begun(cmd)
  PROVE  ChainInv'
<1>1. Existing' = Existing
  BY DEF Existing
<1>2. ChainHolds'
  <2>1. \A d \in Existing : Shaped(disk'[d], d)
    BY DEF LaunchInv, RecordsFit
  <2>2. \A d \in Existing : Evolves(disk[d], disk'[d]) /\ HandsOn(d, disk[d], disk'[d])
    BY EvolvesUnchanged DEF ChainInv
  <2> QED  BY <1>1, <2>1, <2>2, ChainStays DEF ChainInv
<1>3. InChain(cmd)
  BY DEF ChainInv
<1>4. \A d \in Existing : HandsOn(d, disk[d], disk'[d])
  BY EvolvesUnchanged DEF ChainInv
<1>5. InChain(cmd)'
  <2>1. k.pc \notin {"fail", "end"} => k.mem = disk'[k.dep]
    BY <1>3 DEF InChain, GoesOn
  <2>2. k.op # "create" =>
           \A i \in DOMAIN k.mem.steps :
             k.mem.steps[i].action = "attach-volume" => i \in DOMAIN disk'[k.dep].steps
    BY <1>3 DEF InChain, GoesOn
  <2> QED  BY <1>1, <1>4, <2>1, <2>2, CommandStaysChained
<1> QED  BY <1>2, <1>5 DEF ChainInv

(* A write of the command's own record.                                     *)
LEMMA OwnWriteChains ==
  ASSUME ChainInv, FenceInv, LaunchInv, LaunchInv', SightInv, cmd # None, cmd.pc \notin {"reserve", "end"},
         NEW record, Shaped(record, cmd.dep), DOMAIN record = Fields,
         \A field \in {"id", "previous", "reuse", "successor"} : record[field] = cmd.mem[field],
         record.steps # <<>> => cmd.mem.steps # <<>> \/ cmd.op = "create",
         cmd.op # "create" =>
           \A i \in DOMAIN record.steps :
             record.steps[i].action = "attach-volume" => i \in DOMAIN cmd.mem.steps,
         cmd.op # "create" =>
           \A i \in DOMAIN record.steps \cap DOMAIN cmd.mem.steps :
             record.steps[i].action = cmd.mem.steps[i].action,
         NEW done, GoesOn(done), done.mem = record,
         NEW failed, GoesOn(failed), failed.mem \in {record, cmd.mem}, failed.pc \in {"fail", "end"},
         Write(cmd.dep, record, done, failed)
  PROVE  ChainInv' /\ OnlyNewestAttaches
<1>1. InChain(cmd) /\ cmd.dep \in Existing /\ ChainHolds
  BY CommandKnows DEF ChainInv
<1>2. PICK d \in Existing : d = cmd.dep
  BY <1>1
<1>3. PICK r : r = disk[d]
  OBVIOUS
<1>4. /\ Existing' = Existing
      /\ \A e \in Existing : disk'[e] = disk[e] \/ (e = d /\ disk'[e] = record /\ Accepted(d, record))
      /\ cmd' = failed \/ (cmd' = done /\ disk'[d] = record)
  BY <1>1, <1>2 DEF Write, Existing
<1>5. Shaped(r, d) /\ Directed(r)
  BY <1>2, <1>3 DEF LaunchInv, RecordsFit, SightInv, RecordsSee
<1>6. \A field \in {"id", "previous", "reuse", "successor"} : record[field] = r[field]
  BY <1>1, <1>2, <1>3 DEF InChain
<1>7. Accepted(d, record) => Evolves(r, record)
  BY <1>2, <1>3, <1>5, AcceptedKeeps DEF Evolves
<1>8. ASSUME NEW e \in Existing
      PROVE  /\ Evolves(disk[e], disk'[e]) /\ HandsOn(e, disk[e], disk'[e])
             /\ Reuses(e) /\ disk'[e].steps # <<>> => disk[e].steps # <<>> \/ disk[e - 1].successor # None
  <2>1. CASE disk'[e] = disk[e]
    BY <1>1, <2>1, EvolvesUnchanged
  <2>2. CASE e = d /\ disk'[e] = record /\ Accepted(d, record)
    <3>1. Evolves(disk[e], disk'[e]) /\ HandsOn(e, disk[e], disk'[e])
      BY <1>3, <1>6, <1>7, <2>2 DEF HandsOn
    <3>2. Reuses(e) /\ record.steps # <<>> => disk[e - 1].successor # None
      <4>1. Reuses(e) => cmd.mem.reuse # None
        BY <1>1, <1>2, <2>2 DEF Reuses, InChain
      <4> QED  BY <1>1, <1>2, <2>2, <4>1 DEF InChain
    <3> QED  BY <2>2, <3>1, <3>2
  <2> QED  BY <1>4, <2>1, <2>2
<1>9. \A e \in Existing : Shaped(disk'[e], e)
  BY <1>4 DEF LaunchInv, RecordsFit
<1>10. ChainHolds'
  BY <1>1, <1>4, <1>8, <1>9, ChainStays
<1>11. \A field \in {"id", "previous", "reuse", "successor"} : disk'[cmd.dep][field] = disk[cmd.dep][field]
  BY <1>2, <1>3, <1>4, <1>6
<1>12. DOMAIN r.steps \subseteq DOMAIN disk'[d].steps
  <2>1. Accepted(d, record) => DOMAIN r.steps \subseteq DOMAIN record.steps
    BY <1>3, <1>5, <1>2, AcceptedGrows
  <2> QED  BY <1>2, <1>3, <1>4, <2>1
<1>13. ASSUME NEW k, GoesOn(k), k.mem \in {record, cmd.mem}, cmd' = k,
              k.pc \in {"fail", "end"} \/ (k.mem = record /\ disk'[d] = record)
       PROVE  InChain(cmd)'
  <2>1. k.dep = d /\ k.op = cmd.op
    BY <1>2, <1>13 DEF GoesOn
  <2>2. k.pc \notin {"fail", "end"} => k.mem = disk'[k.dep]
    BY <1>13, <2>1
  <2>3. Begun(k) => Begun(cmd)
    BY <1>13, <2>1 DEF Begun
  <2>4. k.op # "create" =>
          \A i \in DOMAIN k.mem.steps :
            k.mem.steps[i].action = "attach-volume" => i \in DOMAIN disk'[k.dep].steps
    BY <1>1, <1>2, <1>3, <1>12, <1>13, <2>1 DEF InChain
  <2> QED  BY <1>4, <1>8, <1>11, <1>13, <2>2, <2>3, <2>4, CommandStaysChained
<1>14. InChain(cmd)'
  <2>1. CASE cmd' = failed
    BY <1>13, <2>1
  <2>2. CASE cmd' = done /\ disk'[d] = record
    BY <1>13, <2>2
  <2> QED  BY <1>4, <2>1, <2>2
<1>15. OnlyNewestAttaches
  <2>1. ASSUME NEW e \in Existing, e + 1 \in Existing, NEW i \in DOMAIN disk'[e].steps,
               disk'[e].steps[i].action = "attach-volume"
        PROVE  i \in DOMAIN disk[e].steps /\ disk[e].steps[i].action = "attach-volume"
    <3>1. CASE disk'[e] = disk[e]
      BY <2>1, <3>1
    <3>2. CASE e = d /\ disk'[e] = record /\ Accepted(d, record)
      <4>1. cmd.op # "create"
        BY <1>1, <1>2, <2>1, <3>2 DEF InChain
      <4>2. i \in DOMAIN cmd.mem.steps /\ cmd.mem.steps[i].action = "attach-volume"
        BY <2>1, <3>2, <4>1
      <4>3. i \in DOMAIN r.steps
        BY <1>1, <1>2, <1>3, <4>1, <4>2 DEF InChain
      <4>4. record.steps[i].action = r.steps[i].action
        BY <1>2, <1>3, <1>5, <3>2, <4>3, AcceptedGrows
      <4> QED  BY <1>3, <2>1, <3>2, <4>3, <4>4
    <3> QED  BY <1>4, <3>1, <3>2
  <2> QED  BY <2>1 DEF OnlyNewestAttaches
<1> QED  BY <1>10, <1>14, <1>15 DEF ChainInv

(* A write of the record the volume is taken from.                          *)
LEMMA PredecessorWriteChains ==
  ASSUME ChainInv, FenceInv, LaunchInv, LaunchInv', SightInv, cmd # None, cmd.mem.reuse # None,
         cmd.pc \notin {"fail", "end"},
         NEW previous, previous = disk[cmd.mem.previous],
         NEW record, record = Reserve(previous, cmd.dep) \/ (record = Complete(previous)
                       /\ previous.successor # None /\ HoldsVolume(cmd.mem)),
         NEW done, GoesOn(done), done.mem = cmd.mem,
         NEW failed, GoesOn(failed), failed.mem = cmd.mem, failed.pc \in {"fail", "end"},
         Begun(failed) => Begun(cmd),
         Write(previous.id, record, done, failed)
  PROVE  ChainInv' /\ OnlyNewestAttaches
<1>1. InChain(cmd) /\ cmd.dep \in Existing /\ ChainHolds
  BY CommandKnows DEF ChainInv
<1>2. PICK e \in Existing : e = cmd.dep
  BY <1>1
<1>3. cmd.mem = disk[e] /\ Reuses(e)
  BY <1>1, <1>2 DEF InChain, Reuses
<1>4. PICK p : p = e - 1
  OBVIOUS
<1>5. p \in Existing /\ p + 1 = e /\ e # p /\ e # 1 /\ p \in Nat
  <2>1. e \in Nat /\ e - 1 \in Existing
    BY <1>1, <1>2, <1>3, ExistingIsInterval DEF ChainHolds, ReuseInChain
  <2>2. p \in Nat /\ p >= 1
    BY <1>4, <2>1, ExistingIsInterval
  <2> QED  BY <1>4, <2>1, <2>2
<1>6. cmd.mem.previous = p
  BY <1>1, <1>3, <1>4, <1>5 DEF ChainHolds, RecordInChain
<1>7. previous = disk[p]
  BY <1>6
<1>8. Shaped(previous, p) /\ Directed(previous) /\ DOMAIN previous = Fields
  BY <1>1, <1>5, <1>7 DEF LaunchInv, RecordsFit, SightInv, RecordsSee, ChainHolds, RecordInChain
<1>9. previous.id = p
  BY <1>8 DEF Shaped
<1>10. DOMAIN record = Fields /\ record.steps = previous.steps /\ record.id = p
  <2>1. {"id", "steps", "successor"} \subseteq DOMAIN previous
    BY <1>8 DEF Fields
  <2>2. CASE record = Reserve(previous, cmd.dep)
    BY <1>8, <1>9, <2>1, <2>2 DEF Reserve
  <2>3. CASE record = Complete(previous)
    BY <1>8, <1>9, <2>1, <2>3 DEF Complete
  <2> QED  BY <2>2, <2>3
<1>11. Shaped(record, p)
  <2>1. {"id", "steps"} \subseteq DOMAIN record
    BY <1>10 DEF Fields
  <2> QED  BY <1>8, <1>9, <1>10, <2>1, SameStepsFit
<1>12. /\ Existing' = Existing
       /\ \A x \in Existing : disk'[x] = disk[x] \/ (x = p /\ disk'[x] = record /\ Accepted(p, record))
       /\ cmd' = failed \/ (cmd' = done /\ disk'[p] = record)
  BY <1>5, <1>9 DEF Write, Existing
<1>13. record.successor \in [to : {e}, completed : BOOLEAN]
  <2>1. CASE record = Reserve(previous, cmd.dep)
    <3>1. record.successor = [to |-> e, completed |-> FALSE]
      BY <1>2, <1>8, <2>1 DEF Reserve, Fields
    <3> QED  BY <3>1
  <2>2. CASE record = Complete(previous) /\ previous.successor # None
    <3>1. previous.successor \in [to : {e}, completed : BOOLEAN]
      BY <1>1, <1>5, <1>7, <2>2 DEF ChainHolds, RecordInChain
    <3>2. record.successor = [previous.successor EXCEPT !.completed = TRUE]
      BY <1>8, <2>2 DEF Complete, Fields
    <3> QED  BY <3>1, <3>2
  <2> QED  BY <2>1, <2>2
<1>14. record.successor # None
  <2>1. e \in Nat
    BY ExistingIsInterval
  <2> QED  BY <1>13, <2>1, ReservationIsSomething
<1>15. record.successor.completed => HoldsVolume(disk[e])
  <2>1. CASE record = Reserve(previous, cmd.dep)
    <3>1. record.successor.completed = FALSE
      BY <1>8, <2>1 DEF Reserve, Fields
    <3> QED  BY <3>1
  <2> QED  BY <1>3, <2>1
<1>16. Accepted(p, record) /\ HandedOff(previous) => record.successor.completed
  <2>1. SUFFICES ASSUME RequireSuccessor(previous, record), HandedOff(previous)
                 PROVE  record.successor.completed
    BY <1>7 DEF Accepted, RequireTransition
  <2>2. CASE record.successor = previous.successor
    BY <2>1, <2>2 DEF HandedOff
  <2>3. CASE previous.successor # None /\ ~previous.successor.completed
    BY <2>1, <2>3 DEF HandedOff
  <2> QED  BY <2>1, <2>2, <2>3 DEF RequireSuccessor, HandedOff
<1>17. Accepted(p, record) => Evolves(previous, record)
  BY <1>7, <1>8, <1>10, <1>11, AcceptedKeeps DEF Evolves
<1>18. ASSUME NEW x \in Existing
       PROVE  /\ Evolves(disk[x], disk'[x]) /\ HandsOn(x, disk[x], disk'[x])
              /\ disk'[x].steps = disk[x].steps
  <2>1. CASE disk'[x] = disk[x]
    BY <1>1, <2>1, EvolvesUnchanged
  <2>2. CASE x = p /\ disk'[x] = record /\ Accepted(p, record)
    <3>1. HandsOn(p, previous, record)
      BY <1>3, <1>5, <1>13, <1>15, <1>16, <2>2 DEF HandsOn
    <3> QED  BY <1>7, <1>10, <1>17, <2>2, <3>1
  <2> QED  BY <1>12, <2>1, <2>2
<1>19. \A x \in Existing : Shaped(disk'[x], x)
  BY <1>12 DEF LaunchInv, RecordsFit
<1>20. ChainHolds'
  BY <1>1, <1>12, <1>18, <1>19, ChainStays
<1>21. disk'[e] = disk[e]
  BY <1>5, <1>12
<1>22. ASSUME NEW k, GoesOn(k), k.mem = cmd.mem, cmd' = k,
              Begun(k) => Begun(cmd) \/ disk'[p].successor # None
       PROVE  InChain(cmd)'
  <2>1. k.dep = e /\ k.op = cmd.op
    BY <1>2, <1>22 DEF GoesOn
  <2>2. k.mem = disk'[k.dep]
    BY <1>3, <1>21, <1>22, <2>1
  <2>3. Begun(k) => Begun(cmd) \/ disk'[cmd.dep - 1].successor # None
    BY <1>2, <1>4, <1>22
  <2>4. \A field \in {"id", "previous", "reuse", "successor"} : disk'[cmd.dep][field] = disk[cmd.dep][field]
    BY <1>2, <1>21
  <2> QED  BY <1>12, <1>18, <1>22, <2>2, <2>3, <2>4, CommandStaysChained
<1>23. InChain(cmd)'
  <2>1. CASE cmd' = failed
    BY <1>22, <2>1
  <2>2. CASE cmd' = done /\ disk'[p] = record
    BY <1>14, <1>22, <2>2
  <2> QED  BY <1>12, <2>1, <2>2
<1>24. OnlyNewestAttaches
  BY <1>18 DEF OnlyNewestAttaches
<1> QED  BY <1>20, <1>23, <1>24 DEF ChainInv

LEMMA CommandInChain ==
  ASSUME ChainInv, FenceInv, LaunchInv, cmd # None
  PROVE  /\ IsCommand(cmd) /\ InChain(cmd) /\ cmd.dep \in Existing
         /\ Shaped(cmd.mem, cmd.dep) /\ DOMAIN cmd.mem = Fields
         /\ \A pc : /\ GoesOn(To(pc)) <=> pc # "reserve" /\ (pc = "approve" => cmd.op = "reuse")
                         /\ (pc = "fenced" /\ cmd.op # "create" => LastStep(cmd.mem).action \in Removing)
                    /\ To(pc).mem = cmd.mem /\ To(pc).pc = pc /\ To(pc).op = cmd.op
<1>1. IsCommand(cmd) /\ InChain(cmd) /\ cmd.dep \in Existing /\ Shaped(cmd.mem, cmd.dep)
  BY CommandKnows DEF ChainInv
<1>2. DOMAIN cmd.mem = Fields
  BY <1>1 DEF InChain
<1>3. ASSUME NEW pc
      PROVE  /\ GoesOn(To(pc)) <=> pc # "reserve" /\ (pc = "approve" => cmd.op = "reuse")
                         /\ (pc = "fenced" /\ cmd.op # "create" => LastStep(cmd.mem).action \in Removing)
             /\ To(pc).mem = cmd.mem /\ To(pc).pc = pc /\ To(pc).op = cmd.op
  <2>1. PICK k : k = To(pc)
    OBVIOUS
  <2>2. k.dep = cmd.dep /\ k.op = cmd.op /\ k.mem = cmd.mem /\ k.pc = pc
    BY <1>1, <2>1 DEF To, IsCommand
  <2> QED  BY <1>2, <2>1, <2>2 DEF GoesOn
<1> QED  BY <1>1, <1>2, <1>3

LEMMA SettlingChains ==
  ASSUME ChainInv, FenceInv, LaunchInv, LaunchInv', SightInv, ReservePrevious \/ Settle
  PROVE  ChainInv' /\ OnlyNewestAttaches
<1>1. cmd # None /\ cmd.pc \in {"reserve", "settle"}
  BY DEF ReservePrevious, Settle, At
<1>2. IsCommand(cmd) /\ InChain(cmd) /\ cmd.mem.reuse # None
  BY <1>1, CommandInChain DEF IsCommand
<1>3. \A pc \in {"key", "end", "next"} : GoesOn(To(pc)) /\ To(pc).mem = cmd.mem /\ To(pc).pc = pc
  BY <1>1, CommandInChain
<1>4. PICK previous : previous = disk[cmd.mem.previous]
  OBVIOUS
<1>5. CASE ReservePrevious
  <2>1. PICK done, failed : done = To("key") /\ failed = To("end")
    OBVIOUS
  <2>2. Write(previous.id, Reserve(previous, cmd.dep), done, failed)
    BY <1>4, <1>5, <2>1 DEF ReservePrevious
  <2>3. GoesOn(done) /\ GoesOn(failed) /\ done.mem = cmd.mem /\ failed.mem = cmd.mem /\ failed.pc = "end"
    BY <1>3, <2>1
  <2>4. Begun(failed) => Begun(cmd)
    BY <2>3 DEF Begun
  <2> QED  BY <1>1, <1>2, <1>4, <2>2, <2>3, <2>4, PredecessorWriteChains
<1>6. CASE Settle
  <2>1. PICK failed : failed = IF cmd.op = "create" THEN [cmd EXCEPT !.pc = "fail", !.outcome = "uncertain"]
                               ELSE To("end")
    OBVIOUS
  <2>2. failed.mem = cmd.mem /\ failed.dep = cmd.dep /\ failed.op = cmd.op /\ failed.pc \in {"fail", "end"}
    BY <1>2, <1>3, <2>1, CommandInChain, <1>1 DEF IsCommand, GoesOn
  <2>3. GoesOn(failed) /\ GoesOn(cmd) /\ (Begun(failed) => Begun(cmd))
    <3>1. cmd.pc = "settle"
      BY <1>6 DEF Settle, At
    <3> QED  BY <1>2, <2>2, <3>1 DEF GoesOn, Begun, InChain
  <2>4. \/ Write(previous.id, Reserve(previous, cmd.dep), cmd, failed)
        \/ /\ previous.successor # None /\ HoldsVolume(cmd.mem)
           /\ Write(previous.id, Complete(previous), cmd, failed)
        \/ UNCHANGED disk /\ cmd' = To(IF cmd.op = "create" THEN "next" ELSE "end")
    BY <1>4, <1>6, <2>1 DEF Settle, NeedsCompletion
  <2>5. CASE UNCHANGED disk /\ cmd' = To(IF cmd.op = "create" THEN "next" ELSE "end")
    <3>1. PICK k : k = To(IF cmd.op = "create" THEN "next" ELSE "end")
      OBVIOUS
    <3>2. GoesOn(k) /\ k.mem = cmd.mem /\ k.pc \in {"next", "end"}
      BY <1>3, <3>1
    <3>3. cmd.pc = "settle" /\ (Begun(k) => Begun(cmd))
      BY <1>6, <3>2 DEF Settle, At, Begun, GoesOn
    <3> QED  BY <1>1, <2>5, <3>1, <3>2, <3>3, MoveChains DEF OnlyNewestAttaches
  <2> QED  BY <1>1, <1>2, <1>4, <2>2, <2>3, <2>4, <2>5, PredecessorWriteChains
<1> QED  BY <1>5, <1>6

(* The record a command writes of its own deployment, with the same steps.   *)
Continued(record) ==
  /\ Shaped(record, cmd.dep) /\ DOMAIN record = Fields
  /\ \A field \in {"id", "previous", "reuse", "successor"} : record[field] = cmd.mem[field]
  /\ DOMAIN record.steps = DOMAIN cmd.mem.steps
  /\ \A i \in DOMAIN record.steps : record.steps[i].action = cmd.mem.steps[i].action

LEMMA EmptyDomain ==
  ASSUME NEW r, NEW q, NEW d, NEW e, Shaped(r, d), Shaped(q, e), DOMAIN r.steps = DOMAIN q.steps
  PROVE  r.steps # <<>> => q.steps # <<>>
<1>1. r.steps # <<>> => DOMAIN r.steps # {}
  BY SeqFacts DEF Shaped
<1>2. q.steps = <<>> => DOMAIN q.steps = {}
  BY EmptySteps
<1> QED  BY <1>1, <1>2

LEMMA ContinuedWriteChains ==
  ASSUME ChainInv, FenceInv, LaunchInv, LaunchInv', SightInv, cmd # None, cmd.pc \notin {"reserve", "end"},
         NEW record, Continued(record),
         NEW done, GoesOn(done), done.mem = record,
         NEW failed, GoesOn(failed), failed.mem \in {record, cmd.mem}, failed.pc \in {"fail", "end"},
         Write(cmd.dep, record, done, failed)
  PROVE  ChainInv' /\ OnlyNewestAttaches
<1>1. Shaped(cmd.mem, cmd.dep)
  BY CommandInChain
<1>2. record.steps # <<>> => cmd.mem.steps # <<>>
  BY <1>1, EmptyDomain DEF Continued
<1> QED  BY <1>2, OwnWriteChains DEF Continued

LEMMA FailingGoesOn ==
  ASSUME ChainInv, FenceInv, LaunchInv, cmd # None, NEW record, DOMAIN record = Fields,
         \A field \in {"id", "previous", "reuse", "successor"} : record[field] = cmd.mem[field]
  PROVE  /\ GoesOn(Failing(record)) /\ Failing(record).mem \in {record, cmd.mem} /\ Failing(record).pc = "fail"
         /\ DOMAIN Failing(record) = DOMAIN cmd
<1>1. IsCommand(cmd) /\ DOMAIN cmd.mem = Fields
  BY CommandInChain
<1>2. PICK k : k = Failing(record)
  OBVIOUS
<1>3. k.dep = cmd.dep /\ k.op = cmd.op /\ k.mem = Held(record) /\ k.pc = "fail" /\ DOMAIN k = DOMAIN cmd
  BY <1>1, <1>2 DEF Failing, IsCommand
<1>4. Held(record) \in {record, cmd.mem}
  BY DEF Held
<1> QED  BY <1>1, <1>2, <1>3, <1>4 DEF GoesOn

LEMMA PersistChains ==
  ASSUME ChainInv, FenceInv, LaunchInv, LaunchInv', SightInv, cmd # None, cmd.pc \notin {"reserve", "end"},
         NEW record, Continued(record),
         NEW next, DOMAIN next = DOMAIN cmd, next.dep = cmd.dep, next.op = cmd.op,
         next.pc \notin {"approve", "reserve", "fenced"},
         Persist(record, next)
  PROVE  ChainInv' /\ OnlyNewestAttaches
<1>1. IsCommand(cmd)
  BY CommandInChain
<1>2. PICK done, failed : done = [next EXCEPT !.mem = record] /\ failed = Failing(record)
  OBVIOUS
<1>3. Write(cmd.dep, record, done, failed)
  BY <1>2 DEF Persist
<1>4. done.dep = cmd.dep /\ done.op = cmd.op /\ done.mem = record /\ done.pc = next.pc
  BY <1>1, <1>2 DEF IsCommand
<1>5. GoesOn(done)
  BY <1>4 DEF GoesOn, Continued
<1>6. GoesOn(failed) /\ failed.mem \in {record, cmd.mem} /\ failed.pc \in {"fail", "end"}
  BY <1>2, FailingGoesOn DEF Continued
<1> QED  BY <1>3, <1>4, <1>5, <1>6, ContinuedWriteChains

LEMMA SameStepsContinue ==
  ASSUME ChainInv, FenceInv, LaunchInv, cmd # None, NEW record, DOMAIN record = Fields,
         \A field \in {"id", "previous", "reuse", "successor", "steps"} : record[field] = cmd.mem[field]
  PROVE  Continued(record)
<1>1. Shaped(cmd.mem, cmd.dep)
  BY CommandInChain
<1>2. record.id = cmd.mem.id /\ record.steps = cmd.mem.steps /\ {"id", "steps"} \subseteq DOMAIN record
  BY DEF Fields
<1>3. Shaped(record, cmd.dep)
  BY <1>1, <1>2, SameStepsFit
<1> QED  BY <1>2, <1>3 DEF Continued

LEMMA OtherFieldsKept ==
  ASSUME NEW r, DOMAIN r = Fields, NEW q,
         q \in {r, Fenced(r), Confirmed(r), [Confirmed(r) EXCEPT !.key = TRUE], [r EXCEPT !.health = TRUE],
                [r EXCEPT !.abandoned = TRUE]}
  PROVE  /\ DOMAIN q = Fields
         /\ \A field \in {"id", "previous", "reuse", "successor", "steps"} : q[field] = r[field]
<1>1. CASE q = r
  BY <1>1 DEF Fields
<1>2. CASE q = Fenced(r)
  BY <1>2 DEF Fields, Fenced
<1>3. CASE q = Confirmed(r)
  BY <1>3 DEF Fields, Confirmed
<1>4. CASE q = [Confirmed(r) EXCEPT !.key = TRUE]
  BY <1>4 DEF Fields, Confirmed
<1>5. CASE q = [r EXCEPT !.health = TRUE]
  BY <1>5 DEF Fields
<1>6. CASE q = [r EXCEPT !.abandoned = TRUE]
  BY <1>6 DEF Fields
<1> QED  BY <1>1, <1>2, <1>3, <1>4, <1>5, <1>6

LEMMA PersistingChains ==
  ASSUME ChainInv, FenceInv, LaunchInv, LaunchInv', SightInv,
         FenceKey \/ KeyGenerated \/ FenceObserve \/ FenceHealth \/ RecordHealth \/ Probe \/ Look
  PROVE  ChainInv' /\ OnlyNewestAttaches
<1>1. cmd # None /\ cmd.pc \notin {"reserve", "end"}
  BY DEF FenceKey, KeyGenerated, FenceObserve, FenceHealth, RecordHealth, Probe, Look, At
<1>2. IsCommand(cmd) /\ DOMAIN cmd.mem = Fields
  BY <1>1, CommandInChain
<1>3. PICK r : r = cmd.mem
  OBVIOUS
<1>4. \E record \in {Fenced(r), Confirmed(r), [Confirmed(r) EXCEPT !.key = TRUE], [r EXCEPT !.health = TRUE]} :
        \/ \E pc \in {"keyed", "next", "look", "probe", "end", "healthy"} : Persist(record, To(pc))
        \/ Persist(record, [cmd EXCEPT !.pc = "reconcile", !.observation = Observe(cmd.mem)])
  BY <1>3 DEF FenceKey, KeyGenerated, FenceObserve, FenceHealth, RecordHealth, Probe, Look
<1>5. PICK record \in {Fenced(r), Confirmed(r), [Confirmed(r) EXCEPT !.key = TRUE], [r EXCEPT !.health = TRUE]} :
        \/ \E pc \in {"keyed", "next", "look", "probe", "end", "healthy"} : Persist(record, To(pc))
        \/ Persist(record, [cmd EXCEPT !.pc = "reconcile", !.observation = Observe(cmd.mem)])
  BY <1>4
<1>6. Continued(record)
  <2>1. /\ DOMAIN record = Fields
        /\ \A field \in {"id", "previous", "reuse", "successor", "steps"} : record[field] = r[field]
    BY <1>2, <1>3, OtherFieldsKept
  <2> QED  BY <1>1, <1>3, <2>1, SameStepsContinue
<1>7. ASSUME NEW pc \in {"keyed", "next", "look", "probe", "end", "healthy"}, Persist(record, To(pc))
      PROVE  ChainInv' /\ OnlyNewestAttaches
  <2>1. PICK next : next = To(pc)
    OBVIOUS
  <2>2. DOMAIN next = DOMAIN cmd /\ next.dep = cmd.dep /\ next.op = cmd.op /\ next.pc = pc
    BY <1>2, <2>1 DEF To, IsCommand
  <2> QED  BY <1>1, <1>6, <1>7, <2>1, <2>2, PersistChains
<1>8. CASE Persist(record, [cmd EXCEPT !.pc = "reconcile", !.observation = Observe(cmd.mem)])
  <2>1. PICK next : next = [cmd EXCEPT !.pc = "reconcile", !.observation = Observe(cmd.mem)]
    OBVIOUS
  <2>2. DOMAIN next = DOMAIN cmd /\ next.dep = cmd.dep /\ next.op = cmd.op /\ next.pc = "reconcile"
    BY <1>2, <2>1 DEF IsCommand
  <2> QED  BY <1>1, <1>6, <1>8, <2>1, <2>2, PersistChains
<1> QED  BY <1>5, <1>7, <1>8

(* The last step rewritten.                                                 *)
LEMMA WithLastContinues ==
  ASSUME ChainInv, FenceInv, LaunchInv, cmd # None, NEW r, Continued(r), r.steps # <<>>,
         NEW step, IsStep(step), step.action = LastStep(cmd.mem).action
  PROVE  Continued(WithLast(r, step))
<1>1. Shaped(r, cmd.dep) /\ DOMAIN r = Fields /\ Shaped(cmd.mem, cmd.dep)
  BY CommandInChain DEF Continued
<1>2. PICK q : q = WithLast(r, step)
  OBVIOUS
<1>3. /\ Shaped(q, cmd.dep)
      /\ DOMAIN q.steps = DOMAIN r.steps
      /\ \A i \in DOMAIN r.steps : q.steps[i] = IF i = Len(r.steps) THEN step ELSE r.steps[i]
  BY <1>1, <1>2, LastReplaced
<1>4. DOMAIN q = Fields /\ \A field \in {"id", "previous", "reuse", "successor"} : q[field] = r[field]
  BY <1>1, <1>2 DEF WithLast, Fields
<1>5. Len(r.steps) = Len(cmd.mem.steps)
  <2>1. DOMAIN r.steps = DOMAIN cmd.mem.steps
    BY DEF Continued
  <2>2. PICK m, n : m = Len(r.steps) /\ n = Len(cmd.mem.steps)
    OBVIOUS
  <2>3. m \in Nat /\ n \in Nat /\ 1..m = 1..n
    BY <1>1, <2>1, <2>2, SeqFacts DEF Shaped
  <2>4. m <= n /\ n <= m
    BY <2>3
  <2> QED  BY <2>2, <2>3, <2>4
<1>6. \A i \in DOMAIN q.steps : q.steps[i].action = cmd.mem.steps[i].action
  BY <1>3, <1>5 DEF Continued, LastStep
<1> QED  BY <1>2, <1>3, <1>4, <1>6 DEF Continued

LEMMA ReconcileChains ==
  ASSUME ChainInv, FenceInv, LaunchInv, LaunchInv', SightInv, Reconcile
  PROVE  ChainInv' /\ OnlyNewestAttaches
<1> DEFINE agrees == Matches(cmd.mem, cmd.observation)
<1>1. PICK record, next :
        /\ record = Reconciled(cmd.mem, cmd.observation)
        /\ next = IF ~Verifying THEN To("observed")
                  ELSE IF ~agrees
                  THEN [cmd EXCEPT !.pc = "fail", !.outcome = "uncertain"]
                  ELSE IF LastStep(cmd.mem).action = "attach-volume" /\ cmd.mem.reuse # None
                  THEN To("settle") ELSE To("next")
  OBVIOUS
<1>2. cmd # None /\ cmd.pc = "reconcile" /\ Persist(record, next)
  BY <1>1 DEF Reconcile, At
<1>3. IsCommand(cmd) /\ DOMAIN cmd.mem = Fields /\ Shaped(cmd.mem, cmd.dep)
  BY <1>2, CommandInChain
<1>4. DOMAIN next = DOMAIN cmd /\ next.dep = cmd.dep /\ next.op = cmd.op
      /\ next.pc \notin {"approve", "reserve", "fenced"}
  BY <1>1, <1>3 DEF IsCommand, To
<1>5. PICK latest :
        latest = [cmd.mem EXCEPT !.latest = cmd.observation,
                                 !.implicit = @ \/ (agrees /\ "implicit" \in DOMAIN cmd.observation)]
  OBVIOUS
<1>6. Continued(latest) /\ latest.steps = cmd.mem.steps
  <2>1. DOMAIN latest = Fields
        /\ \A field \in {"id", "previous", "reuse", "successor", "steps"} : latest[field] = cmd.mem[field]
    BY <1>3, <1>5 DEF Fields
  <2> QED  BY <1>2, <2>1, SameStepsContinue
<1>7. record = latest \/ (record = WithLast(latest, [LastStep(cmd.mem) EXCEPT !.verified = TRUE])
                           /\ cmd.mem.steps # <<>>)
  BY <1>1, <1>5 DEF Reconciled
<1>8. Continued(record)
  <2>1. CASE record = latest
    BY <1>6, <2>1
  <2>2. CASE record = WithLast(latest, [LastStep(cmd.mem) EXCEPT !.verified = TRUE]) /\ cmd.mem.steps # <<>>
    <3>1. IsStep(LastStep(cmd.mem))
      BY <1>3, <2>2, SeqFacts DEF LastStep, Shaped
    <3>2. PICK step : step = [LastStep(cmd.mem) EXCEPT !.verified = TRUE]
      OBVIOUS
    <3>3. IsStep(step) /\ step.action = LastStep(cmd.mem).action
      BY <3>1, <3>2 DEF IsStep
    <3> QED  BY <1>2, <1>6, <2>2, <3>2, <3>3, WithLastContinues
  <2> QED  BY <1>7, <2>1, <2>2
<1> QED  BY <1>2, <1>4, <1>8, PersistChains

LEMMA RetainChains ==
  ASSUME ChainInv, FenceInv, LaunchInv, LaunchInv', SightInv, NEW c \in children, Retain(c) \/ Reply(c)
  PROVE  ChainInv' /\ OnlyNewestAttaches
<1>1. cmd # None /\ cmd.pc = "call"
  BY AttendedIsAlone DEF Retain, Reply
<1>2. IsCommand(cmd) /\ DOMAIN cmd.mem = Fields /\ Shaped(cmd.mem, cmd.dep)
  BY <1>1, CommandInChain
<1>3. Continued(cmd.mem) /\ Continued(Confirmed(cmd.mem))
  <2>1. PICK q : q = Confirmed(cmd.mem)
    OBVIOUS
  <2>2. DOMAIN q = Fields
        /\ \A field \in {"id", "previous", "reuse", "successor", "steps"} : q[field] = cmd.mem[field]
    BY <1>2, <2>1, OtherFieldsKept
  <2> QED  BY <1>1, <1>2, <2>1, <2>2, SameStepsContinue DEF Continued
<1>4. CASE Retain(c)
  <2>1. cmd.mem.steps # <<>>
    BY <1>1, CommandKnows DEF Knows
  <2>2. IsStep(LastStep(cmd.mem))
    BY <1>2, <2>1, SeqFacts DEF LastStep, Shaped
  <2>3. PICK step : step = [LastStep(cmd.mem) EXCEPT !.returned = TRUE]
    OBVIOUS
  <2>4. IsStep(step) /\ step.action = LastStep(cmd.mem).action
    BY <2>2, <2>3 DEF IsStep
  <2>5. Continued(WithLast(cmd.mem, step))
    BY <1>1, <1>3, <2>1, <2>4, WithLastContinues
  <2>6. PICK record : record = WithLast(cmd.mem, step)
    OBVIOUS
  <2>10. PICK done : done = [cmd EXCEPT !.mem = record]
    OBVIOUS
  <2>7. PICK failed : Retains(c, record, done, failed)
    BY <1>2, <1>4, <2>3, <2>6, <2>10, RetainWrites
  <2>8. GoesOn(done) /\ done.mem = record
    <3>1. done.dep = cmd.dep /\ done.op = cmd.op /\ done.mem = record /\ done.pc = "call"
      BY <1>1, <1>2, <2>10 DEF IsCommand
    <3> QED  BY <2>5, <2>6, <3>1 DEF GoesOn, Continued
  <2>9. GoesOn(failed) /\ failed.mem \in {record, cmd.mem}
    <3>1. failed.mem \in {record, cmd.mem}
      BY <2>7 DEF Held, Retains
    <3> QED  BY <1>3, <2>5, <2>6, <2>7, <3>1 DEF GoesOn, Continued, Retains
  <2>11. Write(cmd.dep, record, done, failed) /\ failed.pc = "fail"
    BY <2>7 DEF Retains
  <2> QED  BY <1>1, <2>5, <2>6, <2>8, <2>9, <2>11, ContinuedWriteChains
<1>5. CASE Reply(c)
  <2>1. PICK next : next = IF c.phase = "done" THEN To("observe") ELSE [cmd EXCEPT !.pc = "fail", !.outcome = c.outcome]
    OBVIOUS
  <2>2. Persist(Confirmed(cmd.mem), next)
    BY <1>5, <2>1 DEF Reply
  <2>3. DOMAIN next = DOMAIN cmd /\ next.dep = cmd.dep /\ next.op = cmd.op
        /\ next.pc \notin {"approve", "reserve", "fenced"}
    BY <1>2, <2>1 DEF IsCommand, To
  <2> QED  BY <1>1, <1>3, <2>2, <2>3, PersistChains
<1> QED  BY <1>4, <1>5

LEMMA RecordAbandonmentChains ==
  ASSUME ChainInv, FenceInv, LaunchInv, LaunchInv', SightInv, RecordAbandonment
  PROVE  ChainInv' /\ OnlyNewestAttaches
<1>1. PICK record, done, failed :
        /\ record = [cmd.mem EXCEPT !.abandoned = TRUE]
        /\ done = [cmd EXCEPT !.mem = record, !.pc = "settle"]
        /\ failed = To("end")
  OBVIOUS
<1>2. cmd # None /\ cmd.pc = "abandon" /\ Write(cmd.dep, record, done, failed)
  BY <1>1 DEF RecordAbandonment, At
<1>3. IsCommand(cmd) /\ DOMAIN cmd.mem = Fields
  BY <1>2, CommandInChain
<1>4. Continued(record)
  <2>1. /\ DOMAIN record = Fields
        /\ \A field \in {"id", "previous", "reuse", "successor", "steps"} : record[field] = cmd.mem[field]
    BY <1>1, <1>3, OtherFieldsKept
  <2> QED  BY <1>2, <2>1, SameStepsContinue
<1>5. done.dep = cmd.dep /\ done.op = cmd.op /\ done.mem = record /\ done.pc = "settle"
  BY <1>1, <1>3 DEF IsCommand
<1>6. GoesOn(done)
  BY <1>4, <1>5 DEF GoesOn, Continued
<1>7. GoesOn(failed) /\ failed.mem = cmd.mem /\ failed.pc = "end"
  BY <1>1, <1>2, CommandInChain
<1> QED  BY <1>2, <1>4, <1>5, <1>6, <1>7, ContinuedWriteChains

LEMMA CloseChains ==
  ASSUME ChainInv, FenceInv, LaunchInv, LaunchInv', SightInv, Close
  PROVE  ChainInv' /\ OnlyNewestAttaches
<1>1. PICK base, record : base = Attested(cmd.mem) /\ record = Closed(base)
  OBVIOUS
<1>2. PICK done, failed :
        /\ done = [cmd EXCEPT !.mem = record, !.pc = IF TriesNextZone THEN "next" ELSE "end"]
        /\ failed = [cmd EXCEPT !.mem = Held(record), !.pc = IF TriesNextZone THEN "fail" ELSE "end"]
  OBVIOUS
<1>3. cmd # None /\ cmd.pc = "fail" /\ Write(cmd.dep, record, done, failed)
  BY <1>1, <1>2 DEF Close, At
<1>4. IsCommand(cmd) /\ DOMAIN cmd.mem = Fields /\ Shaped(cmd.mem, cmd.dep)
  BY <1>3, CommandInChain
<1>5. Continued(base) /\ base.steps = cmd.mem.steps
  <2>1. base = Confirmed(cmd.mem) \/ base = Fenced(cmd.mem)
    BY <1>1 DEF Attested
  <2>2. DOMAIN base = Fields
        /\ \A field \in {"id", "previous", "reuse", "successor", "steps"} : base[field] = cmd.mem[field]
    BY <1>4, <2>1, OtherFieldsKept
  <2> QED  BY <1>3, <2>2, SameStepsContinue
<1>6. Continued(record)
  <2>1. CASE ~OwnsOpenStep
    BY <1>1, <1>5, <2>1 DEF Closed
  <2>2. CASE OwnsOpenStep
    <3>1. cmd.mem.steps # <<>>
      BY <2>2, EmptySeq DEF OwnsOpenStep, Verifying
    <3>2. LastStep(base) = LastStep(cmd.mem) /\ IsStep(LastStep(cmd.mem))
      BY <1>4, <1>5, <3>1, SeqFacts DEF LastStep, Shaped
    <3>3. PICK step : step = [LastStep(base) EXCEPT !.outcome = cmd.outcome]
      OBVIOUS
    <3>4. IsStep(step) /\ step.action = LastStep(cmd.mem).action
      BY <3>2, <3>3 DEF IsStep
    <3>5. record = WithLast(base, step)
      BY <1>1, <2>2, <3>3 DEF Closed
    <3> QED  BY <1>3, <1>5, <3>1, <3>4, <3>5, WithLastContinues
  <2> QED  BY <2>1, <2>2
<1>7. /\ done.dep = cmd.dep /\ done.op = cmd.op /\ done.mem = record /\ done.pc \in {"next", "end"}
      /\ failed.dep = cmd.dep /\ failed.op = cmd.op /\ failed.mem \in {record, cmd.mem}
      /\ failed.pc \in {"fail", "end"}
  BY <1>2, <1>4 DEF IsCommand, Held
<1>8. GoesOn(done) /\ GoesOn(failed)
  <2>1. \A field \in {"id", "previous", "reuse", "successor"} : record[field] = cmd.mem[field]
    BY <1>6 DEF Continued
  <2>2. DOMAIN record = Fields
    BY <1>6 DEF Continued
  <2> QED  BY <1>4, <1>7, <2>1, <2>2 DEF GoesOn
<1> QED  BY <1>3, <1>6, <1>7, <1>8, ContinuedWriteChains

LEMMA FenceChains ==
  ASSUME ChainInv, FenceInv, LaunchInv, LaunchInv', SightInv, Fence
  PROVE  ChainInv' /\ OnlyNewestAttaches
<1>1. PICK attempt : attempt = IF cmd.op = "create" THEN 0 ELSE cmd.mem.removals + (IF cmd.approval THEN 1 ELSE 0)
  OBVIOUS
<1>2. PICK step : step = Step(Planned, attempt)
  OBVIOUS
<1>3. PICK record : record = [Fenced(cmd.mem) EXCEPT !.steps = Append(@, step), !.removals = attempt]
  OBVIOUS
<1>4. PICK done, failed :
        /\ done = [cmd EXCEPT !.mem = record, !.pc = "fenced", !.fence = Len(record.steps), !.approval = FALSE]
        /\ failed = [Failing(record) EXCEPT !.fence = Len(record.steps)]
  OBVIOUS
<1>5. cmd # None /\ cmd.pc = "next" /\ Planned # None /\ Write(cmd.dep, record, done, failed)
  BY <1>1, <1>2, <1>3, <1>4 DEF Fence, At
<1>6. PICK r, s : r = cmd.mem /\ s = cmd.mem.steps
  OBVIOUS
<1>7. IsCommand(cmd) /\ DOMAIN r = Fields /\ Shaped(r, cmd.dep) /\ IsSeq(s)
  BY <1>5, <1>6, CommandInChain DEF Shaped
<1>8. /\ DOMAIN record = Fields /\ record.steps = Append(s, step)
      /\ \A field \in {"id", "previous", "reuse", "successor"} : record[field] = r[field]
  BY <1>3, <1>6, <1>7 DEF Fenced, Fields
<1>9. IsStep(step) /\ step.action = Planned
  BY <1>2 DEF Step, IsStep
<1>10. PICK t : t = record.steps
  OBVIOUS
<1>11. /\ IsSeq(t) /\ Len(t) = Len(s) + 1 /\ DOMAIN t = 1..(Len(s) + 1) /\ t # <<>>
       /\ \A i \in DOMAIN s : t[i] = s[i]
       /\ t[Len(s) + 1] = step /\ Len(s) \in Nat /\ DOMAIN s = 1..Len(s)
  BY <1>7, <1>8, <1>10, SeqAdd, SeqFacts
<1>12. Shaped(record, cmd.dep)
  <2>1. \A i \in DOMAIN t : t[i] = step \/ (i \in DOMAIN s /\ t[i] = s[i])
    BY <1>11
  <2>2. {"id", "steps"} \subseteq DOMAIN record /\ record.id = r.id
    BY <1>8 DEF Fields
  <2> QED  BY <1>6, <1>7, <1>9, <1>10, <1>11, <2>1, <2>2 DEF Shaped
<1>13. cmd.op # "create" => step.action \in Removing /\ s # <<>>
  <2>1. ASSUME cmd.op # "create"
        PROVE  RemovalPlan(r) # {} /\ step.action = NextRemoval(r)
    BY <1>5, <1>6, <1>9, <2>1 DEF Planned, NextRemoval
  <2>2. RemovalPlan(r) # {} => s # <<>>
    <3>1. ASSUME NEW p \in RemovalPlan(r)
          PROVE  s # <<>>
      <4>1. StepOf(r, REMOVALS[p][2]) # 0
        BY <3>1 DEF RemovalPlan, Returned
      <4>2. DOMAIN s # {}
        BY <1>6, <1>7, <4>1, StepOfFound
      <4> QED  BY <4>2, EmptySteps
    <3> QED  BY <3>1
  <2> QED  BY <2>1, <2>2, NextRemovalRemoves
<1>14. LastStep(record) = step
  BY <1>10, <1>11 DEF LastStep
<1>15. /\ done.dep = cmd.dep /\ done.op = cmd.op /\ done.mem = record /\ done.pc = "fenced"
  BY <1>4, <1>7 DEF IsCommand
<1>16. GoesOn(done)
  BY <1>6, <1>8, <1>13, <1>14, <1>15 DEF GoesOn
<1>17. GoesOn(failed) /\ failed.mem \in {record, cmd.mem} /\ failed.pc = "fail"
  <2>1. PICK k : k = Failing(record)
    OBVIOUS
  <2>2. GoesOn(k) /\ k.mem \in {record, cmd.mem} /\ k.pc = "fail" /\ DOMAIN k = DOMAIN cmd
    BY <1>5, <1>6, <1>8, <2>1, FailingGoesOn
  <2>3. failed.dep = k.dep /\ failed.op = k.op /\ failed.mem = k.mem /\ failed.pc = k.pc
    BY <1>4, <1>7, <2>1, <2>2 DEF IsCommand
  <2> QED  BY <2>2, <2>3 DEF GoesOn
<1>18. cmd.op # "create" =>
         \A i \in DOMAIN record.steps :
           record.steps[i].action = "attach-volume" => i \in DOMAIN cmd.mem.steps
  <2>1. \A i \in DOMAIN t : t[i] = step \/ i \in DOMAIN s
    BY <1>11
  <2> QED  BY <1>6, <1>10, <1>13, <2>1, RemovingMakesNothing
<1>19. \A i \in DOMAIN record.steps \cap DOMAIN cmd.mem.steps : record.steps[i].action = cmd.mem.steps[i].action
  BY <1>6, <1>10, <1>11
<1>20. record.steps # <<>> => cmd.mem.steps # <<>> \/ cmd.op = "create"
  BY <1>6, <1>13
<1> QED  BY <1>5, <1>6, <1>8, <1>12, <1>15, <1>16, <1>17, <1>18, <1>19, <1>20, OwnWriteChains

LEMMA MovingChains ==
  ASSUME ChainInv, FenceInv, LaunchInv, Decide \/ Cancel \/ Finish \/ CallBreaks \/ Spawn
  PROVE  ChainInv'
<1>1. cmd # None /\ UNCHANGED disk
      /\ cmd.pc \in {"observed", "next", "fenced", "call", "look", "probe", "keyed", "observe", "health"}
  BY DEF Decide, Cancel, Finish, CallBreaks, Spawn, At
<1>2. IsCommand(cmd) /\ InChain(cmd) /\ DOMAIN cmd.mem = Fields
  BY <1>1, CommandInChain
<1>3. PICK k : k = cmd'
  OBVIOUS
<1>4. /\ k.dep = cmd.dep /\ k.op = cmd.op /\ k.mem = cmd.mem
      /\ k.pc \in {"next", "end", "approve", "abandon", "health", "fail", "call"}
      /\ k.pc = "approve" => k.op = "reuse"
  <2>1. CASE Decide
    BY <1>2, <1>3, <2>1 DEF Decide, To, IsCommand
  <2>2. CASE Cancel
    BY <1>2, <1>3, <2>2 DEF Cancel, IsCommand
  <2>3. CASE Finish
    BY <1>2, <1>3, <2>3 DEF Finish, To, IsCommand
  <2>4. CASE CallBreaks
    BY <1>2, <1>3, <2>4 DEF CallBreaks, IsCommand
  <2>5. CASE Spawn
    BY <1>2, <1>3, <2>5 DEF Spawn, To, IsCommand
  <2> QED  BY <2>1, <2>2, <2>3, <2>4, <2>5
<1>5. GoesOn(k)
  BY <1>2, <1>4 DEF GoesOn, InChain
<1>6. Begun(k) => Begun(cmd)
  BY <1>1, <1>4 DEF Begun
<1> QED  BY <1>1, <1>3, <1>4, <1>5, <1>6, MoveChains

(* Steps that leave the records and the command alone, or end the command.   *)
LEMMA StillChains ==
  ASSUME ChainInv, FenceInv, LaunchInv, UNCHANGED disk, cmd' \in {cmd, None}
  PROVE  ChainInv'
<1>1. Existing' = Existing
  BY DEF Existing
<1>2. ChainHolds'
  <2>1. \A d \in Existing : Shaped(disk'[d], d)
    BY DEF LaunchInv, RecordsFit
  <2>2. \A d \in Existing : Evolves(disk[d], disk'[d]) /\ HandsOn(d, disk[d], disk'[d])
    BY EvolvesUnchanged DEF ChainInv
  <2> QED  BY <1>1, <2>1, <2>2, ChainStays DEF ChainInv
<1>3. CASE cmd' = None
  BY <1>2, <1>3 DEF ChainInv
<1>4. CASE cmd # None /\ cmd' = cmd
  <2>1. PICK k : k = cmd
    OBVIOUS
  <2>2. /\ DOMAIN k.mem = Fields
        /\ \A field \in {"id", "previous", "reuse", "successor"} : k.mem[field] = disk'[k.dep][field]
        /\ k.pc \notin {"fail", "end"} => k.mem = disk'[k.dep]
        /\ k.op \in {"create", "reuse"} => k.dep + 1 \notin Existing
        /\ k.pc = "approve" => k.op = "reuse"
        /\ k.pc = "reserve" => k.op = "create"
        /\ k.mem.reuse # None =>
             /\ k.mem.steps # <<>> \/ (k.op = "create" /\ k.pc \notin {"reserve", "end"})
                  => disk'[k.dep - 1].successor # None
             /\ k.op = "reuse" => HandedOff(disk'[k.dep - 1])
        /\ k.op # "create" =>
             /\ k.pc = "fenced" => LastStep(k.mem).action \in Removing
             /\ \A i \in DOMAIN k.mem.steps :
                  k.mem.steps[i].action = "attach-volume" => i \in DOMAIN disk'[k.dep].steps
    BY <1>4, <2>1 DEF ChainInv, InChain
  <2>3. InChain(cmd)'
    BY <1>1, <1>4, <2>1, <2>2 DEF InChain, LastStep
  <2> QED  BY <1>2, <2>3 DEF ChainInv
<1> QED  BY <1>3, <1>4

(* The newest deployment is the only one that precedes none.                 *)
LEMMA TipIsNewest ==
  ASSUME ChainHolds, LaunchInv, NEW d \in Existing
  PROVE  d \in Tips <=> d = Cardinality(Existing)
<1>1. PICK n \in Nat : n = Cardinality(Existing)
  BY ExistingIsInterval
<1>2. PICK E : E = Existing
  OBVIOUS
<1>3. E = 1..n /\ d \in E
  BY <1>1, <1>2, ExistingIsInterval
<1>4. \A e \in E : disk[e].previous = IF e = 1 THEN None ELSE e - 1
  BY <1>2 DEF ChainHolds, RecordInChain
<1>5. \A e \in E : disk[e].previous # n
  BY <1>3, <1>4, NoneAssumption
<1>6. d # n => d + 1 \in E /\ disk[d + 1].previous = d
  BY <1>3, <1>4
<1> QED  BY <1>1, <1>2, <1>3, <1>5, <1>6 DEF Tips

(* A new record at the end of the chain.                                    *)
LEMMA NewRecordChains ==
  ASSUME ChainInv, LaunchInv, FenceInv,
         NEW volume, NEW record,
         record = Deployment(New, IF Existing = {} THEN None ELSE Cardinality(Existing), volume),
         disk' = Recorded(New, record),
         volume # None =>
           LET p == Cardinality(Existing)
           IN /\ p \in Existing /\ VolumeId(disk[p]) = volume /\ HoldsVolume(disk[p])
              /\ disk[p].successor = None
              /\ Reuses(p) => HandedOff(disk[p - 1])
  PROVE  ChainHolds' /\ Existing' = Existing \cup {New} /\ disk'[New] = record /\ New + 1 \notin Existing'
         /\ DOMAIN record = Fields
<1>1. PICK n \in Nat : n = Cardinality(Existing)
  BY ExistingIsInterval
<1>2. PICK E : E = Existing
  OBVIOUS
<1>3. E = 1..n /\ New = n + 1
  BY <1>1, <1>2, ExistingIsInterval DEF New
<1>4. /\ Existing' = E \cup {n + 1}
      /\ disk'[n + 1] = record /\ \A e \in E : disk'[e] = disk[e]
  BY <1>2, <1>3 DEF Recorded, Existing
<1>5. E \cup {n + 1} = 1..(n + 1) /\ n + 2 \notin E \cup {n + 1} /\ n + 1 \notin E
  BY <1>3
<1>6. /\ DOMAIN record = Fields /\ record.previous = (IF n + 1 = 1 THEN None ELSE n)
      /\ record.id = n + 1 /\ record.reuse = volume /\ record.successor = None /\ record.steps = <<>>
      /\ record.abandoned = FALSE
  <2>1. E = {} <=> n = 0
    BY <1>3
  <2>2. n + 1 = 1 <=> n = 0
    OBVIOUS
  <2> QED  BY <1>1, <1>2, <1>3, <2>1, <2>2 DEF Deployment, Fields
<1>7. \A e \in E : Reuses(e)' <=> Reuses(e)
  BY <1>2, <1>4, <1>5 DEF Reuses
<1>8. Reuses(n + 1)' <=> volume # None
  BY <1>4, <1>6 DEF Reuses
<1>9. ~Reuses(n + 2)'
  BY <1>4, <1>5 DEF Reuses
<1>10. ~Reuses(n + 1)
  BY <1>2, <1>5 DEF Reuses
<1>11. VolumeId(record) = volume
  <2>1. ~Returned(record, "create-volume")
    <3>1. StepOf(record, "create-volume") = 0
      <4>1. StepOf(record, "create-volume") # 0 => StepOf(record, "create-volume") \in DOMAIN record.steps
        BY <1>6, EmptySteps, StepOfFound
      <4> QED  BY <1>6, <4>1, EmptySteps
    <3> QED  BY <3>1 DEF Returned
  <2> QED  BY <1>6, <2>1 DEF VolumeId
<1>12. volume # None =>
         /\ n \in E /\ n >= 1 /\ VolumeId(disk[n]) = volume /\ HoldsVolume(disk[n]) /\ disk[n].successor = None
         /\ Reuses(n) => HandedOff(disk[n - 1])
  BY <1>1, <1>2, <1>3
<1>13. ASSUME NEW d \in E
       PROVE  RecordInChain(d)'
  <2>1. RecordInChain(d)
    BY <1>2 DEF ChainInv, ChainHolds
  <2>2. Reuses(d + 1) => Reuses(d + 1)'
    <3>1. Reuses(d + 1) => d + 1 \in E
      BY <1>2 DEF Reuses
    <3> QED  BY <1>7, <3>1
  <2> QED  BY <1>4, <2>1, <2>2 DEF RecordInChain
<1>14. RecordInChain(n + 1)'
  <2>1. PICK m : m = n + 1
    OBVIOUS
  <2>2. VolumeId(record) # None => VolumeId(record) \in (1..m) \X Nat
    <3>1. volume # None => volume \in (1..n) \X Nat
      <4>1. volume # None => RecordInChain(n)
        BY <1>2, <1>12 DEF ChainInv, ChainHolds
      <4> QED  BY <1>12, <4>1 DEF RecordInChain
    <3>2. 1..n \subseteq 1..m
      BY <2>1
    <3> QED  BY <1>11, <3>1, <3>2
  <2>3. disk'[m] = record /\ m - 1 = n
    BY <1>4, <2>1
  <2>4. RecordInChain(m)'
    BY <1>6, <2>1, <2>2, <2>3 DEF RecordInChain
  <2> QED  BY <2>1, <2>4
<1>15. ASSUME NEW e \in E, Reuses(e)
       PROVE  ReuseInChain(e)'
  <2>1. ReuseInChain(e)
    BY <1>2, <1>15 DEF ChainInv, ChainHolds
  <2>2. PICK p : p = e - 1
    OBVIOUS
  <2>3. p \in E /\ p + 1 = e
    BY <1>2, <1>3, <2>1, <2>2 DEF ReuseInChain
  <2>4. Reuses(e + 1)' => HandedOff(disk[p])
    <3>1. CASE e + 1 \in E
      BY <1>7, <2>1, <2>2, <3>1 DEF ReuseInChain
    <3>2. CASE e + 1 \notin E
      <4>1. e = n
        BY <1>3, <3>2
      <4> QED  BY <1>8, <1>12, <1>15, <2>2, <4>1
    <3> QED  BY <3>1, <3>2
  <2>5. disk'[p] = disk[p] /\ disk'[e] = disk[e] /\ p \in Existing'
    BY <1>4, <2>3
  <2>6. /\ VolumeId(disk[p]) = disk[e].reuse /\ HoldsVolume(disk[p])
        /\ disk[p].successor = None => disk[e].steps = <<>>
        /\ HandedOff(disk[p]) => HoldsVolume(disk[e])
    BY <2>1, <2>2 DEF ReuseInChain
  <2> QED  BY <2>2, <2>4, <2>5, <2>6 DEF ReuseInChain
<1>16. ASSUME volume # None
       PROVE  ReuseInChain(n + 1)'
  <2>1. PICK m : m = n + 1
    OBVIOUS
  <2>2. m - 1 = n /\ m + 1 = n + 2 /\ disk'[m] = record /\ disk'[n] = disk[n] /\ n \in Existing'
    BY <1>4, <1>12, <1>16, <2>1
  <2>3. ~HandedOff(disk[n])
    BY <1>12, <1>16 DEF HandedOff
  <2>4. ReuseInChain(m)'
    BY <1>6, <1>9, <1>12, <1>16, <2>2, <2>3 DEF ReuseInChain
  <2> QED  BY <2>1, <2>4
<1>17. ChainHolds'
  <2>1. \A d \in Existing' : d \in E \/ d = n + 1
    BY <1>4
  <2>2. \A d \in Existing' : RecordInChain(d)'
    BY <1>13, <1>14, <2>1
  <2>3. \A e \in Existing' : Reuses(e)' => ReuseInChain(e)'
    BY <1>7, <1>8, <1>15, <1>16, <2>1
  <2> QED  BY <2>2, <2>3 DEF ChainHolds
<1>18. New + 1 = n + 2
  BY <1>3
<1> QED  BY <1>2, <1>3, <1>4, <1>5, <1>6, <1>17, <1>18

LEMMA BeginChains ==
  ASSUME ChainInv, FenceInv, LaunchInv, Ready, NEW d \in Existing,
         NEW op \in {"reuse", "remove", "abandon", "inspect", "handoff"}, NEW pc \in {"observe", "settle"},
         Begin(Command(op, d, disk[d], pc)),
         op = "reuse" => d + 1 \notin Existing /\ (Reuses(d) => HandedOff(disk[d - 1]))
  PROVE  ChainInv'
<1>1. PICK k : k = Command(op, d, disk[d], pc)
  OBVIOUS
<1>2. k.dep = d /\ k.mem = disk[d] /\ k.pc = pc /\ k.op = op
  BY <1>1 DEF Command
<1>3. UNCHANGED disk /\ cmd' = k
  BY <1>1 DEF Begin
<1>4. ChainHolds'
  <2>1. Existing' = Existing
    BY <1>3 DEF Existing
  <2>2. \A e \in Existing : Shaped(disk'[e], e)
    BY <1>3 DEF LaunchInv, RecordsFit
  <2>3. \A e \in Existing : Evolves(disk[e], disk'[e]) /\ HandsOn(e, disk[e], disk'[e])
    BY <1>3, EvolvesUnchanged DEF ChainInv
  <2> QED  BY <1>3, <2>1, <2>2, <2>3, ChainStays DEF ChainInv
<1>5. PICK r : r = disk[d]
  OBVIOUS
<1>6. DOMAIN r = Fields
  BY <1>5 DEF ChainInv, ChainHolds, RecordInChain
<1>7. r.reuse # None /\ r.steps # <<>> => disk[d - 1].successor # None
  BY <1>5 DEF ChainInv, ChainHolds, Reuses, ReuseInChain
<1>8. op = "reuse" /\ r.reuse # None => HandedOff(disk[d - 1])
  BY <1>5 DEF Reuses
<1>9. InChain(cmd)'
  <2>1. Existing' = Existing /\ disk' = disk /\ disk'[d] = r
    BY <1>3, <1>5 DEF Existing
  <2> QED  BY <1>2, <1>3, <1>5, <1>6, <1>7, <1>8, <2>1 DEF InChain
<1> QED  BY <1>4, <1>9 DEF ChainInv

LEMMA PrecedesIsNewest ==
  ASSUME ChainInv, LaunchInv, NEW previous, Precedes(previous)
  PROVE  previous = Cardinality(Existing) /\ previous \in Existing /\ previous + 1 \notin Existing
<1>1. previous \in Tips /\ previous \in Existing
  BY DEF Precedes, Tips
<1>2. previous = Cardinality(Existing)
  BY <1>1, TipIsNewest DEF ChainInv
<1>3. PICK n \in Nat : n = Cardinality(Existing)
  BY ExistingIsInterval
<1>4. n + 1 \notin 1..n
  OBVIOUS
<1> QED  BY <1>1, <1>2, <1>3, <1>4, ExistingIsInterval

LEMMA StartsChain ==
  ASSUME ChainInv, FenceInv, LaunchInv, Starts
  PROVE  ChainInv'
<1>1. ASSUME NEW previous, CreateNew(previous)
      PROVE  ChainInv'
  <2>1. previous = IF Existing = {} THEN None ELSE Cardinality(Existing)
    <3>1. CASE previous = None
      BY <1>1, <3>1 DEF CreateNew
    <3>2. CASE previous # None
      <4>1. Precedes(previous)
        BY <1>1, <3>2 DEF CreateNew
      <4>2. previous = Cardinality(Existing) /\ previous \in Existing
        BY <4>1, PrecedesIsNewest
      <4> QED  BY <4>2
    <3> QED  BY <3>1, <3>2
  <2>2. PICK record : record = Deployment(New, previous, None)
    OBVIOUS
  <2>3. PICK k : k = Command("create", New, record, "key")
    OBVIOUS
  <2>4. disk' = Recorded(New, record) /\ cmd' = k
    BY <1>1, <2>2, <2>3 DEF CreateNew
  <2>5. ChainHolds' /\ Existing' = Existing \cup {New} /\ disk'[New] = record /\ New + 1 \notin Existing'
        /\ DOMAIN record = Fields
    BY <2>1, <2>2, <2>4, NewRecordChains
  <2>6. k.dep = New /\ k.mem = record /\ k.pc = "key" /\ k.op = "create"
    BY <2>3 DEF Command
  <2>7. record.reuse = None
    BY <2>2 DEF Deployment
  <2>8. InChain(cmd)'
    <3>1. PICK n : n = New
      OBVIOUS
    <3>2. cmd'.dep = n /\ cmd'.mem = record /\ cmd'.pc = "key" /\ cmd'.op = "create"
          /\ disk'[n] = record /\ n + 1 \notin Existing'
      BY <2>4, <2>5, <2>6, <3>1
    <3> QED  BY <2>5, <2>7, <3>2 DEF InChain
  <2> QED  BY <2>5, <2>8 DEF ChainInv
<1>2. ASSUME NEW d \in Existing, CreateReuse(d)
      PROVE  ChainInv'
  <2>1. d + 1 \notin Existing
    BY <1>2, PrecedesIsNewest DEF CreateReuse
  <2>2. ASSUME Reuses(d)
        PROVE  HandedOff(disk[d - 1])
    <3>1. disk[d].reuse # None /\ disk[d].reuse = VolumeId(disk[d]) /\ HoldsVolume(disk[d])
      BY <1>2, <2>2 DEF Reuses, VolumeId, CreateReuse, Reusable
    <3>2. d \in Nat
      BY ExistingIsInterval
    <3>3. IsIntact(disk[disk[d].previous], disk[d])
      BY <1>2, <3>1, <3>2 DEF CreateReuse, ChainIntact
    <3>4. disk[d].previous = d - 1
      <4>1. d - 1 \in Existing
        BY <2>2 DEF ChainInv, ChainHolds, ReuseInChain
      <4>2. d # 1
        <5>1. 0 \notin Existing
          BY ExistingIsInterval
        <5> QED  BY <4>1, <5>1
      <4> QED  BY <4>2 DEF ChainInv, ChainHolds, RecordInChain
    <3> QED  BY <3>1, <3>3, <3>4 DEF IsIntact, HandedOff
  <2>3. Ready /\ Begin(Command("reuse", d, disk[d], "observe"))
    BY <1>2 DEF CreateReuse
  <2> QED  BY <2>1, <2>2, <2>3, BeginChains
<1>3. ASSUME NEW d \in Existing, RemoveHost(d) \/ Abandon(d) \/ Inspect(d) \/ HandOff(d)
      PROVE  ChainInv'
  <2>1. Ready /\ \E op \in {"remove", "abandon", "inspect", "handoff"} :
          \E pc \in {"observe", "settle"} : Begin(Command(op, d, disk[d], pc))
    BY <1>3 DEF RemoveHost, Abandon, Inspect, HandOff
  <2> QED  BY <2>1, BeginChains
<1> QED  BY <1>1, <1>2, <1>3 DEF Starts

LEMMA ApproveChains ==
  ASSUME ChainInv, FenceInv, LaunchInv, Approve
  PROVE  ChainInv'
<1>1. PICK d, volume, record, k :
        /\ d = cmd.dep /\ volume = Reusable(disk[d])
        /\ record = Deployment(New, d, volume)
        /\ k = [cmd EXCEPT !.op = "create", !.dep = New, !.mem = record, !.pc = "reserve"]
  OBVIOUS
<1>2. cmd # None /\ cmd.pc = "approve" /\ disk' = Recorded(New, record) /\ cmd' = k /\ volume # None
  BY <1>1 DEF Approve, At
<1>3. IsCommand(cmd) /\ InChain(cmd) /\ d \in Existing
  BY <1>1, <1>2, CommandInChain
<1>4. /\ d + 1 \notin Existing
      /\ disk[d].reuse # None => HandedOff(disk[d - 1])
  BY <1>1, <1>2, <1>3 DEF InChain
<1>5. d = Cardinality(Existing)
  <2>1. PICK n \in Nat : n = Cardinality(Existing)
    BY ExistingIsInterval
  <2>2. d \in 1..n /\ d + 1 \notin 1..n
    BY <1>3, <1>4, <2>1, ExistingIsInterval
  <2> QED  BY <2>1, <2>2
<1>6. VolumeId(disk[d]) = volume /\ HoldsVolume(disk[d]) /\ disk[d].successor = None
  BY <1>1, <1>2 DEF Reusable
<1>7. Reuses(d) => HandedOff(disk[d - 1])
  BY <1>4 DEF Reuses
<1>8. ChainHolds' /\ Existing' = Existing \cup {New} /\ disk'[New] = record /\ New + 1 \notin Existing'
      /\ DOMAIN record = Fields
  <2>1. record = Deployment(New, IF Existing = {} THEN None ELSE Cardinality(Existing), volume)
    BY <1>1, <1>3, <1>5
  <2> QED  BY <1>2, <1>3, <1>5, <1>6, <1>7, <2>1, NewRecordChains
<1>9. k.dep = New /\ k.mem = record /\ k.pc = "reserve" /\ k.op = "create"
  BY <1>1, <1>3 DEF IsCommand
<1>10. record.steps = <<>>
  BY <1>1 DEF Deployment
<1>11. InChain(cmd)'
  <2>1. PICK n : n = New
    OBVIOUS
  <2>2. cmd'.dep = n /\ cmd'.mem = record /\ cmd'.pc = "reserve" /\ cmd'.op = "create"
        /\ disk'[n] = record /\ n + 1 \notin Existing'
    BY <1>2, <1>8, <1>9, <2>1
  <2> QED  BY <1>8, <1>10, <2>2 DEF InChain
<1> QED  BY <1>8, <1>11 DEF ChainInv

LEMMA CoordinatesChain ==
  ASSUME ChainInv, FenceInv, LaunchInv, LaunchInv', SightInv, Coordinates
  PROVE  ChainInv'
<1>1. CASE End
  BY <1>1, StillChains DEF End
<1> QED  BY <1>1, ApproveChains, SettlingChains, PersistingChains, FenceChains, MovingChains, RetainChains,
            ReconcileChains, RecordAbandonmentChains, CloseChains DEF Coordinates

(* Every deployment of an alias follows the last one; one that reuses a volume  *)
(* takes it from the one before it, which held it, reserved it before anything  *)
(* was done for the new one and hands it off only to one that holds it        *)
(* (lineage/chain.ts, handoff.ts).                                           *)
THEOREM ChainInvariant == Spec => []ChainInv
<1>1. Init => ChainInv
  <2> SUFFICES ASSUME Init PROVE ChainInv
    OBVIOUS
  <2>1. DOMAIN disk = {} /\ cmd = None
    BY EmptySteps, Zenon DEF Init
  <2> QED  BY <2>1 DEF ChainInv, ChainHolds, Existing
<1>2. ChainInv /\ SightInv /\ LaunchInv /\ LaunchInv' /\ FenceInv /\ [Next]_vars => ChainInv'
  <2> SUFFICES ASSUME ChainInv, SightInv, LaunchInv, LaunchInv', FenceInv, [Next]_vars
               PROVE  ChainInv'
    OBVIOUS
  <2>1. CASE Crash \/ ClearLock \/ Drift \/ UNCHANGED vars \/ Calls
    <3>1. UNCHANGED disk /\ cmd' \in {cmd, None}
      BY <2>1 DEF Crash, ClearLock, Drift, vars, Calls, Authorise, Dispatch, DoNotAttempt, GiveUp, Leave, Land, Refuse
    <3> QED  BY <3>1, StillChains
  <2> QED  BY <2>1, StartsChain, CoordinatesChain DEF Next
<1> QED  BY <1>1, <1>2, FenceInvariant, LaunchInvariant, SightInvariant, PTL DEF Spec

-----------------------------------------------------------------------------
(* What a step may change.                                                  *)

LEMMA WriteAccepts ==
  ASSUME NEW d, NEW record, NEW done, NEW failed, Write(d, record, done, failed), NEW e \in Existing
  PROVE  e \in Existing' /\ (disk'[e] = disk[e] \/ Accepted(e, disk'[e]))
BY DEF Write, Existing

(* Every record is replaced by one that the rules accept, or not at all.     *)
LEMMA NextAccepts ==
  ASSUME LaunchInv, [Next]_vars, NEW e \in Existing
  PROVE  e \in Existing' /\ (disk'[e] = disk[e] \/ Accepted(e, disk'[e]))
<1>1. \/ UNCHANGED disk
      \/ \E record : disk' = Recorded(New, record)
      \/ \E d, record, done, failed : Write(d, record, done, failed)
  <2>1. CASE Starts
    BY <2>1 DEF Starts, CreateNew, CreateReuse, RemoveHost, Abandon, Inspect, HandOff, Begin
  <2>2. CASE Coordinates
    BY <2>2 DEF Coordinates, Approve, ReservePrevious, FenceKey, KeyGenerated, Fence, Spawn, Cancel, Finish, Retain,
                Reply, CallBreaks, FenceObserve, Look, Reconcile, Decide, FenceHealth, Probe, RecordHealth,
                RecordAbandonment, Settle, Close, End, Persist
  <2>3. CASE Calls \/ Crash \/ ClearLock \/ Drift \/ UNCHANGED vars
    BY <2>3 DEF Crash, ClearLock, Drift, vars, Calls, Authorise, Dispatch, DoNotAttempt, GiveUp, Leave, Land, Refuse
  <2> QED  BY <2>1, <2>2, <2>3 DEF Next
<1>2. CASE UNCHANGED disk
  BY <1>2 DEF Existing
<1>3. ASSUME NEW record, disk' = Recorded(New, record)
      PROVE  e \in Existing' /\ disk'[e] = disk[e]
  BY <1>3, NewIsNew DEF Recorded, Existing
<1> QED  BY <1>1, <1>2, <1>3, WriteAccepts

(* The volume of a deployment stays the same.                               *)
LEMMA VolumeStays ==
  ASSUME LaunchInv, LaunchInv', SightInv, [Next]_vars, NEW e \in Existing, VolumeId(disk[e]) # None
  PROVE  e \in Existing' /\ VolumeId(disk'[e]) = VolumeId(disk[e])
<1>1. e \in Existing' /\ (disk'[e] = disk[e] \/ Accepted(e, disk'[e]))
  BY NextAccepts
<1>2. PICK record : record = disk'[e]
  OBVIOUS
<1>3. Shaped(disk[e], e) /\ Directed(disk[e])
  BY DEF LaunchInv, RecordsFit, SightInv, RecordsSee
<1>4. Shaped(record, e)
  BY <1>1, <1>2 DEF LaunchInv, RecordsFit
<1>5. CASE Accepted(e, record)
  BY <1>1, <1>2, <1>3, <1>4, <1>5, AcceptedKeeps
<1> QED  BY <1>1, <1>2, <1>5

(* Only the start of a child makes a call possible.                         *)
LEMMA NextCalms ==
  ASSUME SightInv, LaunchInv, FenceInv, [Next]_vars, ~Spawn
  PROVE  Calm
<1>1. CASE Starts
  <2>1. children' = {} /\ UNCHANGED <<objects, flight>>
    BY <1>1, ReadyHasNoChild DEF Starts, CreateNew, CreateReuse, RemoveHost, Abandon, Inspect, HandOff, Begin
  <2> QED  BY <2>1, QuietCalms DEF Traces
<1>2. CASE Crash \/ ClearLock \/ Drift \/ UNCHANGED vars
  <2>1. UNCHANGED <<children, flight>> /\ Traces' \subseteq Traces
    BY <1>2 DEF Crash, ClearLock, Drift, vars, Traces
  <2> QED  BY <2>1, QuietCalms
<1>3. ASSUME NEW c \in children, Authorise(c) \/ DoNotAttempt(c) \/ GiveUp(c)
      PROVE  Calm
  <2>1. \E phase, outcome : /\ Become(c, phase, outcome) /\ UNCHANGED <<objects, flight>>
                            /\ phase \in {"spawned", "authorised"} => MayCall(c)
    BY <1>3 DEF Authorise, DoNotAttempt, GiveUp, MayCall
  <2>2. PICK phase, outcome : /\ Become(c, phase, outcome) /\ UNCHANGED <<objects, flight>>
                              /\ phase \in {"spawned", "authorised"} => MayCall(c)
    BY <2>1
  <2>3. PICK e : e = [c EXCEPT !.phase = phase, !.outcome = outcome]
    OBVIOUS
  <2>4. children' = (children \ {c}) \cup {e} /\ e.phase = phase /\ e.dep = c.dep /\ e.step = c.step
    BY <2>2, <2>3 DEF Become, FenceInv, ChildShape
  <2>5. \A x \in children' : MayCall(x) => \E y \in children : MayCall(y) /\ y.dep = x.dep /\ y.step = x.step
    BY <2>2, <2>4 DEF MayCall
  <2> QED  BY <2>2, <2>5, QuietCalms DEF Traces
<1>4. ASSUME NEW c \in children, Leave(c)
      PROVE  Calm
  <2>1. children' \subseteq children /\ UNCHANGED <<objects, flight>>
    BY <1>4 DEF Leave
  <2> QED  BY <2>1, QuietCalms DEF Traces
<1>5. ASSUME NEW call \in flight, Land(call)
      PROVE  Calm
  <2>1. objects' \subseteq objects \cup {call}
    BY <1>5 DEF Land, Effect
  <2> QED  BY <1>5, <2>1, EndedCallCalms DEF Land
<1>6. ASSUME NEW call \in flight, Refuse(call)
      PROVE  Calm
  BY <1>6, EndedCallCalms DEF Refuse
<1> QED  BY <1>1, <1>2, <1>3, <1>4, <1>5, <1>6, DispatchCalms, CoordinatesCalm DEF Next, Calls

-----------------------------------------------------------------------------
(* Attachments.                                                             *)

LEMMA NoStepOpen ==
  ASSUME NEW r, NEW d, Shaped(r, d), IsConsistent(r), r.steps # <<>>,
         ~IsOpen(r.steps[Len(r.steps)]), NEW i \in DOMAIN r.steps
  PROVE  ~IsOpen(r.steps[i])
<1>1. DOMAIN r.steps = 1..Len(r.steps) /\ Len(r.steps) \in Nat
  BY SeqFacts DEF Shaped
<1>2. CASE i = Len(r.steps)
  BY <1>2
<1>3. CASE i # Len(r.steps)
  <2>1. PICK j : j = i + 1
    OBVIOUS
  <2>2. j \in DOMAIN r.steps /\ j > 1 /\ j - 1 = i
    BY <1>1, <1>3, <2>1
  <2>3. Follows(r.steps[i], r.steps[j])
    BY <2>2 DEF IsConsistent
  <2> QED  BY <2>3 DEF Follows, Settled, IsOpen, StateOf, Declined
<1> QED  BY <1>2, <1>3

(* What is offered for reuse is attached to nothing by its own deployment.   *)
LEMMA ReusableIsDetached ==
  ASSUME LaunchInv, ParsedInv, SightInv, AttachInv, NEW d \in Existing, Reusable(disk[d]) # None
  PROVE  Detached(d)
<1>1. PICK r : r = disk[d]
  OBVIOUS
<1>2. Shaped(r, d) /\ Truthful(r, d) /\ IsConsistent(r) /\ Directed(r) /\ Sees(r, d)
  BY <1>1 DEF LaunchInv, RecordsFit, ParsedInv, SightInv, RecordsSee
<1>3. SUFFICES ASSUME NEW i \in DOMAIN r.steps, r.steps[i].action = "attach-volume"
               PROVE  Traceless(d, i)
  BY <1>1 DEF Detached
<1>4. DOMAIN r.steps = 1..Len(r.steps) /\ Len(r.steps) \in Nat /\ IsSeq(r.steps)
  BY <1>2, SeqFacts DEF Shaped
<1>5. r.steps[i].removal = 0
  BY <1>2, <1>3, RemovingMakesNothing DEF Directed
<1>6. WellFormed(r.steps[i])
  BY <1>2 DEF IsConsistent
<1>7. StepOf(r, "attach-volume") = i
  <2>1. ASSUME NEW j \in DOMAIN r.steps, j > i, r.steps[j].action = "attach-volume"
        PROVE  FALSE
    <3>1. i < j
      BY <1>4, <2>1
    <3>2. "attach-volume" \notin Removing
      BY RemovingMakesNothing
    <3>3. Declined(r.steps[i])
      BY <1>2, <1>3, <2>1, <3>1, <3>2, NoRepeats
    <3> QED  BY <1>3, <3>3 DEF Declined
  <2> QED  BY <1>3, <1>4, <2>1, StepOfLast
<1>8. i # 0
  BY <1>4
<1>9. CASE StateOf(r.steps[i]) = "refused"
  <2>1. Refusal(r.steps[i].outcome)
    BY <1>9 DEF StateOf
  <2> QED  BY <1>2, <2>1 DEF Truthful
<1>10. CASE r.abandoned
  <2>1. ~Returned(r, "attach-volume") /\ Settled(r.steps[i])
    BY <1>2, <1>10 DEF IsConsistent, AbandonmentRecorded
  <2>2. ~r.steps[i].returned
    BY <1>7, <1>8, <2>1 DEF Returned
  <2>3. StateOf(r.steps[i]) = "refused"
    BY <1>5, <1>6, <2>1, <2>2 DEF Settled, StateOf, WellFormed
  <2> QED  BY <1>9, <2>3
<1>11. CASE ~r.abandoned /\ StateOf(r.steps[i]) # "refused"
  <2>1. Phase(r) = "retained"
    BY <1>1, <1>11 DEF Reusable, Phase
  <2>2. r.steps # <<>>
    BY <1>3, EmptySteps
  <2>3. LET last == Last(r.steps)
        IN last.outcome = "none" /\ last.verified /\ Unreleased(r) = {}
    <3>1. PICK last : last = Last(r.steps)
      OBVIOUS
    <3>2. Phase(r) =
            CASE last.outcome # "none" -> "failed"
              [] last.outcome = "none" /\ ~last.verified ->
                   IF last.returned THEN "returned" ELSE "unresolved"
              [] last.outcome = "none" /\ last.verified ->
                   CASE Resources(r) # {} /\ Unreleased(r) = {} ->
                          IF Retained(r) # {} THEN "retained"
                          ELSE IF HandedOff(r) THEN "handed-off"
                          ELSE IF r.removals > 0 THEN "removed" ELSE "absent"
                     [] OTHER -> IF last.removal # 0 THEN "removing" ELSE "creating"
      BY <1>11, <2>2, <3>1 DEF Phase
    <3>3. CASE last.outcome # "none"
      <4>1. WellFormed(last)
        <5>1. Len(r.steps) \in DOMAIN r.steps
          BY <1>2, <2>2, SeqFacts DEF Shaped
        <5> QED  BY <1>2, <3>1, <5>1 DEF IsConsistent, Last
      <4>2. ~last.verified
        BY <3>3, <4>1 DEF WellFormed
      <4>3. Phase(r) # "retained"
        BY <3>2, <3>3, <4>2
      <4> QED  BY <2>1, <4>3
    <3>4. CASE last.outcome = "none" /\ ~last.verified
      BY <2>1, <3>2, <3>4
    <3>5. CASE last.outcome = "none" /\ last.verified
      <4>1. SUFFICES ASSUME Unreleased(r) # {}
                     PROVE  FALSE
        BY <3>1, <3>5
      <4>2. Phase(r) = IF last.removal # 0 THEN "removing" ELSE "creating"
        <5>1. ~(Resources(r) # {} /\ Unreleased(r) = {})
          BY <4>1
        <5>2. PICK kept, off : kept = Retained(r) /\ off = HandedOff(r)
          OBVIOUS
        <5> QED  BY <3>2, <3>5, <5>1
      <4> QED  BY <2>1, <4>2
    <3> QED  BY <3>3, <3>4, <3>5
  <2>4. ~IsOpen(r.steps[Len(r.steps)]) /\ Unreleased(r) = {}
    BY <2>3 DEF Last, IsOpen, StateOf
  <2>5. \A j \in DOMAIN r.steps : ~IsOpen(r.steps[j])
    BY <1>2, <2>2, <2>4, NoStepOpen
  <2>6. r.steps[i].returned
    BY <1>6, <1>11, <2>5 DEF IsOpen, StateOf, WellFormed
  <2>7. Answered(d, i)
    BY <1>2, <2>6 DEF Sees
  <2>8. ASSUME NEW o \in objects, Id(o) = <<d, i>>
        PROVE  FALSE
    <3>1. o.dep = d /\ o.step = i /\ o \in Traces
      BY <2>8 DEF Id, Traces
    <3>2. o.action = "attach-volume"
      BY <1>1, <1>3, <3>1 DEF LaunchInv, TracesFit
    <3>3. PICK x \in objects : x.dep = d /\ x.action = "run-instances"
      BY <2>8, <3>1, <3>2 DEF AttachInv, InstanceOf
    <3>4. Unnamed(r) = {}
      BY <2>5 DEF Unnamed
    <3>5. "run-instances" \in RESOURCES /\ "run-instances" \notin RETAINED
      BY DEF RESOURCES, RETAINED
    <3>6. x \in Traces
      BY DEF Traces
    <3>7. Returned(r, "run-instances") /\ StepOf(r, "run-instances") = x.step /\ "run-instances" \in Included
      BY <1>1, <3>3, <3>4, <3>5, <3>6, TraceIsNamed
    <3>8. "run-instances" \in Resources(r) \ RETAINED
      BY <3>5, <3>7 DEF Resources
    <3>9. Released(r, "run-instances")
      BY <2>4, <3>8 DEF Unreleased
    <3>10. Traceless(d, x.step)
      BY <1>2, <3>5, <3>7, <3>9, ReleasedIsGone DEF Owned
    <3> QED  BY <3>3, <3>6, <3>10 DEF Traceless, Id
  <2> QED  BY <2>7, <2>8 DEF Answered, Traceless, Traces
<1> QED  BY <1>9, <1>10, <1>11

(* A step that adds no record adds no attachment to one that has a follower.  *)
LEMMA NextAttaches ==
  ASSUME ChainInv, FenceInv, LaunchInv, LaunchInv', SightInv, [Next]_vars
  PROVE  OnlyNewestAttaches
<1>1. ASSUME UNCHANGED disk
      PROVE  OnlyNewestAttaches
  BY <1>1 DEF OnlyNewestAttaches, Existing
<1>2. ASSUME NEW record, disk' = Recorded(New, record)
      PROVE  OnlyNewestAttaches
  BY <1>2, NewIsNew DEF Recorded, OnlyNewestAttaches, Existing
<1>3. CASE Starts
  <2>1. UNCHANGED disk \/ \E record : disk' = Recorded(New, record)
    BY <1>3 DEF Starts, CreateNew, CreateReuse, RemoveHost, Abandon, Inspect, HandOff, Begin
  <2> QED  BY <1>1, <1>2, <2>1
<1>4. CASE Coordinates
  <2>1. CASE Decide \/ Cancel \/ Finish \/ CallBreaks \/ Spawn \/ End
    BY <1>1, <2>1 DEF Decide, Cancel, Finish, CallBreaks, Spawn, End
  <2>2. CASE Approve
    BY <1>2, <2>2 DEF Approve
  <2> QED  BY <1>4, <2>1, <2>2, SettlingChains, PersistingChains, FenceChains, RetainChains,
              ReconcileChains, RecordAbandonmentChains, CloseChains DEF Coordinates
<1>5. CASE Calls \/ Crash \/ ClearLock \/ Drift \/ UNCHANGED vars
  <2>1. UNCHANGED disk
    BY <1>5 DEF Crash, ClearLock, Drift, vars, Calls, Authorise, Dispatch, DoNotAttempt, GiveUp, Leave, Land, Refuse
  <2> QED  BY <1>1, <2>1
<1> QED  BY <1>3, <1>4, <1>5 DEF Next

(* Only a creation adds a record.                                           *)
LEMMA NextRecords ==
  ASSUME LaunchInv, [Next]_vars
  PROVE  \/ Existing' = Existing
         \/ Approve
         \/ \E previous \in Existing \cup {None} : CreateNew(previous)
<1>1. ASSUME NEW d, NEW record, NEW done, NEW failed, Write(d, record, done, failed)
      PROVE  Existing' = Existing
  BY <1>1 DEF Write, Existing
<1>2. CASE Starts
  BY <1>2 DEF Starts, CreateReuse, RemoveHost, Abandon, Inspect, HandOff, Begin, Existing
<1>3. CASE Coordinates
  <2>1. \/ Approve \/ UNCHANGED disk
        \/ \E d, record, done, failed : Write(d, record, done, failed)
    BY <1>3 DEF Coordinates, ReservePrevious, FenceKey, KeyGenerated, Fence, Spawn, Cancel, Finish, Retain,
                Reply, CallBreaks, FenceObserve, Look, Reconcile, Decide, FenceHealth, Probe, RecordHealth,
                RecordAbandonment, Settle, Close, End, Persist
  <2> QED  BY <1>1, <2>1 DEF Existing
<1>4. CASE Calls \/ Crash \/ ClearLock \/ Drift \/ UNCHANGED vars
  BY <1>4 DEF Crash, ClearLock, Drift, vars, Calls, Authorise, Dispatch, DoNotAttempt, GiveUp, Leave, Land, Refuse,
              Existing
<1> QED  BY <1>2, <1>3, <1>4 DEF Next

(* Only a request adds to what is at the provider or on its way there.       *)
LEMMA NextTraces ==
  ASSUME [Next]_vars
  PROVE  \/ Traces' \subseteq Traces
         \/ \E c \in children : Dispatch(c)
<1>1. CASE Starts
  BY <1>1 DEF Starts, CreateNew, CreateReuse, RemoveHost, Abandon, Inspect, HandOff, Begin, Traces
<1>2. CASE Coordinates
  BY <1>2 DEF Coordinates, Approve, ReservePrevious, FenceKey, KeyGenerated, Fence, Spawn, Cancel, Finish, Retain,
              Reply, CallBreaks, FenceObserve, Look, Reconcile, Decide, FenceHealth, Probe, RecordHealth,
              RecordAbandonment, Settle, Close, End, Traces
<1>3. ASSUME NEW call \in flight, Land(call)
      PROVE  Traces' \subseteq Traces
  <2>1. objects' \subseteq objects \cup {call} /\ flight' \subseteq flight
    BY <1>3 DEF Land, Effect
  <2> QED  BY <2>1 DEF Traces
<1>4. CASE Crash \/ ClearLock \/ Drift \/ UNCHANGED vars
  BY <1>4 DEF Crash, ClearLock, Drift, vars, Traces
<1>5. CASE Calls
  BY <1>3, <1>5 DEF Calls, Authorise, DoNotAttempt, GiveUp, Leave, Refuse, Traces
<1> QED  BY <1>1, <1>2, <1>4, <1>5 DEF Next

(* An instance takes its attachments with it.                               *)
LEMMA LossDetaches ==
  ASSUME \A o \in objects : o.action = "attach-volume" => InstanceOf(o.dep) # {},
         NEW S \in SUBSET objects, objects' = objects \ UNION {EndsWith(o) : o \in S}
  PROVE  \A o \in objects' : o.action = "attach-volume" => InstanceOf(o.dep)' # {}
<1> SUFFICES ASSUME NEW o \in objects', o.action = "attach-volume"
             PROVE  InstanceOf(o.dep)' # {}
  OBVIOUS
<1>1. o \in objects /\ \A y \in S : o \notin EndsWith(y)
  OBVIOUS
<1>2. PICK x \in objects : x.dep = o.dep /\ x.action = "run-instances"
  BY <1>1 DEF InstanceOf
<1>3. "run-instances" \in CarriersOf("attach-volume") /\ CarriersOf("run-instances") = {}
  BY DEF CarriersOf
<1>4. ASSUME NEW y \in S, x \in EndsWith(y)
      PROVE  FALSE
  <2>1. x = y
    BY <1>2, <1>3, <1>4 DEF EndsWith
  <2>2. o \in EndsWith(y)
    BY <1>1, <1>2, <1>3, <2>1 DEF EndsWith
  <2> QED  BY <1>1, <2>2
<1>5. x \in objects'
  BY <1>2, <1>4
<1> QED  BY <1>2, <1>5 DEF InstanceOf

LEMMA NextInstances ==
  ASSUME \A o \in objects : o.action = "attach-volume" => InstanceOf(o.dep) # {}, [Next]_vars
  PROVE  \A o \in objects' : o.action = "attach-volume" => InstanceOf(o.dep)' # {}
<1>1. CASE UNCHANGED objects
  BY <1>1 DEF InstanceOf
<1>2. CASE Drift
  <2>1. PICK o \in objects : objects' = objects \ EndsWith(o)
    BY <1>2 DEF Drift
  <2>2. {o} \subseteq objects /\ objects' = objects \ UNION {EndsWith(x) : x \in {o}}
    BY <2>1
  <2> QED  BY <2>2, LossDetaches
<1>3. ASSUME NEW call \in flight, Land(call)
      PROVE  \A o \in objects' : o.action = "attach-volume" => InstanceOf(o.dep)' # {}
  <2>1. CASE Undoes(call.action) = {}
    <3>1. objects' = objects \cup {call} /\ (call.action = "attach-volume" => InstanceOf(call.dep) # {})
      BY <1>3, <2>1 DEF Land, Effect, Possible
    <3> QED  BY <3>1 DEF InstanceOf
  <2>2. CASE Undoes(call.action) # {}
    <3>1. PICK S : S = {x \in objects : Id(x) = call.on}
      OBVIOUS
    <3>2. objects' = objects \ UNION {EndsWith(o) : o \in S} /\ S \subseteq objects
      BY <1>3, <2>2, <3>1 DEF Land, Effect
    <3> QED  BY <3>2, LossDetaches
  <2> QED  BY <2>1, <2>2
<1>4. \/ UNCHANGED objects \/ Drift
      \/ \E call \in flight : Land(call)
  <2>1. CASE Starts
    BY <2>1 DEF Starts, CreateNew, CreateReuse, RemoveHost, Abandon, Inspect, HandOff, Begin
  <2>2. CASE Coordinates
    BY <2>2 DEF Coordinates, Approve, ReservePrevious, FenceKey, KeyGenerated, Fence, Spawn, Cancel, Finish, Retain,
                Reply, CallBreaks, FenceObserve, Look, Reconcile, Decide, FenceHealth, Probe, RecordHealth,
                RecordAbandonment, Settle, Close, End
  <2>3. CASE Calls \/ Crash \/ ClearLock \/ UNCHANGED vars
    BY <2>3 DEF Crash, ClearLock, vars, Calls, Authorise, Dispatch, DoNotAttempt, GiveUp, Leave, Refuse
  <2> QED  BY <2>1, <2>2, <2>3 DEF Next
<1> QED  BY <1>1, <1>2, <1>3, <1>4

(* A volume that was taken over was detached before, and its old deployment    *)
(* attaches nothing any more.                                                *)
LEMMA TakenStaysDetached ==
  ASSUME ChainInv, FenceInv, LaunchInv, LaunchInv', SightInv, [Next]_vars,
         NEW d \in Existing, d + 1 \in Existing, Detached(d)
  PROVE  Detached(d)'
<1>1. ASSUME NEW i \in DOMAIN disk'[d].steps, disk'[d].steps[i].action = "attach-volume"
      PROVE  i \in DOMAIN disk[d].steps /\ disk[d].steps[i].action = "attach-volume" /\ Traceless(d, i)
  BY <1>1, NextAttaches DEF OnlyNewestAttaches, Detached
<1>2. CASE ~Spawn
  <2>1. Calm
    BY <1>2, NextCalms
  <2> QED  BY <1>1, <2>1 DEF Calm, Detached
<1>3. CASE Spawn
  <2>1. cmd # None /\ cmd.pc = "fenced" /\ UNCHANGED <<objects, flight>>
        /\ children' = children \cup {[dep |-> cmd.dep, step |-> cmd.fence, phase |-> "spawned", outcome |-> "none"]}
    BY <1>3 DEF Spawn, At
  <2>2. InChain(cmd) /\ Knows(cmd)
    BY <2>1, CommandInChain DEF LaunchInv
  <2>3. cmd.mem = disk[cmd.dep] /\ cmd.fence = Len(cmd.mem.steps) /\ cmd.op # "create" => LastStep(cmd.mem).action \in Removing
    BY <2>1, <2>2 DEF InChain, Knows
  <2>4. ASSUME NEW i \in DOMAIN disk[d].steps, disk[d].steps[i].action = "attach-volume"
        PROVE  <<cmd.dep, cmd.fence>> # <<d, i>>
    <3>1. SUFFICES ASSUME cmd.dep = d, cmd.fence = i
                   PROVE  FALSE
      OBVIOUS
    <3>2. cmd.op # "create"
      BY <2>2, <3>1 DEF InChain
    <3>3. disk[d].steps[i].action \in Removing
      BY <2>1, <2>2, <3>1, <3>2 DEF InChain, Knows, LastStep
    <3> QED  BY <2>4, <3>3, RemovingMakesNothing
  <2>5. ASSUME NEW i \in DOMAIN disk[d].steps, disk[d].steps[i].action = "attach-volume", Traceless(d, i)
        PROVE  Traceless(d, i)'
    BY <2>1, <2>4, <2>5 DEF Traceless, Traces, MayCall, Id
  <2> QED  BY <1>1, <2>5 DEF Detached
<1> QED  BY <1>2, <1>3

LEMMA ReusesStays ==
  ASSUME ChainInv, FenceInv, LaunchInv, LaunchInv', SightInv, ParsedInv, AttachInv, [Next]_vars,
         NEW e \in Existing', disk'[e].reuse # None
  PROVE  Detached(e - 1)'
<1>1. CASE e \in Existing
  <2>1. disk'[e] = disk[e] \/ Accepted(e, disk'[e])
    BY <1>1, NextAccepts
  <2>2. PICK record : record = disk'[e]
    OBVIOUS
  <2>3. record.reuse = disk[e].reuse
    BY <1>1, <2>1, <2>2 DEF Accepted, RequireTransition, RequireFixedFields
  <2>4. Reuses(e)
    BY <1>1, <2>2, <2>3 DEF Reuses
  <2>5. e - 1 \in Existing /\ Detached(e - 1)
    BY <1>1, <2>4 DEF AttachInv, ChainInv, ChainHolds, ReuseInChain
  <2>6. (e - 1) + 1 = e
    BY <1>1, ExistingIsInterval
  <2> QED  BY <1>1, <2>5, <2>6, TakenStaysDetached
<1>2. CASE e \notin Existing
  <2>1. ASSUME NEW previous, CreateNew(previous)
        PROVE  FALSE
    <3>1. disk' = Recorded(New, Deployment(New, previous, None))
      BY <2>1 DEF CreateNew
    <3>2. e = New /\ disk'[e] = Deployment(New, previous, None)
      BY <1>2, <3>1 DEF Recorded, Existing
    <3> QED  BY <3>2 DEF Deployment
  <2>2. Approve
    BY <1>2, <2>1, NextRecords
  <2>3. PICK d : d = cmd.dep
    OBVIOUS
  <2>4. cmd # None /\ cmd.pc = "approve" /\ Reusable(disk[d]) # None
        /\ disk' = Recorded(New, Deployment(New, d, Reusable(disk[d])))
    BY <2>2, <2>3 DEF Approve, At
  <2>5. d \in Existing /\ InChain(cmd)
    BY <2>3, <2>4, CommandInChain
  <2>6. d + 1 \notin Existing
    BY <2>3, <2>4, <2>5 DEF InChain
  <2>7. e = New /\ e - 1 = d
    <3>1. PICK n \in Nat : n = Cardinality(Existing) /\ Existing = 1..n
      BY ExistingIsInterval
    <3>2. d \in 1..n /\ d + 1 \notin 1..n
      BY <2>5, <2>6, <3>1
    <3>3. e = New
      BY <1>2, <2>4 DEF Recorded, Existing
    <3> QED  BY <3>1, <3>2, <3>3 DEF New
  <2>8. Detached(d)
    BY <2>4, <2>5, ReusableIsDetached
  <2>9. Calm
    BY <2>2, CoordinatesCalm DEF Coordinates, Spawn, Approve, At
  <2>10. disk'[d] = disk[d]
    BY <2>4, <2>5, NewIsNew DEF Recorded, Existing
  <2>11. Detached(d)'
    BY <2>8, <2>9, <2>10 DEF Detached, Calm
  <2> QED  BY <2>7, <2>11
<1> QED  BY <1>1, <1>2

LEMMA NextAttachesVolume ==
  ASSUME FenceInv, LaunchInv, LaunchInv', SightInv, AttachInv, [Next]_vars,
         NEW o \in Traces', o.action = "attach-volume"
  PROVE  o.on \in {None, VolumeId(disk'[o.dep])}
<1>1. CASE o \in Traces
  <2>1. o.dep \in Existing /\ o.on \in {None, VolumeId(disk[o.dep])}
    BY <1>1 DEF LaunchInv, TracesFit, AttachInv
  <2> QED  BY <2>1, VolumeStays
<1>2. CASE o \notin Traces
  <2>1. PICK c \in children : Dispatch(c)
    BY <1>2, NextTraces
  <2>2. o = Request(disk[c.dep], c.step) /\ UNCHANGED disk
    BY <1>2, <2>1 DEF Dispatch, Traces
  <2>3. c.dep \in Existing /\ disk[c.dep].id = c.dep
    BY DEF FenceInv, ChildShape, LaunchInv, RecordsFit, Shaped
  <2>4. PICK r, i : r = disk[c.dep] /\ i = c.step
    OBVIOUS
  <2>5. o = Request(r, i) /\ r.id = c.dep
    BY <2>2, <2>3, <2>4
  <2>6. o.dep = r.id /\ o.action = r.steps[i].action
    BY ONLY <2>5 DEF Request
  <2>7. o.on = VolumeId(r)
    BY ONLY <2>5, <2>6, o.action = "attach-volume" DEF Request
  <2> QED  BY <2>2, <2>4, <2>5, <2>6, <2>7
<1> QED  BY <1>1, <1>2

(* What is attached is the volume of the deployment's record, to an instance   *)
(* that exists; a volume that was taken over is no longer attached by the       *)
(* deployment it was taken from, nor will it be (observe/volume.ts,            *)
(* lineage/chain.ts).                                                        *)
THEOREM AttachInvariant == Spec => []AttachInv
<1>1. Init => AttachInv
  <2> SUFFICES ASSUME Init PROVE AttachInv
    OBVIOUS
  <2>1. DOMAIN disk = {} /\ objects = {} /\ flight = {}
    BY EmptySteps, Zenon DEF Init
  <2> QED  BY <2>1 DEF AttachInv, Existing, Traces
<1>2. AttachInv /\ ChainInv /\ SightInv /\ ParsedInv /\ LaunchInv /\ LaunchInv' /\ FenceInv /\ [Next]_vars => AttachInv'
  <2> SUFFICES ASSUME AttachInv, ChainInv, SightInv, ParsedInv, LaunchInv, LaunchInv', FenceInv, [Next]_vars
               PROVE  AttachInv'
    OBVIOUS
  <2>1. \A o \in objects' : o.action = "attach-volume" => InstanceOf(o.dep)' # {}
    BY NextInstances DEF AttachInv
  <2>2. \A o \in Traces' : o.action = "attach-volume" => o.on \in {None, VolumeId(disk'[o.dep])}
    BY NextAttachesVolume
  <2>3. \A e \in Existing' : disk'[e].reuse # None => Detached(e - 1)'
    BY ReusesStays
  <2> QED  BY <2>1, <2>2, <2>3 DEF AttachInv, Reuses
<1> QED  BY <1>1, <1>2, FenceInvariant, LaunchInvariant, SightInvariant, RecordsParse, ChainInvariant, PTL DEF Spec

-----------------------------------------------------------------------------
(* One holder.                                                              *)

(* Between two records of a volume every record reuses it.                  *)
LEMMA VolumeInterval ==
  ASSUME ChainHolds, LaunchInv, NEW x \in Existing, NEW y \in Existing, x < y, NEW id, id # None,
         VolumeId(disk[x]) = id, VolumeId(disk[y]) = id
  PROVE  \A z \in (x + 1)..y : z \in Existing /\ disk[z].reuse = id
<1>1. PICK n \in Nat : n = Cardinality(Existing) /\ Existing = 1..n
  BY ExistingIsInterval
<1>2. (x + 1)..y \subseteq Existing /\ x \in Nat /\ y \in Nat
  <2>1. x \in 1..n /\ y \in 1..n
    BY <1>1
  <2>2. \A z \in (x + 1)..y : z \in 1..n
    BY <2>1
  <2>3. \A z \in (x + 1)..y : z \in Existing
    BY <1>1, <2>2, Zenon
  <2>4. x \in Nat /\ y \in Nat
    BY <2>1
  <2> QED  BY <2>3, <2>4
<1>3. PICK Bad : Bad = {z \in (x + 1)..y : disk[z].reuse # id}
  OBVIOUS
<1>4. ASSUME Bad # {}
      PROVE  FALSE
  <2>1. Bad \in SUBSET (1..y)
    BY <1>2, <1>3
  <2>2. PICK z \in Bad : \A w \in Bad : w <= z
    BY <1>2, <1>4, <2>1, GreatestOf
  <2>3. z \in (x + 1)..y /\ disk[z].reuse # id /\ z \in Existing /\ z \in Nat
    BY <1>2, <1>3
  <2>4. VolumeId(disk[z]) = id
    <3>1. CASE z = y
      BY <3>1
    <3>2. CASE z # y
      <4>1. z + 1 \in (x + 1)..y /\ ~(z + 1 <= z) /\ (z + 1) - 1 = z
        BY <1>2, <2>3, <3>2
      <4>2. z + 1 \in Existing /\ disk[z + 1].reuse = id
        BY <1>2, <1>3, <2>2, <4>1
      <4>3. ReuseInChain(z + 1)
        BY <4>2 DEF ChainHolds, Reuses
      <4> QED  BY <4>1, <4>2, <4>3 DEF ReuseInChain
    <3> QED  BY <3>1, <3>2
  <2>5. disk[z].reuse = None
    BY <2>3, <2>4 DEF VolumeId
  <2>6. disk[z].id = z
    BY <2>3 DEF LaunchInv, RecordsFit, Shaped
  <2>7. id = <<z, StepOf(disk[z], "create-volume")>>
    BY <2>4, <2>5, <2>6 DEF VolumeId
  <2>8. id \in (1..x) \X Nat
    BY DEF ChainHolds, RecordInChain
  <2>9. z \in 1..x
    BY <2>7, <2>8
  <2> QED  BY <1>2, <2>3, <2>9
<1> QED  BY <1>2, <1>3, <1>4

(* The next deployment but one takes a volume over when the hand-off is done. *)
LEMMA TwoLater ==
  ASSUME ChainHolds, LaunchInv, NEW x \in Existing, NEW y \in Existing, x + 1 < y, NEW id, id # None,
         VolumeId(disk[x]) = id, VolumeId(disk[y]) = id
  PROVE  HandedOff(disk[x])
<1>1. x \in Nat /\ y \in Nat
  BY ExistingIsInterval
<1>2. x < y /\ x + 1 \in (x + 1)..y /\ x + 2 \in (x + 1)..y /\ (x + 1) + 1 = x + 2 /\ (x + 1) - 1 = x
  BY <1>1
<1>3. Reuses(x + 1) /\ Reuses(x + 2)
  BY <1>2, VolumeInterval DEF Reuses
<1>4. ReuseInChain(x + 1)
  BY <1>3 DEF ChainHolds, Reuses
<1> QED  BY <1>2, <1>3, <1>4 DEF ReuseInChain

LEMMA SomeHolder ==
  ASSUME ChainHolds, LaunchInv, NEW d \in Existing, NEW id, id = VolumeId(disk[d]), id # None
  PROVE  Holders(id) # {}
<1>1. PICK n \in Nat : n = Cardinality(Existing) /\ Existing = 1..n
  BY ExistingIsInterval
<1>2. PICK S : S = {e \in Existing : VolumeId(disk[e]) = id /\ HoldsVolume(disk[e])}
  OBVIOUS
<1>3. S # {}
  <2>1. CASE HoldsVolume(disk[d])
    BY <1>2, <2>1
  <2>2. CASE ~HoldsVolume(disk[d])
    <3>1. Reuses(d)
      BY <2>2 DEF HoldsVolume, Reuses
    <3>2. ReuseInChain(d) /\ disk[d].reuse = id
      BY <3>1 DEF ChainHolds, Reuses, VolumeId
    <3> QED  BY <1>2, <3>2 DEF ReuseInChain
  <2> QED  BY <2>1, <2>2
<1>4. PICK g \in S : \A e \in S : e <= g
  BY <1>1, <1>2, <1>3, GreatestOf
<1>5. ASSUME HandedOff(disk[g])
      PROVE  FALSE
  <2>1. Reuses(g + 1)
    BY <1>2, <1>5 DEF HandedOff, ChainHolds, RecordInChain
  <2>2. ReuseInChain(g + 1) /\ (g + 1) - 1 = g
    BY <1>1, <1>2, <2>1 DEF ChainHolds, Reuses
  <2>3. HoldsVolume(disk[g + 1]) /\ disk[g + 1].reuse = id
    BY <1>2, <1>5, <2>2 DEF ReuseInChain
  <2>4. g + 1 \in S
    BY <1>2, <2>1, <2>3 DEF Reuses, VolumeId
  <2> QED  BY <1>1, <1>2, <1>4, <2>4
<1> QED  BY <1>2, <1>4, <1>5 DEF Holders

LEMMA TwoHolders ==
  ASSUME ChainHolds, LaunchInv, NEW id, id # None, NEW a \in Holders(id), NEW b \in Holders(id), a < b
  PROVE  b = a + 1 /\ disk[b].previous = a
<1>1. a \in Existing /\ b \in Existing /\ a \in Nat /\ b \in Nat /\ a >= 1
  BY ExistingIsInterval DEF Holders
<1>2. VolumeId(disk[a]) = id /\ VolumeId(disk[b]) = id /\ ~HandedOff(disk[a])
  BY DEF Holders
<1>3. b = a + 1
  BY <1>1, <1>2, TwoLater
<1> QED  BY <1>1, <1>3 DEF ChainHolds, RecordInChain

LEMMA OfferedIsFree ==
  ASSUME ChainHolds, LaunchInv, ParsedInv, SightInv, AttachInv, NEW d \in Existing, Reusable(disk[d]) # None,
         NEW o \in Traces, o.action = "attach-volume"
  PROVE  o.on # VolumeId(disk[d])
<1> SUFFICES ASSUME NEW id, id = VolumeId(disk[d]), o.on = id
             PROVE  FALSE
  OBVIOUS
<1>1. id # None /\ disk[d].successor = None
  BY DEF Reusable
<1>2. PICK x \in Existing : x = o.dep
  BY DEF LaunchInv, TracesFit
<1>3. VolumeId(disk[x]) = id
  BY <1>1, <1>2 DEF AttachInv
<1>4. o.step \in DOMAIN disk[x].steps /\ disk[x].steps[o.step].action = "attach-volume"
  BY <1>2 DEF LaunchInv, TracesFit
<1>5. ~Detached(x)
  <2>1. Id(o) = <<x, o.step>>
    BY <1>2 DEF Id
  <2> QED  BY <1>4, <2>1 DEF Detached, Traceless
<1>6. d \in Nat /\ x \in Nat
  BY ExistingIsInterval
<1>7. CASE x = d
  BY <1>5, <1>7, ReusableIsDetached
<1>8. CASE x < d
  <2>1. x + 1 \in (x + 1)..d /\ (x + 1) - 1 = x
    BY <1>6, <1>8
  <2>2. Reuses(x + 1)
    BY <1>1, <1>3, <1>8, <2>1, VolumeInterval DEF Reuses
  <2> QED  BY <1>5, <2>1, <2>2 DEF AttachInv, Reuses
<1>9. CASE x = d + 1
  <2>1. d < x /\ x \in (d + 1)..x /\ x - 1 = d
    BY <1>6, <1>9
  <2>2. Reuses(x)
    BY <1>1, <1>3, <2>1, VolumeInterval DEF Reuses
  <2>3. disk[x].steps = <<>>
    BY <1>1, <2>1, <2>2 DEF ChainHolds, Reuses, ReuseInChain
  <2> QED  BY <1>4, <2>3, EmptySteps
<1>10. CASE d + 1 < x
  <2>1. HandedOff(disk[d])
    BY <1>1, <1>3, <1>10, TwoLater
  <2> QED  BY <1>1, <2>1 DEF HandedOff
<1> QED  BY <1>6, <1>7, <1>8, <1>9, <1>10

(* Some record always answers for a data volume, two only between the attach    *)
(* of a replacement and the completed hand-off, and a volume that is offered    *)
(* for reuse is attached to nothing and about to be attached to nothing        *)
(* (lineage/handoff.ts, lineage/chain.ts), for any number of deployments and   *)
(* upsets.                                                                   *)
THEOREM AwsVolumeHasOneHolder == Spec => []VolumeHasOneHolder
<1>1. ChainInv /\ AttachInv /\ SightInv /\ ParsedInv /\ LaunchInv => VolumeHasOneHolder
  <2> SUFFICES ASSUME ChainInv, AttachInv, SightInv, ParsedInv, LaunchInv,
                      NEW d \in Existing, NEW id, id = VolumeId(disk[d]), id # None
               PROVE  /\ Holders(id) # {}
                      /\ \A a, b \in Holders(id) : a < b => disk[b].previous = a /\ Holders(id) = {a, b}
                      /\ Reusable(disk[d]) # None =>
                           \A o \in objects \cup flight : o.action = "attach-volume" => o.on # id
    BY DEF VolumeHasOneHolder
  <2>1. ChainHolds
    BY DEF ChainInv
  <2>2. Holders(id) # {}
    BY <2>1, SomeHolder
  <2>3. ASSUME NEW a \in Holders(id), NEW b \in Holders(id), a < b
        PROVE  disk[b].previous = a /\ Holders(id) = {a, b}
    <3>1. b = a + 1 /\ disk[b].previous = a
      BY <2>1, <2>3, TwoHolders
    <3>2. ASSUME NEW c \in Holders(id)
          PROVE  c \in {a, b}
      <4>1. a \in Nat /\ b \in Nat /\ c \in Nat
        BY ExistingIsInterval DEF Holders
      <4>2. c < a => a = c + 1
        BY <2>1, TwoHolders
      <4>3. c < b => b = c + 1
        BY <2>1, TwoHolders
      <4>4. a < c => c = a + 1
        BY <2>1, TwoHolders
      <4> QED  BY <3>1, <4>1, <4>2, <4>3, <4>4
    <3> QED  BY <3>1, <3>2
  <2>4. Reusable(disk[d]) # None =>
          \A o \in objects \cup flight : o.action = "attach-volume" => o.on # id
    BY <2>1, OfferedIsFree DEF Traces
  <2> QED  BY <2>2, <2>3, <2>4
<1> QED  BY <1>1, LaunchInvariant, SightInvariant, RecordsParse, ChainInvariant, AttachInvariant, PTL
==============================================================================
