------------------------- MODULE WorkerRuntimeProofs -------------------------
(***************************************************************************)
(* Theorems about the Worker processes of one database, for any number of    *)
(* processes, operations and severed sessions: who acts holds the advisory    *)
(* lock, and a serving Worker meets no unfinished operation of another.       *)
(***************************************************************************)
EXTENDS WorkerRuntime, TLAPS

(* Authority and the lock.  A process that believes in its authority holds    *)
(* the lock unless its session was ended; a scheduled verification is only    *)
(* under way beside such a belief, and fails only on a severed session.  What *)
(* is lost without an outside cause is lost on release, by a process that has *)
(* nothing left to run.                                                     *)
AuthorityInv(p) ==
  /\ Believes(p) => lock = p \/ p \in severed
  /\ check[p] # "none" => authority[p] \in {"held", "verifying"}
  /\ check[p] = "failed" => p \in severed
  /\ authority[p] = "lost" => p \in fatal /\ p \in draining
  /\ authority[p] = "lost" => p \in severed \/ (phase[p] = "stopped" /\ Supervised(p) = {})

(* What the position of a process says about its authority.                 *)
PhaseInv(p) ==
  /\ phase[p] \in {"off", "booting", "gone"} => authority[p] = "idle"
  /\ phase[p] \in {"acquired", "classifying", "reconciling", "serving"} =>
       authority[p] \in {"held", "lost"}
  /\ phase[p] \in {"stopping", "closing", "draining"} => authority[p] \in {"idle", "held", "lost"}
  /\ phase[p] = "releasing" => authority[p] \in {"verifying", "unlocking", "lost"}
  /\ phase[p] = "stopped" => authority[p] \in {"idle", "held", "released", "lost"}
  /\ phase[p] \in {"closing", "draining", "releasing", "stopped"} => p \in draining
  /\ p \in draining => p \in fatal \/ phase[p] \in {"closing", "draining", "releasing", "stopped", "gone"}

(* Command intake opens with "serving" and closes before the executors are   *)
(* drained; what it let in needs an authority, and an executor one that was   *)
(* not given back.                                                          *)
WorkInv(p) ==
  /\ p \in intake =>
       phase[p] \in {"serving", "stopping"} /\ p \notin draining \cup fatal /\ authority[p] = "held"
  /\ receiving[p] # {} \/ accepted[p] # {} =>
       /\ phase[p] \in {"serving", "stopped"} \cup StopPhases
       /\ p \notin draining => authority[p] = "held"
  /\ Supervised(p) # {} =>
       /\ phase[p] \in {"serving", "stopping", "closing", "draining", "stopped"}
       /\ authority[p] \in {"held", "lost"}
  /\ p \in pass =>
       phase[p] \in {"reconciling", "serving", "stopping"} /\ authority[p] \in {"held", "lost"}

(* Who accepted an operation that a process has no reason to expect.         *)
Foreign(p, o) ==
  ledger[o] = "open" /\ acceptor[o] # p /\ o \notin late /\ acceptor[o] \notin severed

(* From the listing of nonterminal operations on, the unexpected ones are     *)
(* those still to be classified.                                            *)
ClassifiedInv(p) ==
  phase[p] \in {"classifying", "reconciling", "serving"} /\ p \notin severed =>
    \A o \in Ops : Foreign(p, o) => phase[p] = "classifying" /\ o \in todo[p]

WorkerInv ==
  /\ TypeOK
  /\ \A p \in Workers : AuthorityInv(p) /\ PhaseInv(p) /\ WorkInv(p) /\ ClassifiedInv(p)
-----------------------------------------------------------------------------
LEMMA InitWorker == Init => WorkerInv
<1> SUFFICES ASSUME Init PROVE WorkerInv
  OBVIOUS
<1> USE NoWorkerAssumption DEF Init, AuthorityInit
<1>1. TypeOK
  BY DEF TypeOK, Phases, AuthorityStates
<1>2. \A p \in Workers : Supervised(p) = {}
  BY DEF Supervised
<1> QED
  BY <1>1, <1>2
  DEF WorkerInv, AuthorityInv, PhaseInv, WorkInv, ClassifiedInv, Foreign, Believes

LEMMA TypeStep ==
  ASSUME TypeOK, [Next]_vars
  PROVE  TypeOK'
<1> USE NoWorkerAssumption
    DEF TypeOK, authorityVars, processVars, workVars, ledgerVars, Enter, Phases, BootPhases, StopPhases,
        AuthorityStates
<1>1. ASSUME NEW p \in Workers, Start(p) \/ AcquireAuthority(p)
      PROVE  TypeOK'
  BY <1>1 DEF Start, AcquireAuthority, Granted, NotGranted, BeginShutdown
<1>2. ASSUME NEW p \in Workers, BeginClassification(p) \/ ClassifyOne(p)
      PROVE  TypeOK'
  BY <1>2 DEF BeginClassification, ClassifyOne, MayContinue, ListNonterminal, Open
<1>3. ASSUME NEW p \in Workers, BeginReconciliation(p) \/ Serve(p) \/ BootFails(p)
      PROVE  TypeOK'
  BY <1>3 DEF BeginReconciliation, Serve, BootFails, MayContinue, BeginShutdown
<1>4. ASSUME NEW p \in Workers, Tick(p) \/ EndPass(p)
      PROVE  TypeOK'
  BY <1>4 DEF Tick, EndPass
<1>5. ASSUME NEW p \in Workers, NEW c \in Commands, Receive(p, c) \/ Reject(p, c) \/ \E o \in Ops : Accept(p, c, o)
      PROVE  TypeOK'
  BY <1>5 DEF Receive, Answered, Reject, Accept
<1>6. ASSUME NEW p \in Workers, NEW c \in Commands, NEW o \in Ops, Schedule(p, c, o)
      PROVE  TypeOK'
  BY <1>6 DEF Schedule, Schedules
<1>7. ASSUME NEW p \in Workers, Stop(p) \/ CloseIntake(p) \/ BeginDrain(p)
      PROVE  TypeOK'
  BY <1>7 DEF Stop, BeginShutdown, CloseIntake, BeginDrain
<1>8. ASSUME NEW p \in Workers, DrainSettles(p) \/ DrainTimesOut(p)
      PROVE  TypeOK'
  BY <1>8 DEF DrainSettles, DrainTimesOut, BeginRelease, DeadlinePasses
<1>9. ASSUME NEW p \in Workers, Verification(p) \/ VerificationFails(p)
      PROVE  TypeOK'
  BY <1>9 DEF Verification, VerificationFails, SendCheck, AnswerCheck, CheckPasses, CheckFails, SignalLoss, FailStop
<1>10. ASSUME NEW p \in Workers, Release(p)
      PROVE  TypeOK'
  BY <1>10 DEF Release, ReleaseVerifies, Unlocks, ReleaseFails, SignalLoss, FailStop
<1>11. ASSUME NEW p \in Workers, Exit(p)
      PROVE  TypeOK'
  BY <1>11 DEF Exit
<1>12. ASSUME NEW p \in Workers, SessionLost(p)
      PROVE  TypeOK'
  BY <1>12 DEF SessionLost, SessionEnds
<1>13. ASSUME NEW o \in Ops, ExecutorEnds(o)
      PROVE  TypeOK'
  BY <1>13 DEF ExecutorEnds
<1>14. CASE UNCHANGED vars
  BY <1>14 DEF vars
<1> QED
  BY <1>1, <1>2, <1>3, <1>4, <1>5, <1>6, <1>7, <1>8, <1>9, <1>10, <1>11, <1>12, <1>13, <1>14
  DEF Next, BootStep, StopStep, VerificationStep, HandlerStep

(* The lock leaves a process only where it gives it back or its session ends. *)
LEMMA AuthorityStep ==
  ASSUME WorkerInv, TypeOK', [Next]_vars, NEW q \in Workers
  PROVE  AuthorityInv(q)'
<1> USE NoWorkerAssumption
    DEF WorkerInv, TypeOK, AuthorityInv, PhaseInv, Believes, Supervised,
        authorityVars, processVars, workVars, ledgerVars, Enter, Phases, BootPhases, StopPhases,
        AuthorityStates, WorkInv
<1>1. ASSUME NEW p \in Workers, Start(p) \/ AcquireAuthority(p)
      PROVE  AuthorityInv(q)'
  BY <1>1 DEF Start, AcquireAuthority, Granted, NotGranted, BeginShutdown
<1>2. ASSUME NEW p \in Workers, BeginClassification(p) \/ ClassifyOne(p)
      PROVE  AuthorityInv(q)'
  BY <1>2 DEF BeginClassification, ClassifyOne, MayContinue, ListNonterminal, Open
<1>3. ASSUME NEW p \in Workers, BeginReconciliation(p) \/ Serve(p) \/ BootFails(p)
      PROVE  AuthorityInv(q)'
  BY <1>3 DEF BeginReconciliation, Serve, BootFails, MayContinue, BeginShutdown
<1>4. ASSUME NEW p \in Workers, Tick(p) \/ EndPass(p)
      PROVE  AuthorityInv(q)'
  BY <1>4 DEF Tick, EndPass
<1>5. ASSUME NEW p \in Workers, NEW c \in Commands, Receive(p, c) \/ Reject(p, c) \/ \E o \in Ops : Accept(p, c, o)
      PROVE  AuthorityInv(q)'
  BY <1>5 DEF Receive, Answered, Reject, Accept
<1>6. ASSUME NEW p \in Workers, NEW c \in Commands, NEW o \in Ops, Schedule(p, c, o)
      PROVE  AuthorityInv(q)'
  BY <1>6 DEF Schedule, Schedules
<1>7. ASSUME NEW p \in Workers, Stop(p) \/ CloseIntake(p) \/ BeginDrain(p)
      PROVE  AuthorityInv(q)'
  BY <1>7 DEF Stop, BeginShutdown, CloseIntake, BeginDrain
<1>8. ASSUME NEW p \in Workers, DrainSettles(p) \/ DrainTimesOut(p)
      PROVE  AuthorityInv(q)'
  BY <1>8 DEF DrainSettles, DrainTimesOut, BeginRelease, DeadlinePasses
<1>9. ASSUME NEW p \in Workers, Verification(p) \/ VerificationFails(p)
      PROVE  AuthorityInv(q)'
  BY <1>9 DEF Verification, VerificationFails, SendCheck, AnswerCheck, CheckPasses, CheckFails, SignalLoss, FailStop
<1>10. ASSUME NEW p \in Workers, Release(p)
      PROVE  AuthorityInv(q)'
  BY <1>10 DEF Release, ReleaseVerifies, Unlocks, ReleaseFails, SignalLoss, FailStop
<1>11. ASSUME NEW p \in Workers, Exit(p)
      PROVE  AuthorityInv(q)'
  BY <1>11 DEF Exit
<1>12. ASSUME NEW p \in Workers, SessionLost(p)
      PROVE  AuthorityInv(q)'
  BY <1>12 DEF SessionLost, SessionEnds
<1>13. ASSUME NEW o \in Ops, ExecutorEnds(o)
      PROVE  AuthorityInv(q)'
  BY <1>13 DEF ExecutorEnds
<1>14. CASE UNCHANGED vars
  BY <1>14 DEF vars
<1> QED
  BY <1>1, <1>2, <1>3, <1>4, <1>5, <1>6, <1>7, <1>8, <1>9, <1>10, <1>11, <1>12, <1>13, <1>14
  DEF Next, BootStep, StopStep, VerificationStep, HandlerStep

LEMMA PhaseStep ==
  ASSUME WorkerInv, TypeOK', [Next]_vars, NEW q \in Workers
  PROVE  PhaseInv(q)'
<1> USE NoWorkerAssumption
    DEF WorkerInv, TypeOK, AuthorityInv, PhaseInv, Believes,
        authorityVars, processVars, workVars, ledgerVars, Enter, Phases, BootPhases, StopPhases,
        AuthorityStates
<1>1. ASSUME NEW p \in Workers, Start(p) \/ AcquireAuthority(p)
      PROVE  PhaseInv(q)'
  BY <1>1 DEF Start, AcquireAuthority, Granted, NotGranted, BeginShutdown
<1>2. ASSUME NEW p \in Workers, BeginClassification(p) \/ ClassifyOne(p)
      PROVE  PhaseInv(q)'
  BY <1>2 DEF BeginClassification, ClassifyOne, MayContinue, ListNonterminal, Open
<1>3. ASSUME NEW p \in Workers, BeginReconciliation(p) \/ Serve(p) \/ BootFails(p)
      PROVE  PhaseInv(q)'
  BY <1>3 DEF BeginReconciliation, Serve, BootFails, MayContinue, BeginShutdown
<1>4. ASSUME NEW p \in Workers, Tick(p) \/ EndPass(p)
      PROVE  PhaseInv(q)'
  BY <1>4 DEF Tick, EndPass
<1>5. ASSUME NEW p \in Workers, NEW c \in Commands, Receive(p, c) \/ Reject(p, c) \/ \E o \in Ops : Accept(p, c, o)
      PROVE  PhaseInv(q)'
  BY <1>5 DEF Receive, Answered, Reject, Accept
<1>6. ASSUME NEW p \in Workers, NEW c \in Commands, NEW o \in Ops, Schedule(p, c, o)
      PROVE  PhaseInv(q)'
  BY <1>6 DEF Schedule, Schedules
<1>7. ASSUME NEW p \in Workers, Stop(p) \/ CloseIntake(p) \/ BeginDrain(p)
      PROVE  PhaseInv(q)'
  BY <1>7 DEF Stop, BeginShutdown, CloseIntake, BeginDrain
<1>8. ASSUME NEW p \in Workers, DrainSettles(p) \/ DrainTimesOut(p)
      PROVE  PhaseInv(q)'
  BY <1>8 DEF DrainSettles, DrainTimesOut, BeginRelease, DeadlinePasses
<1>9. ASSUME NEW p \in Workers, Verification(p) \/ VerificationFails(p)
      PROVE  PhaseInv(q)'
  BY <1>9 DEF Verification, VerificationFails, SendCheck, AnswerCheck, CheckPasses, CheckFails, SignalLoss, FailStop
<1>10. ASSUME NEW p \in Workers, Release(p)
      PROVE  PhaseInv(q)'
  BY <1>10 DEF Release, ReleaseVerifies, Unlocks, ReleaseFails, SignalLoss, FailStop
<1>11. ASSUME NEW p \in Workers, Exit(p)
      PROVE  PhaseInv(q)'
  BY <1>11 DEF Exit
<1>12. ASSUME NEW p \in Workers, SessionLost(p)
      PROVE  PhaseInv(q)'
  BY <1>12 DEF SessionLost, SessionEnds
<1>13. ASSUME NEW o \in Ops, ExecutorEnds(o)
      PROVE  PhaseInv(q)'
  BY <1>13 DEF ExecutorEnds
<1>14. CASE UNCHANGED vars
  BY <1>14 DEF vars
<1> QED
  BY <1>1, <1>2, <1>3, <1>4, <1>5, <1>6, <1>7, <1>8, <1>9, <1>10, <1>11, <1>12, <1>13, <1>14
  DEF Next, BootStep, StopStep, VerificationStep, HandlerStep

LEMMA WorkStep ==
  ASSUME WorkerInv, TypeOK', [Next]_vars, NEW q \in Workers
  PROVE  WorkInv(q)'
<1> USE NoWorkerAssumption
    DEF WorkerInv, TypeOK, AuthorityInv, PhaseInv, Believes, Supervised,
        authorityVars, processVars, workVars, ledgerVars, Enter, Phases, BootPhases, StopPhases,
        AuthorityStates, WorkInv
<1>1. ASSUME NEW p \in Workers, Start(p) \/ AcquireAuthority(p)
      PROVE  WorkInv(q)'
  BY <1>1 DEF Start, AcquireAuthority, Granted, NotGranted, BeginShutdown
<1>2. ASSUME NEW p \in Workers, BeginClassification(p) \/ ClassifyOne(p)
      PROVE  WorkInv(q)'
  BY <1>2 DEF BeginClassification, ClassifyOne, MayContinue, ListNonterminal, Open
<1>3. ASSUME NEW p \in Workers, BeginReconciliation(p) \/ Serve(p) \/ BootFails(p)
      PROVE  WorkInv(q)'
  BY <1>3 DEF BeginReconciliation, Serve, BootFails, MayContinue, BeginShutdown
<1>4. ASSUME NEW p \in Workers, Tick(p) \/ EndPass(p)
      PROVE  WorkInv(q)'
  BY <1>4 DEF Tick, EndPass
<1>5. ASSUME NEW p \in Workers, NEW c \in Commands, Receive(p, c) \/ Reject(p, c) \/ \E o \in Ops : Accept(p, c, o)
      PROVE  WorkInv(q)'
  BY <1>5 DEF Receive, Answered, Reject, Accept
<1>6. ASSUME NEW p \in Workers, NEW c \in Commands, NEW o \in Ops, Schedule(p, c, o)
      PROVE  WorkInv(q)'
  <2>1. CASE q # p
    <3>1. Supervised(q)' # {} => Supervised(q) # {}
      BY <1>6, <2>1 DEF Schedule, Schedules
    <3> QED BY <1>6, <2>1, <3>1 DEF Schedule, Schedules
  <2>2. CASE q = p
    <3>1. accepted[p] # {}
      BY <1>6 DEF Schedule
    <3>2. CASE p \in draining
      BY <1>6, <2>2, <3>1, <3>2 DEF Schedule, Schedules
    <3>3. CASE p \notin draining
      <4>1. phase[p] \in {"serving", "stopping"} /\ authority[p] = "held"
        BY <3>1, <3>3
      <4> QED BY <1>6, <2>2, <3>1, <3>3, <4>1 DEF Schedule, Schedules
    <3> QED BY <3>2, <3>3
  <2> QED BY <2>1, <2>2
<1>7. ASSUME NEW p \in Workers, Stop(p) \/ CloseIntake(p) \/ BeginDrain(p)
      PROVE  WorkInv(q)'
  BY <1>7 DEF Stop, BeginShutdown, CloseIntake, BeginDrain
<1>8. ASSUME NEW p \in Workers, DrainSettles(p) \/ DrainTimesOut(p)
      PROVE  WorkInv(q)'
  BY <1>8 DEF DrainSettles, DrainTimesOut, BeginRelease, DeadlinePasses
<1>9. ASSUME NEW p \in Workers, Verification(p) \/ VerificationFails(p)
      PROVE  WorkInv(q)'
  BY <1>9 DEF Verification, VerificationFails, SendCheck, AnswerCheck, CheckPasses, CheckFails, SignalLoss, FailStop
<1>10. ASSUME NEW p \in Workers, Release(p)
      PROVE  WorkInv(q)'
  BY <1>10 DEF Release, ReleaseVerifies, Unlocks, ReleaseFails, SignalLoss, FailStop
<1>11. ASSUME NEW p \in Workers, Exit(p)
      PROVE  WorkInv(q)'
  BY <1>11 DEF Exit
<1>12. ASSUME NEW p \in Workers, SessionLost(p)
      PROVE  WorkInv(q)'
  BY <1>12 DEF SessionLost, SessionEnds
<1>13. ASSUME NEW o \in Ops, ExecutorEnds(o)
      PROVE  WorkInv(q)'
  BY <1>13 DEF ExecutorEnds
<1>14. CASE UNCHANGED vars
  BY <1>14 DEF vars
<1> QED
  BY <1>1, <1>2, <1>3, <1>4, <1>5, <1>6, <1>7, <1>8, <1>9, <1>10, <1>11, <1>12, <1>13, <1>14
  DEF Next, BootStep, StopStep, VerificationStep, HandlerStep

(* An acceptance by another process is late, or by a severed one: this one    *)
(* holds the lock.                                                           *)
LEMMA ClassifiedStep ==
  ASSUME WorkerInv, TypeOK', [Next]_vars, NEW q \in Workers
  PROVE  ClassifiedInv(q)'
<1> USE NoWorkerAssumption
    DEF WorkerInv, TypeOK, AuthorityInv, PhaseInv, Believes, Supervised,
        authorityVars, processVars, workVars, ledgerVars, Enter, Phases, BootPhases, StopPhases,
        AuthorityStates, WorkInv,
        ClassifiedInv, Foreign
<1>1. ASSUME NEW p \in Workers, Start(p) \/ AcquireAuthority(p)
      PROVE  ClassifiedInv(q)'
  BY <1>1 DEF Start, AcquireAuthority, Granted, NotGranted, BeginShutdown
<1>2. ASSUME NEW p \in Workers, BeginClassification(p) \/ ClassifyOne(p)
      PROVE  ClassifiedInv(q)'
  BY <1>2 DEF BeginClassification, ClassifyOne, MayContinue, ListNonterminal, Open
<1>3. ASSUME NEW p \in Workers, BeginReconciliation(p) \/ Serve(p) \/ BootFails(p)
      PROVE  ClassifiedInv(q)'
  BY <1>3 DEF BeginReconciliation, Serve, BootFails, MayContinue, BeginShutdown
<1>4. ASSUME NEW p \in Workers, Tick(p) \/ EndPass(p)
      PROVE  ClassifiedInv(q)'
  BY <1>4 DEF Tick, EndPass
<1>5. ASSUME NEW p \in Workers, NEW c \in Commands, Receive(p, c) \/ Reject(p, c) \/ \E o \in Ops : Accept(p, c, o)
      PROVE  ClassifiedInv(q)'
  BY <1>5 DEF Receive, Answered, Reject, Accept
<1>6. ASSUME NEW p \in Workers, NEW c \in Commands, NEW o \in Ops, Schedule(p, c, o)
      PROVE  ClassifiedInv(q)'
  BY <1>6 DEF Schedule, Schedules
<1>7. ASSUME NEW p \in Workers, Stop(p) \/ CloseIntake(p) \/ BeginDrain(p)
      PROVE  ClassifiedInv(q)'
  BY <1>7 DEF Stop, BeginShutdown, CloseIntake, BeginDrain
<1>8. ASSUME NEW p \in Workers, DrainSettles(p) \/ DrainTimesOut(p)
      PROVE  ClassifiedInv(q)'
  BY <1>8 DEF DrainSettles, DrainTimesOut, BeginRelease, DeadlinePasses
<1>9. ASSUME NEW p \in Workers, Verification(p) \/ VerificationFails(p)
      PROVE  ClassifiedInv(q)'
  BY <1>9 DEF Verification, VerificationFails, SendCheck, AnswerCheck, CheckPasses, CheckFails, SignalLoss, FailStop
<1>10. ASSUME NEW p \in Workers, Release(p)
      PROVE  ClassifiedInv(q)'
  BY <1>10 DEF Release, ReleaseVerifies, Unlocks, ReleaseFails, SignalLoss, FailStop
<1>11. ASSUME NEW p \in Workers, Exit(p)
      PROVE  ClassifiedInv(q)'
  BY <1>11 DEF Exit
<1>12. ASSUME NEW p \in Workers, SessionLost(p)
      PROVE  ClassifiedInv(q)'
  BY <1>12 DEF SessionLost, SessionEnds
<1>13. ASSUME NEW o \in Ops, ExecutorEnds(o)
      PROVE  ClassifiedInv(q)'
  BY <1>13 DEF ExecutorEnds
<1>14. CASE UNCHANGED vars
  BY <1>14 DEF vars
<1> QED
  BY <1>1, <1>2, <1>3, <1>4, <1>5, <1>6, <1>7, <1>8, <1>9, <1>10, <1>11, <1>12, <1>13, <1>14
  DEF Next, BootStep, StopStep, VerificationStep, HandlerStep

LEMMA WorkerStep == WorkerInv /\ [Next]_vars => WorkerInv'
  BY TypeStep, AuthorityStep, PhaseStep, WorkStep, ClassifiedStep DEF WorkerInv

-----------------------------------------------------------------------------
(* At every step the position of each process, its authority and the work it *)
(* has in hand agree.                                                       *)
THEOREM WorkerInvariant == Spec => []WorkerInv
  BY InitWorker, WorkerStep, PTL DEF Spec

(* Every variable keeps its type.                                           *)
THEOREM WorkerTypeCorrect == Spec => []TypeOK
<1>1. WorkerInv => TypeOK
  BY DEF WorkerInv
<1> QED BY <1>1, WorkerInvariant, PTL

LEMMA ActingHoldsLock ==
  ASSUME WorkerInv, NEW p \in Workers, Acting(p)
  PROVE  lock = p \/ p \in severed
<1>1. AuthorityInv(p) /\ PhaseInv(p) /\ WorkInv(p)
  BY DEF WorkerInv
<1>2. authority[p] \in {"held", "lost"}
  BY <1>1 DEF Acting, PhaseInv, WorkInv
<1>3. CASE authority[p] = "held"
  BY <1>1, <1>3 DEF AuthorityInv, Believes
<1>4. CASE authority[p] = "lost"
  <2>1. phase[p] # "stopped" \/ Supervised(p) # {}
    BY <1>1 DEF Acting, WorkInv
  <2> QED BY <1>1, <1>4, <2>1 DEF AuthorityInv
<1> QED BY <1>2, <1>3, <1>4

(* "One mutation-capable Worker per Qiln database", coordination/authority.ts: *)
(* executors, reconciliation passes and classification run only in the       *)
(* process that holds the advisory lock, or in one whose session was ended    *)
(* from outside; and no process takes commands without an authority it        *)
(* believes in, not after a loss it noticed while it booted, and not during   *)
(* release.                                                                 *)
THEOREM WorkerActsOnlyWithLock == Spec => []ActsOnlyWithLock
<1>1. WorkerInv => \A p \in Workers : Acting(p) => lock = p \/ p \in severed
  BY ActingHoldsLock
<1>2. WorkerInv => \A p \in Workers : TakesCommandsWithAuthority(p)
  BY DEF WorkerInv, TypeOK, TakesCommandsWithAuthority, WorkInv
<1>3. WorkerInv => ActsOnlyWithLock
  BY <1>1, <1>2 DEF ActsOnlyWithLock
<1> QED BY <1>3, WorkerInvariant, PTL

(* The same as mutual exclusion: of two Workers that act at once, one's        *)
(* session was ended from outside.                                          *)
OneActor ==
  \A p, q \in Workers : Acting(p) /\ Acting(q) /\ p # q => p \in severed \/ q \in severed

THEOREM WorkersExcludeEachOther == Spec => []OneActor
<1>1. WorkerInv => OneActor
  BY ActingHoldsLock DEF OneActor
<1> QED BY <1>1, WorkerInvariant, PTL

(* A serving Worker meets no unfinished operation of an earlier process but    *)
(* those that committed behind a closed channel or a lost session.           *)
THEOREM WorkerOwnsOpenOperations == Spec => []ServingOwnsOpenOperations
<1>1. WorkerInv => ServingOwnsOpenOperations
  BY DEF WorkerInv, TypeOK, ServingOwnsOpenOperations, ClassifiedInv, Foreign, Open
<1> QED BY <1>1, WorkerInvariant, PTL
=============================================================================
