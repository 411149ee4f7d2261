---------------------------- MODULE WorkerRuntime ----------------------------
(***************************************************************************)
(* The life of Worker processes around one database, runtime.ts: boot       *)
(* (authority, classification of abandoned operations, first reconciliation,*)
(* command intake), normal shutdown, fail-stop after authority loss, and    *)
(* process exit at any moment.  Executors and command handlers are reduced  *)
(* to their presence; BranchOperation models what they do.                  *)
(***************************************************************************)
EXTENDS Naturals, WorkerAuthority

CONSTANTS
  Ops,        \* operations, a bound on acceptances
  Commands,   \* command names, each with a responder loop of its own
  MaxSevered  \* bound: sessions that end under a running process

ASSUME SeveredAssumption == MaxSevered \in Nat

VARIABLES
  phase,      \* where boot() or shutdown() of each process is
  fatal,      \* processes whose fatalError is set
  draining,   \* processes whose supervisor refuses new work
  quiet,      \* processes whose reconciliation coordinator is stopped
  pass,       \* processes with a reconciliation pass running
  intake,     \* processes whose channel delivers commands
  receiving,  \* the commands of each process whose handler has not committed
  accepted,   \* what the handlers of each process committed and have to schedule
  executor,   \* the process supervising each operation's executor
  todo,       \* listed operations a booting process has still to classify
  ledger,     \* "absent", "open" (accepted or running) or "closed"
  acceptor,   \* history: the process whose handler accepted the operation
  late        \* history: operations accepted after intake was closed

processVars == <<phase, fatal, draining, quiet, pass, intake>>
workVars == <<receiving, accepted, executor, todo>>
ledgerVars == <<ledger, acceptor, late>>
vars == <<authorityVars, processVars, workVars, ledgerVars>>

BootPhases == {"booting", "acquired", "classifying", "reconciling"}
StopPhases == {"stopping", "closing", "draining", "releasing"}
Phases == BootPhases \cup StopPhases \cup {"off", "serving", "stopped", "gone"}

Alive(p) == phase[p] \notin {"off", "gone"}
Supervised(p) == {o \in Ops : executor[o] = p}
Open == {o \in Ops : ledger[o] = "open"}
Enter(p, next) == phase' = [phase EXCEPT ![p] = next]

Init ==
  /\ AuthorityInit
  /\ phase = [p \in Workers |-> "off"]
  /\ fatal = {} /\ draining = {} /\ quiet = {} /\ pass = {} /\ intake = {}
  /\ receiving = [p \in Workers |-> {}]
  /\ accepted = [p \in Workers |-> {}]
  /\ executor = [o \in Ops |-> NoWorker]
  /\ todo = [p \in Workers |-> {}]
  /\ ledger = [o \in Ops |-> "absent"]
  /\ acceptor = [o \in Ops |-> NoWorker]
  /\ late = {}

-----------------------------------------------------------------------------
(* Boot.                                                                    *)

Start(p) ==
  /\ phase[p] = "off"
  /\ Enter(p, "booting")
  /\ UNCHANGED <<authorityVars, fatal, draining, quiet, pass, intake, workVars, ledgerVars>>

(* Shutdown stops the reconciliation coordinator before anything else; a    *)
(* failed boot disposes through the same shutdown.                          *)
BeginShutdown(p) ==
  /\ Enter(p, "stopping")
  /\ quiet' = quiet \cup {p}

AcquireAuthority(p) ==
  /\ phase[p] = "booting"
  /\ \/ Granted(p) /\ Enter(p, "acquired") /\ UNCHANGED quiet
     \/ NotGranted(p) /\ BeginShutdown(p)
  /\ UNCHANGED <<fatal, draining, pass, intake, workVars, ledgerVars>>

(* Mutant: boot goes on over whatever happened while it waited. *)
ContinuesRegardless(p) == TRUE

(* throwIfFailStopped, after every awaited step of boot().                  *)
MayContinue(p) == p \notin fatal /\ authority[p] = "held"

(* Mutant: boot registers command responders without classifying. *)
ListsNothing == {}
ListNonterminal == Open

BeginClassification(p) ==
  /\ phase[p] = "acquired"
  /\ MayContinue(p)
  /\ Enter(p, "classifying")
  /\ todo' = [todo EXCEPT ![p] = ListNonterminal]
  /\ UNCHANGED <<authorityVars, fatal, draining, quiet, pass, intake, receiving, accepted, executor, ledgerVars>>

ClassifyOne(p) ==
  /\ phase[p] = "classifying"
  /\ \E o \in todo[p] :
       /\ todo' = [todo EXCEPT ![p] = @ \ {o}]
       /\ ledger' = [ledger EXCEPT ![o] = "closed"]
  /\ UNCHANGED <<authorityVars, processVars, receiving, accepted, executor, acceptor, late>>

(* Reconciliation starts at once, or not at all once the coordinator is     *)
(* stopped.                                                                 *)
BeginReconciliation(p) ==
  /\ phase[p] = "classifying" /\ todo[p] = {}
  /\ MayContinue(p)
  /\ Enter(p, "reconciling")
  /\ pass' = pass \cup {p}
  /\ UNCHANGED <<authorityVars, fatal, draining, quiet, intake, workVars, ledgerVars>>

(* Responders and the timer start in one turn of the event loop, so nothing *)
(* comes between the last check and "started".                              *)
Serve(p) ==
  /\ phase[p] = "reconciling" /\ p \notin pass
  /\ MayContinue(p)
  /\ Enter(p, "serving")
  /\ intake' = intake \cup {p}
  /\ UNCHANGED <<authorityVars, fatal, draining, quiet, pass, workVars, ledgerVars>>

(* An error in any step of boot, or a check that finds the process failed.  *)
BootFails(p) ==
  /\ phase[p] \in BootPhases
  /\ p \notin pass
  /\ BeginShutdown(p)
  /\ todo' = [todo EXCEPT ![p] = {}]
  /\ UNCHANGED <<authorityVars, fatal, draining, pass, intake, receiving, accepted, executor, ledgerVars>>

-----------------------------------------------------------------------------
(* Reconciliation passes: single-flight, none once the coordinator stopped. *)

Tick(p) ==
  /\ phase[p] = "serving"
  /\ p \notin quiet \cup pass
  /\ pass' = pass \cup {p}
  /\ UNCHANGED <<authorityVars, phase, fatal, draining, quiet, intake, workVars, ledgerVars>>

EndPass(p) ==
  /\ p \in pass
  /\ pass' = pass \ {p}
  /\ UNCHANGED <<authorityVars, phase, fatal, draining, quiet, intake, workVars, ledgerVars>>

-----------------------------------------------------------------------------
(* Command handlers and executors.                                          *)

(* Every command name has a subscription and a responder loop of its own.   *)
(* A loop takes its next message when its handler has answered; handlers of *)
(* different commands run side by side.                                     *)
Answered(p, c) == c \notin receiving[p] /\ \A o \in Ops : <<c, o>> \notin accepted[p]

Receive(p, c) ==
  /\ p \in intake
  /\ Answered(p, c)
  /\ receiving' = [receiving EXCEPT ![p] = @ \cup {c}]
  /\ UNCHANGED <<authorityVars, processVars, accepted, executor, todo, ledgerVars>>

(* The acceptance transaction uses the ordinary pool: it needs neither the  *)
(* authority session nor an open channel.                                   *)
Accept(p, c, o) ==
  /\ c \in receiving[p]
  /\ ledger[o] = "absent"
  /\ ledger' = [ledger EXCEPT ![o] = "open"]
  /\ acceptor' = [acceptor EXCEPT ![o] = p]
  /\ late' = IF p \in intake THEN late ELSE late \cup {o}
  /\ receiving' = [receiving EXCEPT ![p] = @ \ {c}]
  /\ accepted' = [accepted EXCEPT ![p] = @ \cup {<<c, o>>}]
  /\ UNCHANGED <<authorityVars, processVars, executor, todo>>

Reject(p, c) ==
  /\ c \in receiving[p]
  /\ receiving' = [receiving EXCEPT ![p] = @ \ {c}]
  /\ UNCHANGED <<authorityVars, processVars, accepted, executor, todo, ledgerVars>>

(* Mutant: schedule does not look at the shutdown flag. *)
AlwaysSchedules(p) == TRUE
Schedules(p) == p \notin draining

Schedule(p, c, o) ==
  /\ <<c, o>> \in accepted[p]
  /\ executor' = IF Schedules(p) THEN [executor EXCEPT ![o] = p] ELSE executor
  /\ accepted' = [accepted EXCEPT ![p] = @ \ {<<c, o>>}]
  /\ UNCHANGED <<authorityVars, processVars, receiving, todo, ledgerVars>>

(* An executor ends with its operation terminal, or without recording it.   *)
ExecutorEnds(o) ==
  /\ executor[o] # NoWorker
  /\ executor' = [executor EXCEPT ![o] = NoWorker]
  /\ ledger' \in {ledger, [ledger EXCEPT ![o] = "closed"]}
  /\ UNCHANGED <<authorityVars, processVars, receiving, accepted, todo, acceptor, late>>

-----------------------------------------------------------------------------
(* Shutdown.                                                                *)

Stop(p) ==
  /\ phase[p] = "serving"
  /\ BeginShutdown(p)
  /\ UNCHANGED <<authorityVars, fatal, draining, pass, intake, workVars, ledgerVars>>

(* The running pass is awaited; then the supervisor refuses new work and    *)
(* the channel starts to close.  Handlers in flight are not awaited.        *)
CloseIntake(p) ==
  /\ phase[p] = "stopping" /\ p \notin pass
  /\ Enter(p, "closing")
  /\ draining' = draining \cup {p}
  /\ intake' = intake \ {p}
  /\ UNCHANGED <<authorityVars, fatal, quiet, pass, workVars, ledgerVars>>

BeginDrain(p) ==
  /\ phase[p] = "closing"
  /\ Enter(p, "draining")
  /\ UNCHANGED <<authorityVars, fatal, draining, quiet, pass, intake, workVars, ledgerVars>>

(* A fatal error skips release.                                             *)
DrainSettles(p) ==
  /\ phase[p] = "draining" /\ Supervised(p) = {}
  /\ IF p \in fatal \/ authority[p] = "idle"
     THEN Enter(p, "stopped") /\ UNCHANGED authority
     ELSE Enter(p, "releasing") /\ BeginRelease(p)
  /\ UNCHANGED <<lock, check, severed, fatal, draining, quiet, pass, intake, workVars, ledgerVars>>

(* Mutant: drain waits for its executors without a deadline. *)
NoDeadline(p) == FALSE
DeadlinePasses(p) == Supervised(p) # {}

DrainTimesOut(p) ==
  /\ phase[p] = "draining" /\ DeadlinePasses(p)
  /\ Enter(p, "stopped")
  /\ fatal' = fatal \cup {p}
  /\ UNCHANGED <<authorityVars, draining, quiet, pass, intake, workVars, ledgerVars>>

(* handleFatalAuthorityLoss, called once from signalFatalLoss.              *)
FailStop(p) ==
  IF authority[p] = "released"
  THEN UNCHANGED <<fatal, draining, quiet, intake>>
  ELSE /\ fatal' = fatal \cup {p}
       /\ draining' = draining \cup {p}
       /\ quiet' = quiet \cup {p}
       /\ intake' = intake \ {p}

VerificationFails(p) ==
  /\ CheckFails(p)
  /\ FailStop(p)
  /\ UNCHANGED <<phase, pass, workVars, ledgerVars>>

Verification(p) ==
  /\ SendCheck(p) \/ AnswerCheck(p) \/ CheckPasses(p)
  /\ UNCHANGED <<processVars, workVars, ledgerVars>>

Release(p) ==
  /\ phase[p] = "releasing"
  /\ \/ ReleaseVerifies(p) /\ UNCHANGED <<phase, fatal, draining, quiet, intake>>
     \/ Unlocks(p) /\ Enter(p, "stopped") /\ UNCHANGED <<fatal, draining, quiet, intake>>
     \/ ReleaseFails(p) /\ Enter(p, "stopped") /\ FailStop(p)
     \/ /\ authority[p] = "lost"
        /\ Enter(p, "stopped")
        /\ UNCHANGED <<authorityVars, fatal, draining, quiet, intake>>
  /\ UNCHANGED <<pass, workVars, ledgerVars>>

-----------------------------------------------------------------------------
(* The process ends at any moment, and PostgreSQL ends sessions.            *)

Exit(p) ==
  /\ Alive(p)
  /\ Enter(p, "gone")
  /\ authority' = [authority EXCEPT ![p] = "idle"]
  /\ check' = [check EXCEPT ![p] = "none"]
  /\ pass' = pass \ {p}
  /\ intake' = intake \ {p}
  /\ receiving' = [receiving EXCEPT ![p] = {}]
  /\ accepted' = [accepted EXCEPT ![p] = {}]
  /\ todo' = [todo EXCEPT ![p] = {}]
  /\ executor' = [o \in Ops |-> IF executor[o] = p THEN NoWorker ELSE executor[o]]
  /\ UNCHANGED <<lock, severed, fatal, draining, quiet, ledgerVars>>

SessionLost(p) ==
  /\ SessionEnds(p)
  /\ Believes(p) => Cardinality(severed) < MaxSevered
  /\ UNCHANGED <<processVars, workVars, ledgerVars>>

-----------------------------------------------------------------------------
BootStep(p) ==
  \/ AcquireAuthority(p)
  \/ BeginClassification(p)
  \/ ClassifyOne(p)
  \/ BeginReconciliation(p)
  \/ Serve(p)
  \/ BootFails(p)

StopStep(p) ==
  \/ CloseIntake(p)
  \/ BeginDrain(p)
  \/ DrainSettles(p)
  \/ DrainTimesOut(p)
  \/ Release(p)

VerificationStep(p) == Verification(p) \/ VerificationFails(p)

HandlerStep(p, c) ==
  \/ Receive(p, c)
  \/ Reject(p, c)
  \/ \E o \in Ops : Accept(p, c, o) \/ Schedule(p, c, o)

Next ==
  \/ \E p \in Workers :
       \/ Start(p)
       \/ BootStep(p)
       \/ Tick(p)
       \/ EndPass(p)
       \/ \E c \in Commands : HandlerStep(p, c)
       \/ Stop(p)
       \/ StopStep(p)
       \/ VerificationStep(p)
       \/ Exit(p)
       \/ SessionLost(p)
  \/ \E o \in Ops : ExecutorEnds(o)

Spec == Init /\ [][Next]_vars

(* Fairness: timers fire and awaited queries settle (or the connection      *)
(* fails, which is a step too).  Nothing makes an executor end, an operator *)
(* stop a Worker, or the host kill it.                                      *)
Fairness ==
  \A p \in Workers :
    /\ WF_vars(StopStep(p))
    /\ WF_vars(EndPass(p))
    /\ WF_vars(VerificationStep(p))

FairSpec == Spec /\ Fairness

-----------------------------------------------------------------------------
(* Properties.                                                              *)

TypeOK ==
  /\ lock \in Workers \cup {NoWorker}
  /\ authority \in [Workers -> AuthorityStates]
  /\ check \in [Workers -> {"none", "sent", "owned", "failed"}]
  /\ phase \in [Workers -> Phases]
  /\ severed \subseteq Workers /\ fatal \subseteq Workers /\ draining \subseteq Workers
  /\ quiet \subseteq Workers /\ pass \subseteq Workers /\ intake \subseteq Workers
  /\ receiving \in [Workers -> SUBSET Commands]
  /\ accepted \in [Workers -> SUBSET (Commands \X Ops)]
  /\ executor \in [Ops -> Workers \cup {NoWorker}]
  /\ todo \in [Workers -> SUBSET Ops]
  /\ ledger \in [Ops -> {"absent", "open", "closed"}]
  /\ acceptor \in [Ops -> Workers \cup {NoWorker}]
  /\ late \subseteq Ops

(* Executors, reconciliation passes and classification: what may change     *)
(* provider or ledger state on a Worker's own initiative.                   *)
Acting(p) == Supervised(p) # {} \/ p \in pass \/ phase[p] = "classifying"

(* Command intake is open only in a process that believes in its authority  *)
(* and has not failed.                                                      *)
TakesCommandsWithAuthority(p) == p \in intake => authority[p] = "held" /\ p \notin fatal

(* "One mutation-capable Worker per Qiln database": whoever acts holds the  *)
(* advisory lock, through boot, drain, timeout and release, unless its      *)
(* session was ended from outside.  One that found that out takes no        *)
(* commands: a loss noticed while boot() waits keeps the responders from    *)
(* starting, a later one closes them, and shutdown closes them before the   *)
(* lock is given back.                                                      *)
ActsOnlyWithLock ==
  \A p \in Workers :
    /\ Acting(p) => lock = p \/ p \in severed
    /\ TakesCommandsWithAuthority(p)

(* A serving Worker meets no unfinished operation of an earlier process:    *)
(* classification came after the last acceptance of the others, except the  *)
(* acceptances that committed behind a closed channel or a lost session.    *)
ServingOwnsOpenOperations ==
  \A p \in Workers, o \in Open :
    phase[p] = "serving" /\ p \notin severed /\ acceptor[o] # p =>
      o \in late \/ acceptor[o] \in severed

(* submission.ts: "A rejected schedule leaves durable acceptance for startup *)
(* abandonment": as above, with no exception for late acceptances.          *)
RejectedScheduleIsAbandoned ==
  \A p \in Workers, o \in Open :
    phase[p] = "serving" /\ p \notin severed /\ acceptor[o] # p => acceptor[o] \in severed

(* Shutdown ends even if an executor never does.                            *)
StopEnds ==
  \A p \in Workers : phase[p] \in StopPhases ~> phase[p] \in {"stopped", "gone"}

(* A process does not go on for ever believing in a session that has ended. *)
LossIsNoticed ==
  \A p \in Workers : (p \in severed /\ Believes(p)) ~> ~Believes(p)
=============================================================================
