--------------------------- MODULE WorkerAuthority ---------------------------
(***************************************************************************)
(* Mutation authority, coordination/authority.ts: a PostgreSQL advisory     *)
(* lock held by one reserved session per Worker process.  The session may   *)
(* end without the process noticing; a scheduled query finds out later.     *)
(* WorkerRuntime says what a process does with its authority.               *)
(***************************************************************************)
EXTENDS FiniteSets

CONSTANTS
  Workers,   \* Worker processes, each started at most once
  NoWorker   \* no session holds the advisory lock

ASSUME NoWorkerAssumption == NoWorker \notin Workers

VARIABLES
  lock,      \* PostgreSQL: whose session holds the advisory lock
  authority, \* WorkerAuthority.state of each process
  check,     \* scheduled verification in flight: "none", "sent", or its answer
  severed    \* history: processes whose session ended under them

authorityVars == <<lock, authority, check, severed>>

AuthorityStates == {"idle", "held", "verifying", "unlocking", "released", "lost"}

AuthorityInit ==
  /\ lock = NoWorker
  /\ authority = [p \in Workers |-> "idle"]
  /\ check = [p \in Workers |-> "none"]
  /\ severed = {}

(* pg_try_advisory_lock on a fresh reserved connection.                     *)
Granted(p) ==
  /\ lock = NoWorker
  /\ lock' = p
  /\ authority' = [authority EXCEPT ![p] = "held"]
  /\ UNCHANGED <<check, severed>>

(* Refused, or granted with the answer lost: the candidate connection is    *)
(* closed and the state returns to idle.                                    *)
NotGranted(p) ==
  /\ \/ lock # NoWorker /\ UNCHANGED lock
     \/ lock = NoWorker /\ lock' \in {NoWorker, p}
  /\ UNCHANGED <<authority, check, severed>>

(* The reserved session ends at the server.  A process that still believes  *)
(* in its authority does not know yet.                                      *)
Believes(p) == authority[p] \in {"held", "verifying", "unlocking"}

SessionEnds(p) ==
  /\ lock = p
  /\ lock' = NoWorker
  /\ severed' = IF Believes(p) THEN severed \cup {p} ELSE severed
  /\ UNCHANGED <<authority, check>>

(* Scheduled verification: only while held, and one at a time.              *)
SendCheck(p) ==
  /\ authority[p] = "held"
  /\ check[p] = "none"
  /\ check' = [check EXCEPT ![p] = "sent"]
  /\ UNCHANGED <<lock, authority, severed>>

(* verifyOwnership on the original session: a dead one answers with an error. *)
AnswerCheck(p) ==
  /\ check[p] = "sent"
  /\ check' = [check EXCEPT ![p] = IF lock = p THEN "owned" ELSE "failed"]
  /\ UNCHANGED <<lock, authority, severed>>

(* Mutant: verificationInFlight is not cleared after a good answer. *)
InFlightNeverCleared(p) ==
  check[p] = "owned" /\ UNCHANGED <<lock, authority, check, severed>>
CheckPasses(p) ==
  /\ check[p] = "owned"
  /\ check' = [check EXCEPT ![p] = "none"]
  /\ UNCHANGED <<lock, authority, severed>>

(* signalFatalLoss: final, and nothing once the lock was properly released. *)
SignalLoss(p) ==
  authority' = [authority EXCEPT ![p] = IF @ = "released" THEN @ ELSE "lost"]

CheckFails(p) ==
  /\ check[p] = "failed"
  /\ check' = [check EXCEPT ![p] = "none"]
  /\ SignalLoss(p)
  /\ UNCHANGED <<lock, severed>>

(* release: no further scheduled verification, the one in flight is awaited, *)
(* then ownership is verified and the lock released on the same session.    *)
(* Mutant: a state nothing else of the class tests for. *)
EntersReleasing(p) == authority' = [authority EXCEPT ![p] = IF @ = "held" THEN "releasing" ELSE @]
BeginRelease(p) ==
  authority' = [authority EXCEPT ![p] = IF @ = "held" THEN "verifying" ELSE @]

ReleaseVerifies(p) ==
  /\ authority[p] = "verifying"
  /\ check[p] = "none"
  /\ lock = p
  /\ authority' = [authority EXCEPT ![p] = "unlocking"]
  /\ UNCHANGED <<lock, check, severed>>

(* The server unlocks; the answer may be lost on the way back.              *)
Unlocks(p) ==
  /\ authority[p] = "unlocking"
  /\ lock = p
  /\ lock' = NoWorker
  /\ authority' = [authority EXCEPT ![p] = "released"]
  /\ UNCHANGED <<check, severed>>

ReleaseFails(p) ==
  /\ \/ authority[p] = "verifying" /\ check[p] = "none" /\ lock # p /\ UNCHANGED lock
     \/ authority[p] = "unlocking" /\ lock # p /\ UNCHANGED lock
     \/ authority[p] = "unlocking" /\ lock = p /\ lock' = NoWorker
  /\ SignalLoss(p)
  /\ UNCHANGED <<check, severed>>
=============================================================================
