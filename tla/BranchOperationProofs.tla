------------------------ MODULE BranchOperationProofs ------------------------
(***************************************************************************)
(* Theorems about branch operations, for every set of branches, capsules,  *)
(* keys, handlers and operation ids, any number of Worker processes, with  *)
(* and without overlapping Workers and provider calls that outlive their   *)
(* deadline.                                                                *)
(***************************************************************************)
EXTENDS BranchOperation, TLAPS

(* Positions after the executor's own intent transaction returned.          *)
ProviderSteps == {"call", "observe", "online", "enable", "resume", "complete"}

(* What the position of an executor says about the row of its operation.    *)
ExecutorInv ==
  /\ touched \subseteq intent
  /\ \A o \in OpIds :
       /\ executor[o].step \in ProviderSteps =>
            o \in intent /\ opStatus[o] \in {"running", "cleanup_required"}
       /\ executor[o].step \in ProviderSteps \ {"call"} => o \in touched
       /\ executor[o].step = "previous_confirmed" => o \in witnessed

(* A handler past its first step carries a request, and the rows that exist *)
(* carry theirs.                                                            *)
RequestInv ==
  /\ \A h \in Handlers :
       /\ handler[h].step # "idle" => handler[h].request \in Requests
       /\ \A o \in handler[h].op : opStatus[o] # "absent"
  /\ \A o \in OpIds :
       /\ opStatus[o] = "absent" <=> request[o] = NoRequest
       /\ executor[o].step # "none" => opStatus[o] # "absent"
  /\ \A o \in worker.todo : opStatus[o] # "absent"

(* The inductive invariant.                                                 *)
BranchInv == TypeOK /\ RequestInv /\ ExecutorInv /\ FailedIsSafe

LEMMA InitBranchInv == Init => BranchInv
  BY BoundAssumption
     DEF Init, BranchInv, TypeOK, RequestInv, ExecutorInv, FailedIsSafe, Idle,
         IdleHandler, Nonterminal, Terminal, ExecutorSteps, Dispositions, StartSteps, StopSteps,
         ProviderSteps, BranchStatuses, BranchType, HandlerType,
         ExecutorType, RuntimeType

(* An answered or dropped request leaves the ledger as it is.               *)
LEMMA AnswerPreserves ==
  ASSUME BranchInv, NEW h \in Handlers, NEW o \in OpIds,
         handler[h].step # "idle", AnswerReplay(h, o), request[o] # NoRequest,
         UNCHANGED <<ledgerVars, executor, worker, reconciler, providerVars, touched,
                     witnessed, accessVars>>
  PROVE  BranchInv'
<1> USE DEF BranchInv, ledgerVars, providerVars, accessVars
<1>1. handler[h].request \in Requests
  BY DEF RequestInv
<1>2. receipts' \subseteq [request : Requests, op : OpIds]
  BY <1>1 DEF AnswerReplay, GiveReceipt, TypeOK
<1>3. handler' = [handler EXCEPT ![h] = IdleHandler]
  BY DEF AnswerReplay
<1>4. TypeOK'
  BY <1>2, <1>3 DEF TypeOK, HandlerType, IdleHandler
<1>5. RequestInv'
  BY <1>3 DEF TypeOK, RequestInv, IdleHandler
<1>6. ExecutorInv' /\ FailedIsSafe'
  BY DEF ExecutorInv, FailedIsSafe
<1> QED BY <1>4, <1>5, <1>6

LEMMA SubmitPreserves ==
  ASSUME BranchInv, NEW h \in Handlers, NEW r \in Requests, Submit(h, r)
  PROVE  BranchInv'
<1> USE DEF BranchInv, Submit, ledgerVars, providerVars, historyVars, accessVars
<1>1. TypeOK'
  BY DEF TypeOK, HandlerType, IdleHandler
<1>2. RequestInv'
  BY DEF TypeOK, RequestInv, IdleHandler
<1>3. ExecutorInv' /\ FailedIsSafe'
  BY DEF ExecutorInv, FailedIsSafe
<1> QED BY <1>1, <1>2, <1>3

LEMMA LookupPreserves ==
  ASSUME BranchInv, NEW h \in Handlers, LookupReplay(h)
  PROVE  BranchInv'
<1> USE DEF LookupReplay, ledgerVars, providerVars, accessVars
<1>1. ASSUME NEW o \in WithKey(handler[h].request.key), AnswerReplay(h, o) PROVE BranchInv'
  BY <1>1, AnswerPreserves DEF WithKey, BranchInv, RequestInv
<1>2. CASE /\ handler' = [handler EXCEPT ![h].step = "accept"]
           /\ UNCHANGED receipts
  <2> USE <1>2 DEF BranchInv
  <2>0. handler' \in [Handlers -> HandlerType]
    BY DEF TypeOK, HandlerType
  <2>1. TypeOK'
    BY <2>0 DEF TypeOK
  <2>2. RequestInv'
    BY DEF TypeOK, RequestInv
  <2>3. ExecutorInv' /\ FailedIsSafe'
    BY DEF ExecutorInv, FailedIsSafe
  <2> QED BY <2>1, <2>2, <2>3
<1> QED BY <1>1, <1>2

(* The inserted row is new, so nothing yet refers to it.                    *)
LEMMA InsertPreserves ==
  ASSUME BranchInv, NEW h \in Handlers, NEW o \in OpIds,
         handler[h].step = "accept", Insert(o, handler[h].request),
         handler' = [handler EXCEPT ![h].step = "schedule", ![h].op = {o}],
         UNCHANGED <<executor, worker, reconciler, providerVars, historyVars, accessVars>>
  PROVE  BranchInv'
<1>0. handler' \in [Handlers -> HandlerType]
  <2>1. handler \in [Handlers -> HandlerType]
    BY DEF BranchInv, TypeOK
  <2>2. handler[h] \in HandlerType /\ {o} \in SUBSET OpIds
    BY <2>1
  <2>3. [handler[h] EXCEPT !.step = "schedule", !.op = {o}] \in HandlerType
    BY <2>2 DEF HandlerType
  <2>4. handler' = [handler EXCEPT ![h] = [handler[h] EXCEPT !.step = "schedule", !.op = {o}]]
    BY <2>1
  <2> QED BY <2>1, <2>3, <2>4
<1> USE DEF BranchInv, Insert, providerVars, historyVars, accessVars
<1>1. handler[h].request \in Requests
  BY DEF RequestInv
<1>2. /\ opStatus' \in [OpIds -> {"absent"} \cup Nonterminal \cup Terminal]
      /\ request' \in [OpIds -> Requests \cup {NoRequest}]
  BY <1>1 DEF TypeOK, Nonterminal
<1>3. branch' \in [Branches -> BranchType]
  BY <1>1 DEF TypeOK, BranchType, AcceptedStatus, BranchStatuses, Requests
<1>4. TypeOK'
  BY <1>0, <1>2, <1>3 DEF TypeOK
<1>5. RequestInv'
  BY <1>1, RequestAssumption DEF TypeOK, RequestInv
<1>6. ExecutorInv' /\ FailedIsSafe'
  BY DEF TypeOK, ExecutorInv, FailedIsSafe
<1> QED BY <1>4, <1>5, <1>6

LEMMA AcceptPreserves ==
  ASSUME BranchInv, NEW h \in Handlers, AcceptTransaction(h)
  PROVE  BranchInv'
<1> DEFINE r == handler[h].request
<1> USE DEF AcceptTransaction, ledgerVars, providerVars, historyVars, accessVars
<1>1. ASSUME NEW o \in RecheckReplay(r.key), AnswerReplay(h, o), UNCHANGED ledgerVars
      PROVE  BranchInv'
  BY <1>1, AnswerPreserves DEF RecheckReplay, WithKey, BranchInv, RequestInv
<1>2. ASSUME NEW o \in OpIds, Insert(o, r), UNCHANGED receipts,
             handler' = [handler EXCEPT ![h].step = "schedule", ![h].op = {o}]
      PROVE  BranchInv'
  BY <1>2, InsertPreserves
<1>3. CASE /\ handler' = [handler EXCEPT ![h] = IdleHandler]
           /\ UNCHANGED <<ledgerVars, receipts>>
  <2> USE <1>3 DEF BranchInv
  <2>1. TypeOK'
    BY DEF TypeOK, HandlerType, IdleHandler
  <2>2. RequestInv'
    BY DEF TypeOK, RequestInv, IdleHandler
  <2>3. ExecutorInv' /\ FailedIsSafe'
    BY DEF ExecutorInv, FailedIsSafe
  <2> QED BY <2>1, <2>2, <2>3
<1> QED BY <1>1, <1>2, <1>3

LEMMA SchedulePreserves ==
  ASSUME BranchInv, NEW h \in Handlers, Schedule(h)
  PROVE  BranchInv'
<1> USE DEF BranchInv, Schedule, ledgerVars, providerVars, accessVars
<1>1. PICK o \in handler[h].op :
        /\ executor' = [executor EXCEPT ![o].step = "claim"] \/ UNCHANGED executor
        /\ GiveReceipt(h, o)
  OBVIOUS
<1>2. o \in OpIds /\ handler[h].request \in Requests
  BY DEF TypeOK, HandlerType, RequestInv
<1>3. receipts' \subseteq [request : Requests, op : OpIds]
  BY <1>1, <1>2 DEF TypeOK, GiveReceipt
<1>a. \A p \in OpIds : executor'[p] = executor[p] \/ executor'[p].step = "claim"
  <2>1. CASE UNCHANGED executor
    BY <2>1
  <2>2. CASE executor' = [executor EXCEPT ![o].step = "claim"]
    BY <1>2, <2>2 DEF TypeOK, ExecutorType
  <2> QED BY <1>1, <2>1, <2>2
<1>4. executor' \in [OpIds -> ExecutorType]
  <2>1. executor' \in [OpIds -> ExecutorType] \/ executor' = [executor EXCEPT ![o].step = "claim"]
    BY <1>1 DEF TypeOK
  <2> QED BY <1>2, <2>1 DEF TypeOK, ExecutorType, ExecutorSteps, StartSteps
<1>5. TypeOK'
  BY <1>3, <1>4 DEF TypeOK, HandlerType, IdleHandler
<1>6. RequestInv'
  <2>1. opStatus[o] # "absent"
    BY DEF RequestInv
  <2>2. \A p \in OpIds : executor'[p].step # "none" => opStatus[p] # "absent"
    BY <1>1, <1>2, <2>1 DEF TypeOK, RequestInv
  <2>3. \A g \in Handlers : handler'[g] \in {handler[g], IdleHandler}
    BY DEF TypeOK
  <2> QED BY <2>2, <2>3 DEF TypeOK, RequestInv, IdleHandler
<1>7. ExecutorInv' /\ FailedIsSafe'
  BY <1>a DEF TypeOK, ExecutorType, ExecutorInv, FailedIsSafe, ProviderSteps
<1> QED BY <1>5, <1>6, <1>7

(* What moving one executor does to the executors.                          *)
LEMMA GotoMoves ==
  ASSUME executor \in [OpIds -> ExecutorType], NEW o \in OpIds, NEW s \in ExecutorSteps,
         Goto(o, s)
  PROVE  /\ executor' \in [OpIds -> ExecutorType]
         /\ executor'[o].step = s
         /\ \A p \in OpIds : p # o => executor'[p] = executor[p]
<1>1. executor'[o] = [executor[o] EXCEPT !.step = s]
  BY DEF Goto
<1>2. executor'[o] \in ExecutorType /\ executor'[o].step = s
  BY <1>1 DEF ExecutorType
<1> QED BY <1>2 DEF Goto

LEMMA StopMoves ==
  ASSUME executor \in [OpIds -> ExecutorType], NEW o \in OpIds, Stop(o)
  PROVE  /\ executor' \in [OpIds -> ExecutorType]
         /\ executor'[o].step = "none"
         /\ \A p \in OpIds : p # o => executor'[p] = executor[p]
BY DEF Stop, Idle, ExecutorType, ExecutorSteps

(* A step that leaves the rows and the history alone and moves an executor  *)
(* to a position that claims no more than it already knew.                  *)
LEMMA MovePreserves ==
  ASSUME BranchInv, NEW o \in OpIds,
         executor' \in [OpIds -> ExecutorType],
         executor[o].step # "none",
         \A p \in OpIds : p # o => executor'[p] = executor[p],
         executor'[o].step \in ProviderSteps => executor[o].step \in ProviderSteps \ {"call"},
         executor'[o].step = "previous_confirmed" => o \in witnessed',
         witnessed \subseteq witnessed', witnessed' \subseteq OpIds,
         UNCHANGED <<opStatus, request, intent, handler, worker, touched>>
  PROVE  RequestInv' /\ ExecutorInv' /\ FailedIsSafe'
<1> USE DEF BranchInv
<1>1. RequestInv'
  BY DEF RequestInv
<1>2. ExecutorInv'
  BY DEF ExecutorInv, ProviderSteps
<1>3. FailedIsSafe'
  BY DEF FailedIsSafe
<1> QED BY <1>1, <1>2, <1>3

LEMMA ClaimPreserves ==
  ASSUME BranchInv, NEW o \in OpIds, Claim(o)
  PROVE  BranchInv'
<1> USE DEF BranchInv, ledgerVars, providerVars, historyVars, accessVars
<1>1. PICK s \in {"intent", "revoke", "pre_provider"} : Goto(o, s)
  BY DEF Claim
<1>2. /\ executor' \in [OpIds -> ExecutorType]
      /\ executor'[o].step = s
      /\ \A p \in OpIds : p # o => executor'[p] = executor[p]
  BY <1>1, GotoMoves DEF TypeOK, ExecutorSteps, StartSteps, StopSteps, Dispositions
<1>3. /\ executor[o].step = "claim"
      /\ \/ UNCHANGED opStatus
         \/ opStatus[o] = "accepted" /\ opStatus' = [opStatus EXCEPT ![o] = "running"]
  BY DEF Claim, Ready, At
<1> HIDE DEF ledgerVars, providerVars, historyVars, accessVars
<1>4. opStatus' \in [OpIds -> {"absent"} \cup Nonterminal \cup Terminal]
  BY <1>3 DEF TypeOK, Nonterminal
<1>5. UNCHANGED <<request, intent, branch, handler, worker, reconciler, providerVars,
                  historyVars, accessVars>>
  BY DEF Claim
<1>6. TypeOK'
  BY <1>2, <1>4, <1>5 DEF TypeOK, providerVars, historyVars, accessVars
<1>7. RequestInv'
  <2>1. \A p \in OpIds : opStatus'[p] = "absent" <=> opStatus[p] = "absent"
    BY <1>3 DEF TypeOK
  <2>2. \A p \in OpIds : executor'[p].step # "none" => executor[p].step # "none"
    BY <1>2, <1>3
  <2>3. \A h \in Handlers : handler[h].op \subseteq OpIds
    BY DEF TypeOK, HandlerType
  <2>4. worker.todo \subseteq OpIds
    BY DEF TypeOK
  <2> QED BY <1>5, <2>1, <2>2, <2>3, <2>4 DEF RequestInv
<1>8. ExecutorInv' /\ FailedIsSafe'
  BY <1>1, <1>2, <1>3, <1>5 DEF TypeOK, ExecutorInv, FailedIsSafe, ProviderSteps, historyVars
<1> QED BY <1>6, <1>7, <1>8

(* The steps of stop that withdraw access touch no row.                     *)
LEMMA WithdrawalPreserves ==
  ASSUME BranchInv, NEW o \in OpIds, RevokeSsh(o) \/ WithdrawPreviews(o)
  PROVE  BranchInv'
<1> USE DEF BranchInv, RevokeSsh, WithdrawPreviews, At, ledgerVars, providerVars, historyVars
<1>1. PICK s \in {"withdraw", "intent"} : Goto(o, s)
  OBVIOUS
<1>2. /\ executor' \in [OpIds -> ExecutorType]
      /\ executor'[o].step = s
      /\ \A p \in OpIds : p # o => executor'[p] = executor[p]
  BY <1>1, GotoMoves DEF TypeOK, ExecutorSteps, StartSteps, StopSteps
<1>3. TypeOK'
  BY <1>2 DEF TypeOK
<1>4. RequestInv' /\ ExecutorInv' /\ FailedIsSafe'
  <2>1. /\ executor[o].step # "none"
        /\ executor'[o].step \notin ProviderSteps \cup {"previous_confirmed"}
    BY <1>2 DEF ProviderSteps
  <2>2. witnessed \subseteq witnessed' /\ witnessed' \subseteq OpIds
    BY DEF TypeOK
  <2>3. UNCHANGED <<opStatus, request, intent, handler, worker, touched>>
    OBVIOUS
  <2> HIDE DEF BranchInv, RevokeSsh, WithdrawPreviews
  <2> QED BY <1>2, <2>1, <2>2, <2>3, MovePreserves
<1> QED BY <1>3, <1>4

(* Only the executor whose own transaction returned goes on to the provider.*)
LEMMA IntentPreserves ==
  ASSUME BranchInv, NEW o \in OpIds, RecordIntent(o)
  PROVE  BranchInv'
<1> USE DEF BranchInv
<1>1. PICK s \in {"call", "pre_provider"} : Goto(o, s)
  BY DEF RecordIntent
<1>2. /\ executor' \in [OpIds -> ExecutorType]
      /\ executor'[o].step = s
      /\ \A p \in OpIds : p # o => executor'[p] = executor[p]
  BY <1>1, GotoMoves DEF TypeOK, ExecutorSteps, StartSteps, StopSteps, Dispositions
<1>3. /\ executor[o].step = "intent"
      /\ \/ s = "pre_provider" /\ UNCHANGED intent
         \/ opStatus[o] = "running" /\ intent' = intent \cup {o}
  <2>1. executor[o].step = "intent"
    BY DEF RecordIntent, At
  <2>2. CASE Ready(o, "running", FALSE, AcceptedStatus(TypeOf(o))) /\ GateOpen(o)
    BY <2>1, <2>2 DEF RecordIntent, Ready
  <2>3. CASE ~(Ready(o, "running", FALSE, AcceptedStatus(TypeOf(o))) /\ GateOpen(o))
    <3>1. Goto(o, "pre_provider") /\ UNCHANGED intent
      BY <2>3 DEF RecordIntent
    <3>2. s = "pre_provider"
      BY <1>2, <3>1, GotoMoves DEF TypeOK, ExecutorSteps, Dispositions
    <3> QED BY <2>1, <3>1, <3>2
  <2> QED BY <2>2, <2>3
<1>4. UNCHANGED <<opStatus, request, branch, handler, worker, reconciler, providerVars,
                  historyVars, accessVars>>
  BY DEF RecordIntent
<1>5. TypeOK'
  BY <1>2, <1>3, <1>4 DEF TypeOK, providerVars, historyVars, accessVars
<1>6. RequestInv'
  BY <1>2, <1>3, <1>4 DEF TypeOK, RequestInv
<1>7. ExecutorInv' /\ FailedIsSafe'
  BY <1>1, <1>2, <1>3, <1>4 DEF TypeOK, ExecutorInv, FailedIsSafe, ProviderSteps, historyVars
<1> QED BY <1>5, <1>6, <1>7

(* The provider is only asked for a row that is not, and cannot become,     *)
(* safely failed.                                                           *)
LEMMA CallPreserves ==
  ASSUME BranchInv, NEW o \in OpIds, CallProvider(o)
  PROVE  BranchInv'
<1> USE DEF BranchInv, CallProvider, ledgerVars, accessVars
<1>1. /\ executor' \in [OpIds -> ExecutorType]
      /\ executor'[o].step = "observe"
      /\ \A p \in OpIds : p # o => executor'[p] = executor[p]
  BY GotoMoves DEF TypeOK, ExecutorSteps, StartSteps
<1>2. o \in intent /\ opStatus[o] \in {"running", "cleanup_required"}
  BY DEF ExecutorInv, ProviderSteps, At
<1>3. TypeOK'
  BY <1>1 DEF TypeOK
<1>4. RequestInv'
  BY <1>1, <1>2 DEF RequestInv
<1>5. ExecutorInv' /\ FailedIsSafe'
  BY <1>1, <1>2 DEF ExecutorInv, FailedIsSafe, ProviderSteps
<1> QED BY <1>3, <1>4, <1>5

(* previous_confirmed is reached only by seeing the previous runtime state. *)
LEMMA ObservePreserves ==
  ASSUME BranchInv, NEW o \in OpIds, ObserveRuntime(o)
  PROVE  BranchInv'
<1>0. /\ executor[o].step = "observe"
      /\ UNCHANGED <<ledgerVars, handler, worker, reconciler, providerVars, touched, receipts,
                     accessVars>>
  BY DEF ObserveRuntime, At
<1>a. /\ executor \in [OpIds -> ExecutorType]
      /\ runtime \in [Branches -> RuntimeType]
      /\ witnessed \subseteq OpIds
  BY DEF BranchInv, TypeOK
<1>b. BranchOf(o) \in Branches
  BY <1>0 DEF BranchInv, TypeOK, RequestInv, BranchOf, Requests
<1>1. /\ executor' \in [OpIds -> ExecutorType]
      /\ \A p \in OpIds : p # o => executor'[p] = executor[p]
      /\ executor'[o].step \in {"online", "complete", "cleanup_required", "previous_confirmed"}
      /\ executor'[o].step = "previous_confirmed" => o \in witnessed'
      /\ witnessed \subseteq witnessed' /\ witnessed' \subseteq OpIds
  <2>1. ASSUME NEW s \in {"previous_confirmed", "complete", "cleanup_required"}, Goto(o, s),
               s = "previous_confirmed" => o \in witnessed',
               witnessed' \in {witnessed, witnessed \cup {o}}
        PROVE  <1>1!:
    BY <1>a, <2>1, GotoMoves DEF ExecutorSteps, StartSteps, Dispositions
  <2>2. ASSUME NEW s \in {"online", "previous_confirmed"},
               executor' = [executor EXCEPT ![o] = [step |-> s, ip |-> runtime[BranchOf(o)].ip]],
               s = "previous_confirmed" => o \in witnessed',
               witnessed' \in {witnessed, witnessed \cup {o}}
        PROVE  <1>1!:
    <3>1. [step |-> s, ip |-> runtime[BranchOf(o)].ip] \in ExecutorType
      BY <1>a, <1>b DEF ExecutorType, RuntimeType, ExecutorSteps, StartSteps, Dispositions
    <3> QED BY <1>a, <2>2, <3>1
  <2>3. CASE TypeOf(o) = "branch_start"
    BY <2>1, <2>2, <2>3 DEF ObserveRuntime
  <2>4. CASE TypeOf(o) # "branch_start"
    BY <2>1, <2>2, <2>4 DEF ObserveRuntime
  <2> QED BY <2>3, <2>4
<1>2. TypeOK'
  BY <1>0, <1>1 DEF BranchInv, TypeOK, ledgerVars, providerVars, accessVars
<1>3. RequestInv' /\ ExecutorInv' /\ FailedIsSafe'
  <2>1. /\ executor[o].step # "none" /\ executor[o].step \in ProviderSteps \ {"call"}
    BY <1>0 DEF ProviderSteps
  <2>2. UNCHANGED <<opStatus, request, intent, handler, worker, touched>>
    BY <1>0 DEF ledgerVars
  <2> QED BY <1>1, <2>1, <2>2, MovePreserves
<1> QED BY <1>2, <1>3 DEF BranchInv

(* The database and access steps between observation and completion.        *)
LEMMA ConfirmPreserves ==
  ASSUME BranchInv, NEW o \in OpIds,
         ConfirmOnline(o) \/ EnableSsh(o) \/ ResumePreviews(o)
  PROVE  BranchInv'
<1>1. PICK s \in {"enable", "resume", "complete", "cleanup_required"} : Goto(o, s)
  BY DEF ConfirmOnline, EnableSsh, ResumePreviews
<1>2. /\ executor[o].step \in {"online", "enable", "resume"}
      /\ UNCHANGED <<opStatus, request, intent, handler, worker, reconciler, providerVars,
                     historyVars>>
  BY DEF ConfirmOnline, EnableSsh, ResumePreviews, At, ledgerVars
<1>3. /\ executor' \in [OpIds -> ExecutorType]
      /\ executor'[o].step = s
      /\ \A p \in OpIds : p # o => executor'[p] = executor[p]
  BY <1>1, GotoMoves DEF BranchInv, TypeOK, ExecutorSteps, StartSteps, Dispositions
<1>4. /\ branch' \in [Branches -> BranchType]
      /\ ssh' \subseteq Branches /\ exposed' \subseteq Branches
  <2>1. BranchOf(o) \in Branches
    BY <1>2 DEF BranchInv, TypeOK, RequestInv, BranchOf, Requests
  <2>2. CASE ConfirmOnline(o)
    <3>1. [status |-> "online", ip |-> executor[o].ip] \in BranchType
      BY DEF BranchInv, TypeOK, ExecutorType, BranchType, BranchStatuses
    <3> QED BY <2>2, <3>1 DEF ConfirmOnline, BranchInv, TypeOK, accessVars
  <2>3. CASE EnableSsh(o) \/ ResumePreviews(o)
    BY <2>1, <2>3 DEF EnableSsh, ResumePreviews, BranchInv, TypeOK, accessVars, ledgerVars
  <2> QED BY <2>2, <2>3
<1>5. TypeOK'
  BY <1>2, <1>3, <1>4 DEF BranchInv, TypeOK, providerVars, historyVars
<1>6. RequestInv' /\ ExecutorInv' /\ FailedIsSafe'
  <2>1. /\ executor[o].step # "none" /\ executor[o].step \in ProviderSteps \ {"call"}
        /\ executor'[o].step # "previous_confirmed"
    BY <1>2, <1>3 DEF ProviderSteps
  <2>2. witnessed \subseteq witnessed' /\ witnessed' \subseteq OpIds /\ UNCHANGED touched
    BY <1>2 DEF historyVars, BranchInv, TypeOK
  <2> QED BY <1>2, <1>3, <2>1, <2>2, MovePreserves
<1> QED BY <1>5, <1>6 DEF BranchInv

(* Completion, like every terminal write, acts on a nonterminal row.        *)
LEMMA CompletePreserves ==
  ASSUME BranchInv, NEW o \in OpIds, Complete(o)
  PROVE  BranchInv'
<1>1. PICK s \in {"none", "cleanup_required"} :
        /\ executor' \in [OpIds -> ExecutorType]
        /\ executor'[o].step = s
        /\ \A p \in OpIds : p # o => executor'[p] = executor[p]
  <2>1. Stop(o) \/ Goto(o, "cleanup_required")
    BY DEF Complete
  <2> QED BY <2>1, StopMoves, GotoMoves DEF BranchInv, TypeOK, ExecutorSteps, Dispositions
<1>2. /\ executor[o].step = "complete"
      /\ \/ UNCHANGED opStatus
         \/ opStatus[o] = "running" /\ opStatus' = [opStatus EXCEPT ![o] = "completed"]
      /\ UNCHANGED <<request, intent, handler, worker, reconciler, providerVars, historyVars,
                     accessVars>>
  BY DEF Complete, Ready, At
<1>3. opStatus' \in [OpIds -> {"absent"} \cup Nonterminal \cup Terminal]
  BY <1>2 DEF BranchInv, TypeOK, Terminal
<1>4. branch' \in [Branches -> BranchType]
  <2>1. [status |-> "offline", ip |-> NoIp] \in BranchType
    BY DEF BranchType, BranchStatuses
  <2> QED BY <2>1 DEF Complete, BranchInv, TypeOK
<1>5. TypeOK'
  BY <1>1, <1>2, <1>3, <1>4 DEF BranchInv, TypeOK, providerVars, historyVars, accessVars
<1>6. RequestInv'
  <2>1. \A p \in OpIds : opStatus'[p] = "absent" <=> opStatus[p] = "absent"
    BY <1>2 DEF BranchInv, TypeOK
  <2>2. \A p \in OpIds : executor'[p].step # "none" => executor[p].step # "none"
    BY <1>1, <1>2
  <2>3. (\A h \in Handlers : handler[h].op \subseteq OpIds) /\ worker.todo \subseteq OpIds
    BY DEF BranchInv, TypeOK, HandlerType
  <2> QED BY <1>2, <2>1, <2>2, <2>3 DEF BranchInv, RequestInv
<1>7. ExecutorInv' /\ FailedIsSafe'
  BY <1>1, <1>2 DEF BranchInv, TypeOK, ExecutorInv, FailedIsSafe, ProviderSteps, historyVars
<1> QED BY <1>5, <1>6, <1>7 DEF BranchInv

(* What classification does to the rows: the operation's own row ends, as   *)
(* "failed" only if nothing was uncertain.                                  *)
LEMMA ClassifyEffect ==
  ASSUME BranchInv, NEW o \in OpIds, NEW uncertain, NEW ip \in Ips \cup {NoIp},
         ClassifyAs(o, uncertain, ip)
  PROVE  /\ \E s \in {"failed", "cleanup_required"} :
              /\ opStatus' = [opStatus EXCEPT ![o] = s]
              /\ s = "failed" => ~uncertain
         /\ branch' \in [Branches -> BranchType]
         /\ UNCHANGED <<request, intent>>
<1>1. /\ \E s \in {"failed", "cleanup_required"} :
           /\ opStatus' = [opStatus EXCEPT ![o] = s]
           /\ s = "failed" => ~uncertain
      /\ UNCHANGED <<request, intent>>
  BY DEF ClassifyAs
<1>2. \A c \in BOOLEAN :
        LET status == IF c THEN "cleanup_required" ELSE Initial(TypeOf(o)) IN
        [status |-> status, ip |-> IF status = "online" THEN ip ELSE NoIp] \in BranchType
  BY DEF BranchType, BranchStatuses, Initial
<1>3. branch' \in [Branches -> BranchType]
  BY <1>2 DEF ClassifyAs, BranchInv, TypeOK
<1> QED BY <1>1, <1>3

(* The live executor's own report.                                          *)
LEMMA FailPreserves ==
  ASSUME BranchInv, NEW o \in OpIds, Fail(o)
  PROVE  BranchInv'
<1>1. /\ executor' \in [OpIds -> ExecutorType]
      /\ executor'[o].step = "none"
      /\ \A p \in OpIds : p # o => executor'[p] = executor[p]
  BY StopMoves DEF Fail, BranchInv, TypeOK
<1>2. /\ executor[o].step \in Dispositions
      /\ opStatus[o] # "absent"
      /\ UNCHANGED <<handler, worker, reconciler, providerVars, historyVars, accessVars>>
  BY DEF Fail, BranchInv, RequestInv, Dispositions
<1>3. CASE opStatus[o] \in Nonterminal
  <2>1. PICK ip \in Ips \cup {NoIp} : ClassifyAs(o, LiveUncertain(o, executor[o].step), ip)
    <3>1. BranchOf(o) \in Branches
      BY <1>2 DEF BranchInv, TypeOK, RequestInv, BranchOf, Requests
    <3>2. executor[o].ip \in Ips \cup {NoIp} /\ branch[BranchOf(o)].ip \in Ips \cup {NoIp}
      BY <3>1 DEF BranchInv, TypeOK, ExecutorType, BranchType
    <3> QED BY <1>3, <3>2 DEF Fail
  <2>2. PICK s \in {"failed", "cleanup_required"} :
          /\ opStatus' = [opStatus EXCEPT ![o] = s]
          /\ s = "failed" => ~LiveUncertain(o, executor[o].step)
    BY <2>1, ClassifyEffect
  <2>3. branch' \in [Branches -> BranchType] /\ UNCHANGED <<request, intent>>
    BY <2>1, ClassifyEffect
  <2>4. s = "failed" /\ o \in touched => o \in witnessed
    BY <1>2, <2>2 DEF LiveUncertain, Dispositions, BranchInv, ExecutorInv
  <2>5. TypeOK'
    BY <1>1, <1>2, <2>2, <2>3 DEF BranchInv, TypeOK, Terminal, providerVars, historyVars, accessVars
  <2>6. RequestInv'
    <3>1. \A p \in OpIds : opStatus'[p] = "absent" <=> opStatus[p] = "absent"
      BY <1>2, <2>2 DEF BranchInv, TypeOK
    <3>2. \A p \in OpIds : executor'[p].step # "none" => executor[p].step # "none"
      BY <1>1
    <3>3. (\A h \in Handlers : handler[h].op \subseteq OpIds) /\ worker.todo \subseteq OpIds
      BY DEF BranchInv, TypeOK, HandlerType
    <3> QED BY <1>2, <2>3, <3>1, <3>2, <3>3 DEF BranchInv, RequestInv
  <2>7. ExecutorInv'
    BY <1>1, <1>2, <2>2, <2>3 DEF BranchInv, TypeOK, ExecutorInv, ProviderSteps, historyVars
  <2>8. FailedIsSafe'
    BY <1>2, <2>2, <2>4 DEF BranchInv, TypeOK, FailedIsSafe, historyVars
  <2> QED BY <2>5, <2>6, <2>7, <2>8 DEF BranchInv
<1>4. CASE opStatus[o] \notin Nonterminal
  <2>1. UNCHANGED ledgerVars
    BY <1>4 DEF Fail
  <2>2. TypeOK'
    BY <1>1, <1>2, <2>1 DEF BranchInv, TypeOK, ledgerVars, providerVars, historyVars, accessVars
  <2>3. /\ executor[o].step # "none"
        /\ executor'[o].step \notin ProviderSteps \cup {"previous_confirmed"}
        /\ witnessed \subseteq witnessed' /\ witnessed' \subseteq OpIds
        /\ UNCHANGED <<opStatus, request, intent, handler, worker, touched>>
    BY <1>1, <1>2, <2>1 DEF Dispositions, ProviderSteps, ledgerVars, historyVars, BranchInv, TypeOK
  <2>4. RequestInv' /\ ExecutorInv' /\ FailedIsSafe'
    BY <1>1, <2>3, MovePreserves
  <2> QED BY <2>2, <2>4 DEF BranchInv
<1> QED BY <1>3, <1>4

(* A thrown step, and an executor whose own failure report is lost.         *)
LEMMA ThrowPreserves ==
  ASSUME BranchInv, NEW o \in OpIds, StepThrows(o) \/ FailIsLost(o)
  PROVE  BranchInv'
<1>1. PICK s \in {"none", "pre_provider", "cleanup_required"} :
        /\ executor' \in [OpIds -> ExecutorType]
        /\ executor'[o].step = s
        /\ \A p \in OpIds : p # o => executor'[p] = executor[p]
  <2>1. \/ \E s \in {"pre_provider", "cleanup_required"} : Goto(o, s)
        \/ Stop(o)
    BY DEF StepThrows, FailIsLost, DispositionAt
  <2> QED BY <2>1, StopMoves, GotoMoves DEF BranchInv, TypeOK, ExecutorSteps, Dispositions
<1>2. /\ executor[o].step # "none"
      /\ UNCHANGED <<ledgerVars, handler, worker, reconciler, providerVars, historyVars,
                     accessVars>>
  BY DEF StepThrows, FailIsLost, Dispositions
<1>3. TypeOK'
  BY <1>1, <1>2 DEF BranchInv, TypeOK, ledgerVars, providerVars, historyVars, accessVars
<1>4. RequestInv' /\ ExecutorInv' /\ FailedIsSafe'
  <2>1. /\ executor'[o].step \notin ProviderSteps \cup {"previous_confirmed"}
        /\ witnessed \subseteq witnessed' /\ witnessed' \subseteq OpIds
        /\ UNCHANGED <<opStatus, request, intent, handler, worker, touched>>
    BY <1>1, <1>2 DEF ProviderSteps, ledgerVars, historyVars, BranchInv, TypeOK
  <2> QED BY <1>1, <1>2, <2>1, MovePreserves
<1> QED BY <1>3, <1>4 DEF BranchInv

(* Classification at startup judges by the recorded intent alone, so a row  *)
(* whose superseded executor may still act never becomes "failed".          *)
LEMMA AbandonedPreserves ==
  ASSUME BranchInv, NEW o \in OpIds, ClassifyAbandoned(o)
  PROVE  BranchInv'
<1>1. /\ worker' \in [phase : {"serving", "down", "classifying"},
                      boots : 0..MaxBoots, todo : SUBSET OpIds]
      /\ worker'.todo \subseteq worker.todo
  BY DEF ClassifyAbandoned, BranchInv, TypeOK
<1>2. /\ opStatus[o] # "absent"
      /\ UNCHANGED <<handler, executor, reconciler, providerVars, historyVars, accessVars>>
  BY DEF ClassifyAbandoned, BranchInv, RequestInv
<1>3. /\ \/ UNCHANGED opStatus
         \/ \E s \in {"failed", "cleanup_required"} :
              /\ opStatus' = [opStatus EXCEPT ![o] = s]
              /\ s = "failed" => o \notin intent
      /\ branch' \in [Branches -> BranchType]
      /\ UNCHANGED <<request, intent>>
  <2>1. CASE StillNonterminal(o)
    <3>1. BranchOf(o) \in Branches
      BY <1>2 DEF BranchInv, TypeOK, RequestInv, BranchOf, Requests
    <3>2. branch[BranchOf(o)].ip \in Ips \cup {NoIp}
      BY <3>1 DEF BranchInv, TypeOK, BranchType
    <3>3. ClassifyAs(o, AbandonedUncertain(o), branch[BranchOf(o)].ip)
      BY <2>1 DEF ClassifyAbandoned
    <3>4. /\ \E s \in {"failed", "cleanup_required"} :
               /\ opStatus' = [opStatus EXCEPT ![o] = s]
               /\ s = "failed" => ~AbandonedUncertain(o)
          /\ branch' \in [Branches -> BranchType]
          /\ UNCHANGED <<request, intent>>
      BY <3>2, <3>3, ClassifyEffect
    <3> QED BY <3>4 DEF AbandonedUncertain
  <2>2. CASE ~StillNonterminal(o)
    BY <2>2 DEF ClassifyAbandoned, ledgerVars, BranchInv, TypeOK
  <2> QED BY <2>1, <2>2
<1>4. TypeOK'
  BY <1>1, <1>2, <1>3 DEF BranchInv, TypeOK, Terminal, providerVars, historyVars, accessVars
<1>5. RequestInv'
  <2>1. \A p \in OpIds : opStatus'[p] = "absent" <=> opStatus[p] = "absent"
    BY <1>2, <1>3 DEF BranchInv, TypeOK
  <2>2. (\A h \in Handlers : handler[h].op \subseteq OpIds) /\ worker.todo \subseteq OpIds
    BY DEF BranchInv, TypeOK, HandlerType
  <2> QED BY <1>1, <1>2, <1>3, <2>1, <2>2 DEF BranchInv, RequestInv
<1>6. ExecutorInv'
  BY <1>2, <1>3 DEF BranchInv, TypeOK, ExecutorInv, historyVars
<1>7. FailedIsSafe'
  BY <1>2, <1>3 DEF BranchInv, TypeOK, ExecutorInv, FailedIsSafe, historyVars
<1> QED BY <1>4, <1>5, <1>6, <1>7 DEF BranchInv

(* Processes come and go without touching a row.                            *)
LEMMA WorkerPreserves ==
  ASSUME BranchInv, Boot \/ Serve \/ Crash \/ LoseAuthority
  PROVE  BranchInv'
<1>1. worker' \in [phase : {"serving", "down", "classifying"}, boots : 0..MaxBoots,
                   todo : SUBSET OpIds]
  <2>1. CASE Boot
    <3>1. worker.boots + 1 \in 0..MaxBoots /\ AbandonedOps \subseteq OpIds
      BY <2>1, BoundAssumption DEF Boot, BranchInv, TypeOK, AbandonedOps, NonterminalOps
    <3> QED BY <2>1, <3>1 DEF Boot
  <2>2. CASE Serve \/ Crash \/ LoseAuthority
    BY <2>2 DEF Serve, Crash, LoseAuthority, BranchInv, TypeOK
  <2> QED BY <2>1, <2>2
<1>2. \A o \in worker'.todo : opStatus[o] # "absent"
  <2>0. worker \in [phase : {"serving", "down", "classifying"}, boots : 0..MaxBoots,
                   todo : SUBSET OpIds]
    BY DEF BranchInv, TypeOK
  <2>1. worker'.todo \subseteq worker.todo \/ worker'.todo = AbandonedOps
    <3>1. CASE Boot
      BY <3>1 DEF Boot
    <3>2. CASE Serve \/ LoseAuthority
      BY <2>0, <3>2 DEF Serve, LoseAuthority
    <3>3. CASE Crash
      BY <2>0, <3>3 DEF Crash
    <3> QED BY <3>1, <3>2, <3>3
  <2> QED BY <2>1 DEF BranchInv, RequestInv, AbandonedOps, NonterminalOps, Nonterminal
<1>3. /\ handler' \in [Handlers -> HandlerType]
      /\ \A h \in Handlers :
           \/ handler'[h] = IdleHandler
           \/ /\ handler'[h].step = handler[h].step
              /\ handler'[h].request = handler[h].request
              /\ handler'[h].op = handler[h].op
  <2>1. CASE Boot \/ Serve
    BY <2>1 DEF Boot, Serve, BranchInv, TypeOK
  <2>2. CASE Crash
    <3>1. IdleHandler \in HandlerType
      BY DEF HandlerType, IdleHandler
    <3> QED BY <2>2, <3>1 DEF Crash
  <2>3. CASE LoseAuthority
    <3>1. \A h \in Handlers, b \in BOOLEAN :
            /\ [handler[h] EXCEPT !.stale = b] \in HandlerType
            /\ [handler[h] EXCEPT !.stale = b].step = handler[h].step
            /\ [handler[h] EXCEPT !.stale = b].request = handler[h].request
            /\ [handler[h] EXCEPT !.stale = b].op = handler[h].op
      BY DEF BranchInv, TypeOK, HandlerType
    <3> QED BY <2>3, <3>1 DEF LoseAuthority
  <2> QED BY <2>1, <2>2, <2>3
<1>4. /\ executor' \in [OpIds -> ExecutorType]
      /\ \A o \in OpIds : executor'[o] = executor[o] \/ executor'[o].step = "none"
  BY DEF Boot, Serve, Crash, LoseAuthority, BranchInv, TypeOK, ExecutorType, ExecutorSteps, Idle
<1>5. reconciler' \in [passes : 0..MaxPasses, candidates : SUBSET CandidateType,
                       observed : SUBSET ObservationType]
  BY DEF Boot, Serve, Crash, LoseAuthority, BranchInv, TypeOK
<1>6. UNCHANGED <<ledgerVars, providerVars, historyVars, accessVars>>
  BY DEF Boot, Serve, Crash, LoseAuthority
<1>7. TypeOK'
  BY <1>1, <1>3, <1>4, <1>5, <1>6 DEF BranchInv, TypeOK, ledgerVars, providerVars, historyVars,
     accessVars
<1>8. RequestInv'
  BY <1>2, <1>3, <1>4, <1>6 DEF BranchInv, RequestInv, IdleHandler, ledgerVars
<1>9. ExecutorInv' /\ FailedIsSafe'
  BY <1>4, <1>6 DEF BranchInv, ExecutorInv, FailedIsSafe, ProviderSteps, ledgerVars, historyVars
<1> QED BY <1>7, <1>8, <1>9 DEF BranchInv

(* Neither does the provider.                                               *)
LEMMA ProviderPreserves ==
  ASSUME BranchInv,
         \/ \E o \in OpIds : Land(o) \/ Refuse(o)
         \/ \E b \in Branches : GuestStops(b)
  PROVE  BranchInv'
<1>1. runtime' \in [Branches -> RuntimeType] /\ pending' \subseteq OpIds
  <2>1. \A ip \in Ips : [state |-> "running", ip |-> ip] \in RuntimeType
    BY DEF RuntimeType
  <2>2. [state |-> "stopped", ip |-> NoIp] \in RuntimeType
    BY DEF RuntimeType
  <2>3. runtime \in [Branches -> RuntimeType] /\ pending \subseteq OpIds
    BY DEF BranchInv, TypeOK
  <2> QED BY <2>1, <2>2, <2>3 DEF Land, Refuse, GuestStops
<1>2. UNCHANGED <<ledgerVars, processVars, historyVars, accessVars>>
  BY DEF Land, Refuse, GuestStops
<1>3. TypeOK'
  BY <1>1, <1>2 DEF BranchInv, TypeOK, ledgerVars, processVars, historyVars, accessVars
<1>4. RequestInv' /\ ExecutorInv' /\ FailedIsSafe'
  BY <1>2 DEF BranchInv, RequestInv, ExecutorInv, FailedIsSafe, ledgerVars, processVars,
              historyVars
<1> QED BY <1>3, <1>4 DEF BranchInv

(* The reconciler writes branch rows, never operation rows.                 *)
LEMMA ReconcilerPreserves ==
  ASSUME BranchInv,
         \/ BeginPass
         \/ \E c \in reconciler.candidates : ObserveCandidate(c)
         \/ \E x \in reconciler.observed : RecordObservation(x)
  PROVE  BranchInv'
<1>1. UNCHANGED <<opStatus, request, intent, handler, executor, worker, providerVars,
                  historyVars, accessVars>>
  BY DEF BeginPass, ObserveCandidate, RecordObservation, ledgerVars
<1>2. /\ reconciler' \in [passes : 0..MaxPasses, candidates : SUBSET CandidateType,
                          observed : SUBSET ObservationType]
      /\ branch' \in [Branches -> BranchType]
  <2>1. CASE BeginPass
    <3>1. Candidates \subseteq CandidateType
      BY DEF Candidates, CandidateType, BranchInv, TypeOK, BranchType
    <3>2. reconciler.passes + 1 \in 0..MaxPasses
      BY <2>1, BoundAssumption DEF BeginPass, BranchInv, TypeOK
    <3> QED BY <2>1, <3>1, <3>2 DEF BeginPass, ledgerVars, BranchInv, TypeOK
  <2>2. ASSUME NEW c \in reconciler.candidates, ObserveCandidate(c)
        PROVE  <1>2!:
    <3>0. c \in CandidateType
      BY DEF BranchInv, TypeOK
    <3>1. c \in CandidateType /\ runtime[c.branch] \in RuntimeType
      BY <3>0 DEF BranchInv, TypeOK, CandidateType
    <3>2. \A k \in {"state", "unknown", "unavailable"} :
            [candidate |-> c, kind |-> k, runtime |-> runtime[c.branch]] \in ObservationType
      BY <3>1 DEF ObservationType
    <3>3. reconciler' \in [passes : 0..MaxPasses, candidates : SUBSET CandidateType,
                           observed : SUBSET ObservationType]
      <4>1. reconciler \in [passes : 0..MaxPasses, candidates : SUBSET CandidateType,
                            observed : SUBSET ObservationType]
        BY DEF BranchInv, TypeOK
      <4>2. PICK k \in {"state", "unknown", "unavailable"} :
              reconciler' = [reconciler EXCEPT
                !.candidates = @ \ {c},
                !.observed = {[candidate |-> c, kind |-> k, runtime |-> runtime[c.branch]]}]
        BY <2>2 DEF ObserveCandidate
      <4> QED BY <3>2, <4>1, <4>2
    <3>4. UNCHANGED branch
      BY <2>2 DEF ObserveCandidate, ledgerVars
    <3> QED BY <3>3, <3>4 DEF BranchInv, TypeOK
  <2>3. ASSUME NEW x \in reconciler.observed, RecordObservation(x)
        PROVE  <1>2!:
    <3>1. x.runtime.ip \in Ips \cup {NoIp}
      BY DEF BranchInv, TypeOK, ObservationType, RuntimeType
    <3>2. \A t \in {"online", "offline", "error"} :
            [status |-> t, ip |-> IF t = "online" THEN x.runtime.ip ELSE NoIp] \in BranchType
      BY <3>1 DEF BranchType, BranchStatuses
    <3>3. reconciler' = [reconciler EXCEPT !.observed = {}]
      BY <2>3 DEF RecordObservation
    <3>4. branch' \in [Branches -> BranchType]
      BY <2>3, <3>2 DEF RecordObservation, BranchInv, TypeOK
    <3> QED BY <3>3, <3>4 DEF BranchInv, TypeOK
  <2> QED BY <2>1, <2>2, <2>3
<1>3. TypeOK'
  BY <1>1, <1>2 DEF BranchInv, TypeOK, providerVars, historyVars, accessVars
<1>4. RequestInv' /\ ExecutorInv' /\ FailedIsSafe'
  BY <1>1 DEF BranchInv, RequestInv, ExecutorInv, FailedIsSafe, historyVars
<1> QED BY <1>3, <1>4 DEF BranchInv

-----------------------------------------------------------------------------
LEMMA NextPreserves == BranchInv /\ [Next]_vars => BranchInv'
<1> SUFFICES ASSUME BranchInv, [Next]_vars PROVE BranchInv'
  OBVIOUS
<1>1. ASSUME NEW h \in Handlers, (\E r \in Requests : Submit(h, r)) \/ HandlerStep(h)
      PROVE  BranchInv'
  BY <1>1, SubmitPreserves, LookupPreserves, AcceptPreserves, SchedulePreserves
     DEF HandlerStep
<1>2. ASSUME NEW o \in OpIds, ExecutorStep(o)
      PROVE  BranchInv'
  <2>1. CASE Claim(o) \/ RevokeSsh(o) \/ WithdrawPreviews(o) \/ RecordIntent(o)
    BY <2>1, ClaimPreserves, WithdrawalPreserves, IntentPreserves
  <2>2. CASE CallProvider(o) \/ ObserveRuntime(o)
    BY <2>2, CallPreserves, ObservePreserves
  <2>3. CASE ConfirmOnline(o) \/ EnableSsh(o) \/ ResumePreviews(o)
    BY <2>3, ConfirmPreserves
  <2>4. CASE Complete(o) \/ Fail(o)
    BY <2>4, CompletePreserves, FailPreserves
  <2> QED BY <1>2, <2>1, <2>2, <2>3, <2>4 DEF ExecutorStep
<1>3. ASSUME NEW o \in OpIds, StepThrows(o) \/ FailIsLost(o) \/ ClassifyAbandoned(o)
      PROVE  BranchInv'
  BY <1>3, ThrowPreserves, AbandonedPreserves
<1>4. CASE Boot \/ Serve \/ Crash \/ LoseAuthority
  BY <1>4, WorkerPreserves
<1>5. CASE \/ \E o \in OpIds : Land(o) \/ Refuse(o)
           \/ \E b \in Branches : GuestStops(b)
  BY <1>5, ProviderPreserves
<1>6. CASE \/ BeginPass
           \/ \E c \in reconciler.candidates : ObserveCandidate(c)
           \/ \E x \in reconciler.observed : RecordObservation(x)
  BY <1>6, ReconcilerPreserves
<1>7. CASE UNCHANGED vars
  BY <1>7 DEF vars, ledgerVars, processVars, providerVars, historyVars, accessVars,
              BranchInv, TypeOK, RequestInv, ExecutorInv, FailedIsSafe
<1> QED BY <1>1, <1>2, <1>3, <1>4, <1>5, <1>6, <1>7 DEF Next

(* Every reachable state satisfies the inductive invariant.                 *)
THEOREM BranchInvariant == Spec => []BranchInv
BY InitBranchInv, NextPreserves, PTL DEF Spec

(* Every variable keeps its type: a branch row never holds a status the     *)
(* database check constraint refuses, whatever interleaving wrote it.       *)
THEOREM BranchTypeCorrect == Spec => []TypeOK
<1>1. BranchInv => TypeOK
  BY DEF BranchInv
<1> QED BY <1>1, BranchInvariant, PTL

(* An operation reported "failed" never touched the provider unseen, with   *)
(* any number of overlapping Workers, crashes and late provider calls.      *)
THEOREM BranchFailedIsSafe == Spec => []FailedIsSafe
<1>1. BranchInv => FailedIsSafe
  BY DEF BranchInv
<1> QED BY <1>1, BranchInvariant, PTL

-----------------------------------------------------------------------------
(* What the rows say together.  A key names one operation and a capsule has   *)
(* one owner, which the two unique indexes give; with one owner per capsule,  *)
(* a branch status in transition and its operation agree.                    *)
OneOperationPerKey ==
  \A o, p \in OpIds :
    /\ opStatus[o] # "absent" /\ opStatus[p] # "absent"
    /\ request[o].key = request[p].key
    => o = p
OneOwner == \A o, p \in NonterminalOps : CapsuleOfOp(o) = CapsuleOfOp(p) => o = p
RowInv == OneOperationPerKey /\ OneOwner /\ OwnershipIsMutual

(* The moves of the rows: every step makes one of them, for one operation or *)
(* one branch.                                                              *)
Marks == <<intent, touched, witnessed>>
Moving == {"starting", "stopping"}
Resting == {k \in BranchType : k.status \notin Moving}

Stays == UNCHANGED <<ledgerVars, touched, witnessed>>
Accepts(o, r) ==
  /\ Insert(o, r) /\ Eligible(r) /\ CapsuleFree(r.branch) /\ KeyFree(r.key)
  /\ UNCHANGED Marks
Claims(o) ==
  /\ opStatus[o] = "accepted"
  /\ opStatus' = [opStatus EXCEPT ![o] = "running"]
  /\ UNCHANGED <<request, branch, Marks>>
Intends(o) ==
  /\ opStatus[o] = "running" /\ branch[BranchOf(o)].status \in Moving
  /\ o \notin intent /\ intent' = intent \cup {o}
  /\ UNCHANGED <<opStatus, request, branch, touched, witnessed>>
Touches(o) ==
  /\ o \in intent /\ opStatus[o] \in {"running", "cleanup_required"}
  /\ touched' = touched \cup {o}
  /\ UNCHANGED <<ledgerVars, witnessed>>
Witnesses(o) ==
  /\ o \in touched /\ opStatus[o] \in {"running", "cleanup_required"}
  /\ witnessed' = witnessed \cup {o}
  /\ UNCHANGED <<ledgerVars, touched>>
Confirms(o) ==
  /\ opStatus[o] = "running" /\ TypeOf(o) = "branch_start"
  /\ \E k \in BranchType : k.status = "online" /\ branch' = [branch EXCEPT ![BranchOf(o)] = k]
  /\ UNCHANGED <<opStatus, request, Marks>>
Ends(o, s) ==
  /\ opStatus[o] \in Nonterminal /\ opStatus' = [opStatus EXCEPT ![o] = s]
  /\ s = "completed" => opStatus[o] = "running"
  /\ s = "failed" => (o \in touched => o \in witnessed)
  /\ \/ s = "completed" /\ branch[BranchOf(o)].status = "online" /\ UNCHANGED branch
     \/ \E k \in Resting :
          /\ s = "cleanup_required" => k.status = "cleanup_required"
          /\ branch' = [branch EXCEPT ![BranchOf(o)] = k]
  /\ UNCHANGED <<request, Marks>>
Observes(b) ==
  /\ CapsuleFree(b) /\ branch[b].status # "cleanup_required"
  /\ \E k \in Resting : branch' = [branch EXCEPT ![b] = k]
  /\ UNCHANGED <<opStatus, request, Marks>>

Move(o) ==
  \/ \E r \in Requests : Accepts(o, r)
  \/ Claims(o) \/ Intends(o) \/ Touches(o) \/ Witnesses(o) \/ Confirms(o)
  \/ \E s \in Terminal : Ends(o, s)
RowsMove == Stays \/ (\E o \in OpIds : Move(o)) \/ (\E b \in Branches : Observes(b))

(* The reconciler never lists a branch that waits for an operator.           *)
CandidatesInv ==
  /\ \A c \in reconciler.candidates : c.expected # "cleanup_required"
  /\ \A x \in reconciler.observed : x.candidate.expected # "cleanup_required"

LEMMA CandidatesStep == ASSUME BranchInv, CandidatesInv, [Next]_vars PROVE CandidatesInv'
<1> USE DEF CandidatesInv
<1>1. CASE BeginPass
  BY <1>1 DEF BeginPass, Candidates
<1>2. ASSUME NEW c \in reconciler.candidates, ObserveCandidate(c)
      PROVE  CandidatesInv'
  BY <1>2 DEF ObserveCandidate, BranchInv, TypeOK
<1>3. ASSUME NEW x \in reconciler.observed, RecordObservation(x)
      PROVE  CandidatesInv'
  BY <1>3 DEF RecordObservation, BranchInv, TypeOK
<1>4. CASE Crash
  BY <1>4 DEF Crash, BranchInv, TypeOK
<1>5. CASE UNCHANGED reconciler
  BY <1>5
<1>6. CASE Boot \/ Serve \/ LoseAuthority
  BY <1>5, <1>6 DEF Boot, Serve, LoseAuthority
<1>7. ASSUME NEW h \in Handlers, (\E r \in Requests : Submit(h, r)) \/ HandlerStep(h)
      PROVE  CandidatesInv'
  BY <1>5, <1>7 DEF HandlerStep, Submit, LookupReplay, AcceptTransaction, Schedule
<1>8. ASSUME NEW o \in OpIds, ExecutorStep(o) \/ StepThrows(o) \/ FailIsLost(o) \/ ClassifyAbandoned(o)
      PROVE  CandidatesInv'
  BY <1>5, <1>8 DEF ExecutorStep, Claim, RevokeSsh, WithdrawPreviews, RecordIntent, CallProvider,
     ObserveRuntime, ConfirmOnline, EnableSsh, ResumePreviews, Complete, Fail, StepThrows,
     FailIsLost, ClassifyAbandoned
<1>9. CASE (\E o \in OpIds : Land(o) \/ Refuse(o)) \/ (\E b \in Branches : GuestStops(b)) \/ UNCHANGED vars
  BY <1>5, <1>9 DEF Land, Refuse, GuestStops, processVars, vars
<1> QED BY <1>1, <1>2, <1>3, <1>4, <1>6, <1>7, <1>8, <1>9 DEF Next

(* The branch of an accepted operation.                                     *)
LEMMA HasRequest ==
  ASSUME BranchInv, NEW o \in OpIds, opStatus[o] # "absent"
  PROVE  request[o] \in Requests /\ BranchOf(o) \in Branches /\ TypeOf(o) \in Types
BY DEF BranchInv, TypeOK, RequestInv, BranchOf, TypeOf, Requests

(* Classification ends an operation and leaves its branch at rest.          *)
LEMMA ClassifyEnds ==
  ASSUME BranchInv, RowInv, NEW o \in OpIds, opStatus[o] \in Nonterminal,
         NEW uncertain, NEW ip \in Ips \cup {NoIp}, ClassifyAs(o, uncertain, ip),
         ~uncertain => (o \in touched => o \in witnessed),
         UNCHANGED <<touched, witnessed>>
  PROVE  \E s \in {"failed", "cleanup_required"} : Ends(o, s) /\ opStatus' = [opStatus EXCEPT ![o] = s] /\ (s = "failed" => ~uncertain)
<1>1. BranchOf(o) \in Branches /\ TypeOf(o) \in Types
  BY HasRequest DEF Nonterminal
<1>2. branch[BranchOf(o)].status \in OwnedStatuses(TypeOf(o))
  BY DEF RowInv, OwnershipIsMutual, NonterminalOps
<1> DEFINE b == BranchOf(o)
           cleanup == \/ uncertain
                      \/ branch[b].status # AcceptedStatus(TypeOf(o))
                      \/ branch[b].status = "starting" /\ branch[b].ip # NoIp
           status == IF cleanup THEN "cleanup_required" ELSE Initial(TypeOf(o))
           k == [status |-> status, ip |-> IF status = "online" THEN ip ELSE NoIp]
           s == IF cleanup THEN "cleanup_required" ELSE "failed"
<1>3. k \in Resting /\ (s = "cleanup_required" => k.status = "cleanup_required")
  BY DEF Resting, BranchType, BranchStatuses, Initial, Moving
<1>4. opStatus' = [opStatus EXCEPT ![o] = s] /\ branch' = [branch EXCEPT ![b] = k] /\ UNCHANGED <<request, intent>>
  BY <1>2 DEF ClassifyAs
<1>5. s \in {"failed", "cleanup_required"} /\ (s = "failed" => ~uncertain)
  OBVIOUS
<1> HIDE DEF k, s, b
<1>6. Ends(o, s)
  BY <1>3, <1>4, <1>5 DEF Ends, Marks, b
<1> QED BY <1>4, <1>5, <1>6

LEMMA HandlerMoves ==
  ASSUME BranchInv, NEW h \in Handlers, (\E r \in Requests : Submit(h, r)) \/ HandlerStep(h)
  PROVE  RowsMove
<1>1. CASE \E r \in Requests : Submit(h, r)
  BY <1>1 DEF Submit, RowsMove, Stays, historyVars
<1>2. CASE LookupReplay(h) \/ Schedule(h)
  BY <1>2 DEF LookupReplay, Schedule, RowsMove, Stays
<1>3. CASE AcceptTransaction(h)
  <2>1. UNCHANGED <<touched, witnessed>>
    BY <1>3 DEF AcceptTransaction
  <2>2. handler[h].request \in Requests
    BY <1>3 DEF AcceptTransaction, BranchInv, RequestInv
  <2>3. ASSUME NEW o \in OpIds, Insert(o, handler[h].request), Eligible(handler[h].request),
               CapsuleFree(handler[h].request.branch), KeyFree(handler[h].request.key)
        PROVE  Accepts(o, handler[h].request)
    BY <2>1, <2>3 DEF Accepts, Marks, Insert
  <2>4. UNCHANGED ledgerVars => Stays
    BY <2>1 DEF Stays
  <2> QED BY <1>3, <2>2, <2>3, <2>4 DEF AcceptTransaction, RowsMove, Move
<1> QED BY <1>1, <1>2, <1>3 DEF HandlerStep

LEMMA ExecutorMoves ==
  ASSUME BranchInv, RowInv, NEW o \in OpIds, ExecutorStep(o)
  PROVE  RowsMove
<1>0. executor[o].step # "none"
  BY DEF ExecutorStep, Claim, RevokeSsh, WithdrawPreviews, RecordIntent, CallProvider,
     ObserveRuntime, ConfirmOnline, EnableSsh, ResumePreviews, Complete, Fail, At, Dispositions
<1>a. opStatus[o] # "absent"
  BY <1>0 DEF BranchInv, RequestInv
<1>b. BranchOf(o) \in Branches /\ TypeOf(o) \in Types
  BY <1>a, HasRequest
<1> USE DEF RowsMove, Move, Marks, ledgerVars, historyVars
<1>1. CASE Claim(o)
  BY <1>1 DEF Claim, Ready, Claims, Stays
<1>2. CASE RevokeSsh(o) \/ WithdrawPreviews(o) \/ EnableSsh(o) \/ ResumePreviews(o)
  BY <1>2 DEF RevokeSsh, WithdrawPreviews, EnableSsh, ResumePreviews, Stays
<1>3. CASE RecordIntent(o)
  <2>1. CASE Ready(o, "running", FALSE, AcceptedStatus(TypeOf(o))) /\ GateOpen(o)
    BY <1>3, <2>1 DEF RecordIntent, Ready, Intends, AcceptedStatus, Moving
  <2>2. CASE ~(Ready(o, "running", FALSE, AcceptedStatus(TypeOf(o))) /\ GateOpen(o))
    BY <1>3, <2>2 DEF RecordIntent, Stays
  <2> QED BY <2>1, <2>2
<1>4. CASE CallProvider(o)
  BY <1>4 DEF CallProvider, Touches, BranchInv, ExecutorInv, ProviderSteps, At
<1>5. CASE ObserveRuntime(o)
  <2>1. o \in touched /\ opStatus[o] \in {"running", "cleanup_required"}
    BY <1>5 DEF ObserveRuntime, BranchInv, ExecutorInv, ProviderSteps, At
  <2>2. UNCHANGED ledgerVars /\ UNCHANGED touched /\ witnessed' \in {witnessed, witnessed \cup {o}}
    BY <1>5 DEF ObserveRuntime
  <2> QED BY <2>1, <2>2 DEF Witnesses, Stays
<1>6. CASE ConfirmOnline(o)
  <2>1. CASE Ready(o, "running", TRUE, "starting")
    <3>1. TypeOf(o) = "branch_start"
      BY <1>b, <2>1 DEF Ready, RowInv, OwnershipIsMutual, NonterminalOps, Nonterminal, OwnedStatuses, Types
    <3>2. [status |-> "online", ip |-> executor[o].ip] \in BranchType
      BY DEF BranchInv, TypeOK, ExecutorType, BranchType, BranchStatuses
    <3>3. branch' = [branch EXCEPT ![BranchOf(o)] = [status |-> "online", ip |-> executor[o].ip]]
      BY <1>6, <2>1 DEF ConfirmOnline
    <3> QED BY <1>6, <2>1, <3>1, <3>2, <3>3 DEF ConfirmOnline, Ready, Confirms
  <2>2. CASE ~Ready(o, "running", TRUE, "starting")
    BY <1>6, <2>2 DEF ConfirmOnline, Stays
  <2> QED BY <2>1, <2>2
<1>7. CASE Complete(o)
  <2> DEFINE at == IF TypeOf(o) = "branch_stop" THEN "stopping" ELSE "online"
  <2>1. CASE Ready(o, "running", TRUE, at)
    <3>1. [status |-> "offline", ip |-> NoIp] \in Resting
      BY DEF Resting, BranchType, BranchStatuses, Moving
    <3>2. Ends(o, "completed")
      <4>1. CASE TypeOf(o) = "branch_stop"
        BY <1>7, <2>1, <3>1, <4>1 DEF Complete, Ready, Ends, Nonterminal
      <4>2. CASE TypeOf(o) # "branch_stop"
        BY <1>7, <2>1, <4>2 DEF Complete, Ready, Ends, Nonterminal
      <4> QED BY <4>1, <4>2
    <3> QED BY <3>2 DEF Terminal
  <2>2. CASE ~Ready(o, "running", TRUE, at)
    BY <1>7, <2>2 DEF Complete, Stays
  <2> QED BY <2>1, <2>2
<1>8. CASE Fail(o)
  <2>1. CASE opStatus[o] \in Nonterminal
    <3>1. PICK ip \in Ips \cup {NoIp} : ClassifyAs(o, LiveUncertain(o, executor[o].step), ip)
      <4>1. executor[o].ip \in Ips \cup {NoIp} /\ branch[BranchOf(o)].ip \in Ips \cup {NoIp}
        BY <1>b DEF BranchInv, TypeOK, ExecutorType, BranchType
      <4> QED BY <1>8, <2>1, <4>1 DEF Fail
    <3>3. ~LiveUncertain(o, executor[o].step) => (o \in touched => o \in witnessed)
      BY <1>8 DEF Fail, LiveUncertain, Dispositions, BranchInv, ExecutorInv
    <3>4. UNCHANGED <<touched, witnessed>>
      BY <1>8 DEF Fail
    <3> QED BY <2>1, <3>1, <3>3, <3>4, ClassifyEnds DEF Terminal
  <2>2. CASE opStatus[o] \notin Nonterminal
    BY <1>8, <2>2 DEF Fail, Stays
  <2> QED BY <2>1, <2>2
<1> QED BY <1>1, <1>2, <1>3, <1>4, <1>5, <1>6, <1>7, <1>8 DEF ExecutorStep

LEMMA AbandonedMoves ==
  ASSUME BranchInv, RowInv, NEW o \in OpIds, ClassifyAbandoned(o)
  PROVE  RowsMove
<1>1. CASE StillNonterminal(o)
  <2>1. opStatus[o] \in Nonterminal /\ BranchOf(o) \in Branches
    BY <1>1, HasRequest DEF StillNonterminal, Nonterminal
  <2>2. branch[BranchOf(o)].ip \in Ips \cup {NoIp}
    BY <2>1 DEF BranchInv, TypeOK, BranchType
  <2>3. ClassifyAs(o, AbandonedUncertain(o), branch[BranchOf(o)].ip) /\ UNCHANGED <<touched, witnessed>>
    BY <1>1 DEF ClassifyAbandoned, historyVars
  <2>4. ~AbandonedUncertain(o) => (o \in touched => o \in witnessed)
    BY DEF AbandonedUncertain, BranchInv, ExecutorInv
  <2> QED BY <2>1, <2>2, <2>3, <2>4, ClassifyEnds DEF RowsMove, Move, Terminal
<1>2. CASE ~StillNonterminal(o)
  BY <1>2 DEF ClassifyAbandoned, RowsMove, Stays, historyVars
<1> QED BY <1>1, <1>2

LEMMA ObservationMoves ==
  ASSUME BranchInv, CandidatesInv, NEW x \in reconciler.observed, RecordObservation(x)
  PROVE  RowsMove
<1> DEFINE b == x.candidate.branch
           expected == x.candidate.expected
           confirmed == IF x.runtime.state = "running" THEN "online" ELSE "offline"
           target == IF x.kind = "state" THEN confirmed ELSE "error"
           keep == x.kind = "unavailable" /\ expected \in {"online", "offline"}
           k == [status |-> target, ip |-> IF target = "online" THEN x.runtime.ip ELSE NoIp]
<1>1. UNCHANGED <<opStatus, request, intent, touched, witnessed>>
  BY DEF RecordObservation, historyVars
<1>2. CASE ~keep /\ RecordFence(b, expected, target)
  <2>1. x.candidate \in CandidateType /\ x.runtime \in RuntimeType
    BY DEF BranchInv, TypeOK, ObservationType
  <2>2. b \in Branches /\ x.runtime.ip \in Ips \cup {NoIp}
    BY <2>1 DEF CandidateType, RuntimeType
  <2>3. k \in Resting
    BY <2>2 DEF Resting, BranchType, BranchStatuses, Moving
  <2>4. branch[b].status # "cleanup_required" /\ CapsuleFree(b)
    BY <1>2 DEF RecordFence, CandidatesInv
  <2>5. branch' = [branch EXCEPT ![b] = k]
    BY <1>2 DEF RecordObservation
  <2> HIDE DEF b, k
  <2> QED BY <1>1, <2>2, <2>3, <2>4, <2>5 DEF RowsMove, Observes, Marks
<1>3. CASE ~(~keep /\ RecordFence(b, expected, target))
  BY <1>1, <1>3 DEF RecordObservation, RowsMove, Stays, ledgerVars
<1> QED BY <1>2, <1>3

(* Every step of the system is a move of the rows.                          *)
LEMMA StepMoves == ASSUME BranchInv, RowInv, CandidatesInv, [Next]_vars PROVE RowsMove
<1>1. CASE \E h \in Handlers : (\E r \in Requests : Submit(h, r)) \/ HandlerStep(h)
  BY <1>1, HandlerMoves
<1>2. CASE \E o \in OpIds : ExecutorStep(o) \/ ClassifyAbandoned(o)
  BY <1>2, ExecutorMoves, AbandonedMoves
<1>3. CASE \E x \in reconciler.observed : RecordObservation(x)
  BY <1>3, ObservationMoves
<1>4. CASE \/ \E o \in OpIds : StepThrows(o) \/ FailIsLost(o) \/ Land(o) \/ Refuse(o)
           \/ Boot \/ Serve \/ Crash \/ LoseAuthority
           \/ \E b \in Branches : GuestStops(b)
           \/ BeginPass
           \/ \E c \in reconciler.candidates : ObserveCandidate(c)
           \/ UNCHANGED vars
  BY <1>4 DEF StepThrows, FailIsLost, Land, Refuse, Boot, Serve, Crash, LoseAuthority, GuestStops,
     BeginPass, ObserveCandidate, vars, historyVars, RowsMove, Stays
<1> QED BY <1>1, <1>2, <1>3, <1>4 DEF Next

-----------------------------------------------------------------------------
(* What the moves keep.                                                     *)

(* A row that exists keeps its request, and a terminal one its status.        *)
LEMMA RowsKeep ==
  ASSUME BranchInv, RowsMove, NEW o \in OpIds, opStatus[o] # "absent"
  PROVE  /\ opStatus'[o] # "absent" /\ request'[o] = request[o]
         /\ opStatus'[o] \in Nonterminal => opStatus[o] \in Nonterminal
         /\ opStatus[o] \in Terminal => opStatus'[o] = opStatus[o]
BY DEF RowsMove, Move, Stays, Accepts, Insert, Claims, Intends, Touches, Witnesses, Confirms, Ends,
   Observes, Marks, ledgerVars, BranchInv, TypeOK, Nonterminal, Terminal

(* A row that comes into being does so by acceptance, and others stay absent. *)
LEMMA RowsAppear ==
  ASSUME BranchInv, RowsMove, NEW o \in OpIds, opStatus[o] = "absent", opStatus'[o] # "absent"
  PROVE  \E r \in Requests : Accepts(o, r)
BY DEF RowsMove, Move, Stays, Accepts, Insert, Claims, Intends, Touches, Witnesses, Confirms, Ends,
   Observes, Marks, ledgerVars, BranchInv, TypeOK, Nonterminal, Terminal

LEMMA AcceptedRow ==
  ASSUME BranchInv, NEW o \in OpIds, NEW r \in Requests, Accepts(o, r)
  PROVE  /\ opStatus[o] = "absent" /\ opStatus'[o] = "accepted" /\ request'[o] = r
         /\ \A p \in OpIds : p # o => opStatus'[p] = opStatus[p] /\ request'[p] = request[p]
BY DEF Accepts, Insert, BranchInv, TypeOK

LEMMA IndexesKeep ==
  ASSUME BranchInv, RowInv, RowsMove
  PROVE  (OneOperationPerKey /\ OneOwner)'
<1>1. CASE \E o \in OpIds, r \in Requests : Accepts(o, r)
  <2>1. PICK o \in OpIds, r \in Requests : Accepts(o, r)
    BY <1>1
  <2>2. /\ opStatus[o] = "absent" /\ opStatus'[o] = "accepted" /\ request'[o] = r
        /\ \A p \in OpIds : p # o => opStatus'[p] = opStatus[p] /\ request'[p] = request[p]
    BY <2>1, AcceptedRow
  <2>3. \A p \in OpIds : opStatus[p] # "absent" => request[p].key # r.key
    BY <2>1 DEF Accepts, KeyFree, WithKey
  <2>4. \A p \in NonterminalOps : CapsuleOfOp(p) # CapsuleOf[r.branch]
    BY <2>1 DEF Accepts, CapsuleFree, OwnerOf
  <2>5. OneOperationPerKey'
    BY <2>2, <2>3 DEF RowInv, OneOperationPerKey
  <2>6. OneOwner'
    BY <2>2, <2>4 DEF RowInv, OneOwner, NonterminalOps, CapsuleOfOp, BranchOf
  <2> QED BY <2>5, <2>6
<1>2. CASE ~\E o \in OpIds, r \in Requests : Accepts(o, r)
  <2>1. \A o \in OpIds : opStatus'[o] # "absent" => opStatus[o] # "absent" /\ request'[o] = request[o]
    BY <1>2, RowsAppear, RowsKeep
  <2>2. \A o \in OpIds : opStatus'[o] \in Nonterminal => opStatus[o] \in Nonterminal /\ request'[o] = request[o]
    BY <2>1, RowsKeep DEF Nonterminal
  <2>3. OneOperationPerKey'
    BY <2>1 DEF RowInv, OneOperationPerKey
  <2>4. OneOwner'
    BY <2>2 DEF RowInv, OneOwner, NonterminalOps, CapsuleOfOp, BranchOf
  <2> QED BY <2>3, <2>4
<1> QED BY <1>1, <1>2

(* Of two unfinished operations on one branch, each is the other.           *)
LEMMA BranchHasOneOwner ==
  ASSUME RowInv, NEW o \in NonterminalOps, NEW p \in NonterminalOps, BranchOf(o) = BranchOf(p)
  PROVE  o = p
BY DEF RowInv, OneOwner, CapsuleOfOp

LEMMA OwnershipKeeps ==
  ASSUME BranchInv, RowInv, RowsMove
  PROVE  OwnershipIsMutual'
<1> DEFINE Owned(b) ==
             \E o \in NonterminalOps : BranchOf(o) = b /\ branch[b].status = AcceptedStatus(TypeOf(o))
<1>0. /\ \A b \in Branches : branch[b].status \in Moving => Owned(b)
      /\ \A o \in NonterminalOps : branch[BranchOf(o)].status \in OwnedStatuses(TypeOf(o))
  BY DEF RowInv, OwnershipIsMutual, Moving
<1>a. \A o \in NonterminalOps : BranchOf(o) \in Branches /\ TypeOf(o) \in Types
  BY HasRequest DEF NonterminalOps, Nonterminal
<1> USE DEF OwnershipIsMutual, Moving, NonterminalOps, Nonterminal, BranchOf, TypeOf
<1>1. CASE Stays
  BY <1>0, <1>1 DEF Stays, ledgerVars
<1>2. ASSUME NEW o \in OpIds, NEW r \in Requests, Accepts(o, r)
      PROVE  OwnershipIsMutual'
  <2>1. /\ opStatus[o] = "absent" /\ opStatus'[o] = "accepted" /\ request'[o] = r
        /\ \A p \in OpIds : p # o => opStatus'[p] = opStatus[p] /\ request'[p] = request[p]
    BY <1>2, AcceptedRow
  <2>2. /\ r.branch \in Branches /\ r.type \in Types
        /\ branch'[r.branch].status = AcceptedStatus(r.type)
        /\ \A b \in Branches : b # r.branch => branch'[b] = branch[b]
    BY <1>2 DEF Accepts, Insert, Requests, BranchInv, TypeOK
  <2>3. \A p \in NonterminalOps : BranchOf(p) # r.branch
    BY <1>2 DEF Accepts, CapsuleFree, OwnerOf, CapsuleOfOp
  <2>4. AcceptedStatus(r.type) \in OwnedStatuses(r.type)
    BY DEF AcceptedStatus, OwnedStatuses
  <2> QED BY <1>0, <1>a, <2>1, <2>2, <2>3, <2>4
<1>3. ASSUME NEW o \in OpIds, Claims(o) \/ Intends(o) \/ Touches(o) \/ Witnesses(o)
      PROVE  OwnershipIsMutual'
  <2>1. /\ branch' = branch /\ request' = request
        /\ \A p \in OpIds : opStatus'[p] \in Nonterminal <=> opStatus[p] \in Nonterminal
    BY <1>3 DEF Claims, Intends, Touches, Witnesses, Marks, ledgerVars, BranchInv, TypeOK
  <2> QED BY <1>0, <2>1
<1>4. ASSUME NEW o \in OpIds, Confirms(o)
      PROVE  OwnershipIsMutual'
  <2>1. /\ o \in NonterminalOps /\ TypeOf(o) = "branch_start" /\ UNCHANGED <<opStatus, request>>
        /\ branch'[BranchOf(o)].status = "online"
        /\ \A b \in Branches : b # BranchOf(o) => branch'[b] = branch[b]
    BY <1>4, <1>a DEF Confirms, BranchInv, TypeOK
  <2>2. \A p \in NonterminalOps : BranchOf(p) = BranchOf(o) => p = o
    BY <2>1, BranchHasOneOwner
  <2>3. "online" \in OwnedStatuses(TypeOf(o))
    BY <2>1 DEF OwnedStatuses
  <2> QED BY <1>0, <1>a, <2>1, <2>2, <2>3
<1>5. ASSUME NEW o \in OpIds, NEW s \in Terminal, Ends(o, s)
      PROVE  OwnershipIsMutual'
  <2>1. /\ o \in NonterminalOps /\ request' = request /\ opStatus'[o] = s
        /\ \A p \in OpIds : p # o => opStatus'[p] = opStatus[p]
    BY <1>5 DEF Ends, BranchInv, TypeOK
  <2>2. /\ branch'[BranchOf(o)].status \notin Moving
        /\ \A b \in Branches : b # BranchOf(o) => branch'[b] = branch[b]
    BY <1>5, <1>a, <2>1 DEF Ends, Resting, BranchInv, TypeOK
  <2>3. \A p \in NonterminalOps : BranchOf(p) = BranchOf(o) => p = o
    BY <2>1, BranchHasOneOwner
  <2>4. s \notin Nonterminal
    BY DEF Terminal
  <2> QED BY <1>0, <1>a, <2>1, <2>2, <2>3, <2>4
<1>6. ASSUME NEW b \in Branches, Observes(b)
      PROVE  OwnershipIsMutual'
  <2>1. /\ UNCHANGED <<opStatus, request>>
        /\ branch'[b].status \notin Moving
        /\ \A c \in Branches : c # b => branch'[c] = branch[c]
    BY <1>6 DEF Observes, Resting, BranchInv, TypeOK
  <2>2. \A p \in NonterminalOps : BranchOf(p) # b
    BY <1>6 DEF Observes, CapsuleFree, OwnerOf, CapsuleOfOp
  <2> QED BY <1>0, <1>a, <2>1, <2>2
<1> QED BY <1>1, <1>2, <1>3, <1>4, <1>5, <1>6 DEF RowsMove, Move

-----------------------------------------------------------------------------
(* The moves are those of the abstract ledger.                              *)
LEMMA MoveRefines ==
  ASSUME BranchInv, BranchInv', RowsMove
  PROVE  [Ledger!Next]_(Ledger!vars)
<1> DEFINE entries == [o \in OpIds |-> LedgerEntry(o)]
<1>0. UNCHANGED request => entries' = entries
  BY DEF LedgerEntry, CapsuleOfOp, BranchOf
<1>1. CASE Stays \/ \E b \in Branches : Observes(b)
  BY <1>0, <1>1 DEF Stays, Observes, Marks, ledgerVars, Ledger!vars
<1>2. ASSUME NEW o \in OpIds, NEW r \in Requests, Accepts(o, r)
      PROVE  Ledger!Next
  <2> DEFINE e == [key |-> r.key, capsule |-> CapsuleOf[r.branch]]
  <2>1. /\ opStatus[o] = "absent" /\ opStatus' = [opStatus EXCEPT ![o] = "accepted"]
        /\ request' = [request EXCEPT ![o] = r]
        /\ UNCHANGED Marks
    BY <1>2 DEF Accepts, Insert
  <2>2. e \in Ledger!Entries
    BY CapsuleAssumption DEF Ledger!Entries, Requests
  <2>3. \A p \in OpIds : opStatus[p] # "absent" =>
          entries[p] = [key |-> request[p].key, capsule |-> CapsuleOfOp(p)]
    BY RequestAssumption DEF LedgerEntry, BranchInv, RequestInv
  <2>4. Ledger!Owner(e.capsule) = {}
    BY <1>2, <2>3 DEF Ledger!Owner, Ledger!Nonterminal, Accepts, CapsuleFree, OwnerOf, NonterminalOps, Nonterminal
  <2>5. \A p \in OpIds : Ledger!Accepted(p) => entries[p].key # e.key
    BY <1>2, <2>3 DEF Ledger!Accepted, Accepts, KeyFree, WithKey
  <2>6. entries' = [entries EXCEPT ![o] = e]
    <3>1. \A p \in OpIds : entries'[p] = IF p = o THEN e ELSE entries[p]
      BY <2>1, RequestAssumption DEF LedgerEntry, CapsuleOfOp, BranchOf, BranchInv, TypeOK
    <3> QED BY <3>1
  <2> HIDE DEF e, entries
  <2>7. Ledger!Accept(o, e)
    BY <2>1, <2>4, <2>5, <2>6 DEF Ledger!Accept, Marks, entries
  <2> QED BY <2>2, <2>7 DEF Ledger!Next
<1>3. ASSUME NEW o \in OpIds, Claims(o) \/ Intends(o) \/ Touches(o) \/ Witnesses(o)
      PROVE  Ledger!Next
  BY <1>0, <1>3 DEF Claims, Intends, Touches, Witnesses, Marks, ledgerVars, Ledger!Next, Ledger!Claim,
     Ledger!RecordIntent, Ledger!Touch, Ledger!Witness
<1>4. ASSUME NEW o \in OpIds, Confirms(o)
      PROVE  UNCHANGED Ledger!vars
  BY <1>0, <1>4 DEF Confirms, Marks, Ledger!vars
<1>5. ASSUME NEW o \in OpIds, NEW s \in Terminal, Ends(o, s)
      PROVE  Ledger!Next
  BY <1>0, <1>5 DEF Ends, Marks, Terminal, Nonterminal, Ledger!Next, Ledger!Complete, Ledger!FailSafely,
     Ledger!RequireCleanup, Ledger!Nonterminal
<1> QED BY <1>1, <1>2, <1>3, <1>4, <1>5 DEF RowsMove, Move

LEMMA InitRefines == Init => Ledger!Init
<1> SUFFICES ASSUME Init PROVE Ledger!Init
  OBVIOUS
<1>1. \A o \in OpIds : LedgerEntry(o) = NoRequest
  BY DEF Init, LedgerEntry
<1> QED BY <1>1 DEF Init, Ledger!Init

-----------------------------------------------------------------------------
(* Receipts.                                                                *)

(* A receipt names a row that holds its request, and so does a handler that   *)
(* is about to schedule and answer.                                         *)
ReceiptInv ==
  /\ \A h \in Handlers : handler[h].step = "schedule" =>
       \A o \in handler[h].op : request[o] = handler[h].request
  /\ \A r \in receipts : opStatus[r.op] # "absent" /\ request[r.op] = r.request

(* A step gives at most one receipt, for a row that holds the request.       *)
LEMMA ReceiptGiven ==
  ASSUME BranchInv, ReceiptInv, [Next]_vars, NEW r \in receipts', r \notin receipts
  PROVE  r.op \in OpIds /\ opStatus[r.op] # "absent" /\ request[r.op] = r.request
<1>1. ASSUME NEW h \in Handlers, LookupReplay(h)
      PROVE  r.op \in OpIds /\ opStatus[r.op] # "absent" /\ request[r.op] = r.request
  BY <1>1 DEF LookupReplay, AnswerReplay, SameRequest, GiveReceipt, WithKey
<1>2. ASSUME NEW h \in Handlers, AcceptTransaction(h)
      PROVE  r.op \in OpIds /\ opStatus[r.op] # "absent" /\ request[r.op] = r.request
  BY <1>2 DEF AcceptTransaction, AnswerReplay, SameRequest, GiveReceipt, RecheckReplay, WithKey
<1>3. ASSUME NEW h \in Handlers, Schedule(h)
      PROVE  r.op \in OpIds /\ opStatus[r.op] # "absent" /\ request[r.op] = r.request
  BY <1>3 DEF Schedule, GiveReceipt, ReceiptInv, BranchInv, RequestInv, TypeOK, HandlerType
<1>4. UNCHANGED receipts => r.op \in OpIds /\ opStatus[r.op] # "absent" /\ request[r.op] = r.request
  OBVIOUS
<1>5. CASE \/ \E h \in Handlers, q \in Requests : Submit(h, q)
           \/ \E o \in OpIds : ExecutorStep(o) \/ StepThrows(o) \/ FailIsLost(o) \/ ClassifyAbandoned(o)
                                \/ Land(o) \/ Refuse(o)
           \/ Boot \/ Serve \/ Crash \/ LoseAuthority
           \/ \E b \in Branches : GuestStops(b)
           \/ BeginPass
           \/ \E c \in reconciler.candidates : ObserveCandidate(c)
           \/ \E x \in reconciler.observed : RecordObservation(x)
           \/ UNCHANGED vars
  BY <1>4, <1>5 DEF Submit, ExecutorStep, Claim, RevokeSsh, WithdrawPreviews, RecordIntent, CallProvider,
     ObserveRuntime, ConfirmOnline, EnableSsh, ResumePreviews, Complete, Fail, StepThrows, FailIsLost,
     ClassifyAbandoned, Land, Refuse, Boot, Serve, Crash, LoseAuthority, GuestStops, BeginPass,
     ObserveCandidate, RecordObservation, historyVars, vars
<1> QED BY <1>1, <1>2, <1>3, <1>5 DEF Next, HandlerStep

(* A handler comes to "schedule" by inserting the row it schedules.          *)
LEMMA ScheduleReached ==
  ASSUME BranchInv, ReceiptInv, [Next]_vars, NEW h \in Handlers, handler'[h].step = "schedule"
  PROVE  \/ /\ handler[h].step = "schedule"
            /\ handler'[h].op = handler[h].op /\ handler'[h].request = handler[h].request
         \/ \E o \in OpIds : handler'[h].op = {o} /\ request'[o] = handler'[h].request
<1> DEFINE Goal == \/ /\ handler[h].step = "schedule"
                      /\ handler'[h].op = handler[h].op /\ handler'[h].request = handler[h].request
                   \/ \E o \in OpIds : handler'[h].op = {o} /\ request'[o] = handler'[h].request
<1>0. handler \in [Handlers -> HandlerType] /\ request \in [OpIds -> Requests \cup {NoRequest}]
  BY DEF BranchInv, TypeOK
<1>1. ASSUME NEW g \in Handlers, (\E q \in Requests : Submit(g, q)) \/ LookupReplay(g) \/ Schedule(g)
      PROVE  Goal
  <2>1. ASSUME NEW k \in HandlerType, k.step # "schedule", handler' = [handler EXCEPT ![g] = k]
        PROVE  Goal
    BY <1>0, <2>1
  <2>2. IdleHandler \in HandlerType /\ IdleHandler.step # "schedule"
    BY DEF IdleHandler, HandlerType
  <2>3. CASE handler' = [handler EXCEPT ![g] = IdleHandler]
    BY <2>1, <2>2, <2>3
  <2>4. CASE handler' = [handler EXCEPT ![g].step = "accept"]
    BY <1>0, <2>4 DEF HandlerType
  <2>5. ASSUME NEW q \in Requests, Submit(g, q)
        PROVE  Goal
    <3>1. [IdleHandler EXCEPT !.step = "lookup", !.request = q] \in HandlerType
      BY DEF IdleHandler, HandlerType
    <3>2. handler' = [handler EXCEPT ![g] = [IdleHandler EXCEPT !.step = "lookup", !.request = q]]
      BY <2>5 DEF Submit
    <3>3. [IdleHandler EXCEPT !.step = "lookup", !.request = q].step # "schedule"
      BY DEF IdleHandler
    <3> QED BY <2>1, <3>1, <3>2, <3>3
  <2> HIDE DEF Goal
  <2>6. CASE LookupReplay(g)
    BY <2>3, <2>4, <2>6 DEF LookupReplay, AnswerReplay
  <2>7. CASE Schedule(g)
    BY <2>3, <2>7 DEF Schedule
  <2> QED BY <1>1, <2>5, <2>6, <2>7
<1>2. ASSUME NEW g \in Handlers, AcceptTransaction(g)
      PROVE  Goal
  <2>1. CASE g # h
    BY <1>0, <1>2, <2>1 DEF AcceptTransaction, AnswerReplay
  <2>2. CASE g = h
    <3>1. CASE handler' = [handler EXCEPT ![h] = IdleHandler]
      BY <1>0, <3>1 DEF IdleHandler
    <3>2. ASSUME NEW o \in OpIds, Insert(o, handler[h].request),
                 handler' = [handler EXCEPT ![h].step = "schedule", ![h].op = {o}]
          PROVE  Goal
      BY <1>0, <3>2 DEF Insert, HandlerType
    <3> QED BY <1>2, <2>2, <3>1, <3>2 DEF AcceptTransaction, AnswerReplay
  <2> QED BY <2>1, <2>2
<1>3. CASE Crash \/ LoseAuthority
  BY <1>0, <1>3 DEF Crash, LoseAuthority, IdleHandler, HandlerType
<1>4. ASSUME \/ \E o \in OpIds : ExecutorStep(o) \/ StepThrows(o) \/ FailIsLost(o) \/ ClassifyAbandoned(o)
                                  \/ Land(o) \/ Refuse(o)
             \/ Boot \/ Serve
             \/ \E b \in Branches : GuestStops(b)
             \/ BeginPass
             \/ \E c \in reconciler.candidates : ObserveCandidate(c)
             \/ \E x \in reconciler.observed : RecordObservation(x)
             \/ UNCHANGED vars
      PROVE  UNCHANGED handler
  BY <1>4 DEF ExecutorStep, Claim, RevokeSsh, WithdrawPreviews, RecordIntent, CallProvider,
     ObserveRuntime, ConfirmOnline, EnableSsh, ResumePreviews, Complete, Fail, StepThrows, FailIsLost,
     ClassifyAbandoned, Land, Refuse, Boot, Serve, GuestStops, BeginPass,
     ObserveCandidate, RecordObservation, processVars, vars
<1> QED BY <1>1, <1>2, <1>3, <1>4 DEF Next, HandlerStep

LEMMA ReceiptStep ==
  ASSUME BranchInv, ReceiptInv, RowsMove, [Next]_vars
  PROVE  ReceiptInv'
<1>1. ASSUME NEW h \in Handlers, handler'[h].step = "schedule", NEW o \in handler'[h].op
      PROVE  request'[o] = handler'[h].request
  <2>1. CASE \E p \in OpIds : handler'[h].op = {p} /\ request'[p] = handler'[h].request
    BY <1>1, <2>1
  <2>2. CASE /\ handler[h].step = "schedule"
             /\ handler'[h].op = handler[h].op /\ handler'[h].request = handler[h].request
    <3>1. o \in OpIds /\ opStatus[o] # "absent" /\ request[o] = handler[h].request
      BY <1>1, <2>2 DEF BranchInv, TypeOK, HandlerType, RequestInv, ReceiptInv
    <3> QED BY <2>2, <3>1, RowsKeep
  <2> QED BY <1>1, <2>1, <2>2, ScheduleReached
<1>2. ASSUME NEW r \in receipts'
      PROVE  opStatus'[r.op] # "absent" /\ request'[r.op] = r.request
  <2>1. r.op \in OpIds /\ opStatus[r.op] # "absent" /\ request[r.op] = r.request
    BY <1>2, ReceiptGiven DEF ReceiptInv, BranchInv, TypeOK
  <2> QED BY <2>1, RowsKeep
<1> QED BY <1>1, <1>2 DEF ReceiptInv

-----------------------------------------------------------------------------
(* Executors and the provider.                                              *)

(* An executor whose operation was classified under it has left its branch to *)
(* an operator, and a branch has at most one executor that may act on the     *)
(* provider: a superseded Worker cannot disturb the access that a later       *)
(* operation withdraws.                                                     *)
Acting(o) == executor[o].step \in ProviderSteps
ActingInv ==
  /\ \A o \in OpIds : Acting(o) /\ opStatus[o] = "cleanup_required" =>
       branch[BranchOf(o)].status = "cleanup_required"
  /\ \A o, p \in OpIds : Acting(o) /\ Acting(p) /\ BranchOf(o) = BranchOf(p) => o = p
  /\ \A o \in OpIds :
       /\ executor[o].step \in {"online", "enable", "resume"} => TypeOf(o) = "branch_start"
       /\ executor[o].step \in {"revoke", "withdraw"} => TypeOf(o) = "branch_stop"

(* The SSH access a stop has revoked stays revoked up to its provider call, as *)
(* long as its row was not classified under it.  The previews may still be     *)
(* exposed behind a stopped coordinator: only the gate finds them withdrawn.   *)
Withdrawing(o) ==
  executor[o].step \in {"withdraw", "intent"} /\ opStatus[o] = "running" /\ TypeOf(o) = "branch_stop"
AccessInv ==
  \A o \in OpIds :
    /\ Withdrawing(o) => BranchOf(o) \notin ssh
    /\ executor[o].step \in {"call", "observe"} /\ TypeOf(o) = "branch_stop" =>
         BranchOf(o) \notin ssh \cup exposed

(* An executor submits its mutation once, and (within the deadline) observes *)
(* only after the provider has answered: what was witnessed is no longer     *)
(* pending.                                                                  *)
PendingInv ==
  /\ pending \cup witnessed \subseteq touched
  /\ \A o \in OpIds : executor[o].step = "call" => o \notin touched
  /\ witnessed \cap pending = {}

LEMMA InitActs == Init => ActingInv /\ AccessInv /\ PendingInv
BY DEF Init, ActingInv, Acting, AccessInv, Withdrawing, PendingInv, Idle, ProviderSteps

(* An executor that moves takes its own step, starts, ends or throws.        *)
LEMMA ExecutorPath ==
  ASSUME BranchInv, [Next]_vars, NEW o \in OpIds
  PROVE  \/ executor'[o] = executor[o]
         \/ executor'[o].step \in {"none", "claim", "pre_provider", "cleanup_required"}
         \/ ExecutorStep(o)
<1> DEFINE Goal == \/ executor'[o] = executor[o]
                   \/ executor'[o].step \in {"none", "claim", "pre_provider", "cleanup_required"}
                   \/ ExecutorStep(o)
<1>0. executor \in [OpIds -> ExecutorType]
  BY DEF BranchInv, TypeOK
<1>1. ASSUME NEW p \in OpIds, ExecutorStep(p), p # o
      PROVE  executor'[o] = executor[o]
  BY <1>0, <1>1 DEF ExecutorStep, Claim, RevokeSsh, WithdrawPreviews, RecordIntent, CallProvider,
     ObserveRuntime, ConfirmOnline, EnableSsh, ResumePreviews, Complete, Fail, Goto, Stop
<1>2. ASSUME NEW p \in OpIds, StepThrows(p) \/ FailIsLost(p)
      PROVE  Goal
  BY <1>0, <1>2 DEF StepThrows, FailIsLost, DispositionAt, Goto, Stop, Idle, ExecutorType
<1>3. ASSUME NEW h \in Handlers, Schedule(h)
      PROVE  Goal
  <2>1. PICK p \in handler[h].op : executor' = [executor EXCEPT ![p].step = "claim"] \/ UNCHANGED executor
    BY <1>3 DEF Schedule
  <2>2. p \in OpIds
    BY DEF BranchInv, TypeOK, HandlerType
  <2> QED BY <1>0, <2>1, <2>2 DEF ExecutorType
<1>4. CASE Crash
  BY <1>4 DEF Crash, Idle
<1>5. CASE \/ \E h \in Handlers : (\E r \in Requests : Submit(h, r)) \/ LookupReplay(h) \/ AcceptTransaction(h)
           \/ \E p \in OpIds : ClassifyAbandoned(p) \/ Land(p) \/ Refuse(p)
           \/ Boot \/ Serve \/ LoseAuthority
           \/ \E b \in Branches : GuestStops(b)
           \/ BeginPass
           \/ \E c \in reconciler.candidates : ObserveCandidate(c)
           \/ \E x \in reconciler.observed : RecordObservation(x)
           \/ UNCHANGED vars
  BY <1>5 DEF Submit, LookupReplay, AcceptTransaction, ClassifyAbandoned, Land, Refuse, Boot, Serve,
     LoseAuthority, GuestStops, BeginPass, ObserveCandidate, RecordObservation, processVars, vars
<1> QED BY <1>1, <1>2, <1>3, <1>4, <1>5 DEF Next, HandlerStep

(* The fixed walk of start and of stop; every other end of a step is an error *)
(* on its way to repository.fail, or the end of the executor.                *)
Ending == {"none", "pre_provider", "cleanup_required"}
Walks(o) ==
  LET from == executor[o].step
      to == executor'[o].step
      start == TypeOf(o) = "branch_start" IN
  \/ Claim(o) /\ from = "claim" /\ to = IF start THEN "intent" ELSE "revoke"
  \/ RevokeSsh(o) /\ from = "revoke" /\ to = "withdraw"
  \/ WithdrawPreviews(o) /\ from = "withdraw" /\ to = "intent"
  \/ RecordIntent(o) /\ from = "intent" /\ to = "call"
  \/ CallProvider(o) /\ from = "call" /\ to = "observe"
  \/ ObserveRuntime(o) /\ from = "observe" /\ to \in {"previous_confirmed", IF start THEN "online" ELSE "complete"}
  \/ ConfirmOnline(o) /\ from = "online" /\ to = "enable"
  \/ EnableSsh(o) /\ from = "enable" /\ to = "resume"
  \/ ResumePreviews(o) /\ from = "resume" /\ to = "complete"

LEMMA OwnStepWalks ==
  ASSUME BranchInv, NEW o \in OpIds, ExecutorStep(o)
  PROVE  executor'[o].step \in Ending \/ Walks(o)
<1> DEFINE Goal == executor'[o].step \in Ending \/ Walks(o)
<1>0. executor \in [OpIds -> ExecutorType]
  BY DEF BranchInv, TypeOK
<1>a. ASSUME NEW s, Goto(o, s)
      PROVE  executor'[o].step = s
  BY <1>0, <1>a DEF Goto, ExecutorType
<1>b. Stop(o) => executor'[o].step = "none"
  BY <1>0 DEF Stop, Idle
<1>1. CASE Claim(o)
  <2>1. Goto(o, IF TypeOf(o) = "branch_start" THEN "intent" ELSE "revoke") \/ Goto(o, "pre_provider")
    BY <1>1 DEF Claim
  <2>2. executor[o].step = "claim"
    BY <1>1 DEF Claim, At
  <2> QED BY <1>a, <1>1, <2>1, <2>2 DEF Ending, Walks
<1>2. CASE RevokeSsh(o) \/ WithdrawPreviews(o)
  BY <1>a, <1>2 DEF RevokeSsh, WithdrawPreviews, At, Walks
<1>3. CASE RecordIntent(o)
  BY <1>a, <1>3 DEF RecordIntent, At, Walks, Ending
<1>4. CASE CallProvider(o)
  BY <1>a, <1>4 DEF CallProvider, At, Walks
<1>5. CASE ObserveRuntime(o)
  <2> DEFINE start == TypeOf(o) = "branch_start"
  <2>1. executor[o].step = "observe"
    BY <1>5 DEF ObserveRuntime, At
  <2>2. \/ executor' = [executor EXCEPT ![o] =
             [step |-> IF start THEN "online" ELSE "previous_confirmed", ip |-> runtime[BranchOf(o)].ip]]
        \/ Goto(o, IF start THEN "previous_confirmed" ELSE "complete")
        \/ Goto(o, "cleanup_required")
    BY <1>5 DEF ObserveRuntime
  <2>3. executor'[o].step \in {"previous_confirmed", "cleanup_required", IF start THEN "online" ELSE "complete"}
    BY <1>0, <1>a, <2>2
  <2> QED BY <1>5, <2>1, <2>3 DEF Walks, Ending
<1>6. CASE ConfirmOnline(o)
  BY <1>a, <1>6 DEF ConfirmOnline, At, Walks, Ending
<1>7. CASE EnableSsh(o) \/ ResumePreviews(o)
  BY <1>a, <1>7 DEF EnableSsh, ResumePreviews, At, Walks
<1>8. CASE Complete(o) \/ Fail(o)
  BY <1>a, <1>b, <1>8 DEF Complete, Fail, Ending
<1> QED BY <1>1, <1>2, <1>3, <1>4, <1>5, <1>6, <1>7, <1>8 DEF ExecutorStep

(* Every step of the system leaves an executor where it was, starts or ends it, *)
(* or is its next step.                                                      *)
LEMMA ExecutorWalks ==
  ASSUME BranchInv, [Next]_vars, NEW o \in OpIds
  PROVE  executor'[o] = executor[o] \/ executor'[o].step \in Ending \cup {"claim"} \/ Walks(o)
BY ExecutorPath, OwnStepWalks DEF Ending

(* Only the executor whose intent was recorded comes to act on the provider. *)
LEMMA ActingFrom ==
  ASSUME BranchInv, [Next]_vars, NEW o \in OpIds, Acting(o)'
  PROVE  Acting(o) \/ Intends(o)
<1>1. executor'[o].step \in ProviderSteps
  BY DEF Acting
<1>2. executor'[o] # executor[o] => Walks(o)
  BY <1>1, ExecutorWalks DEF Ending, ProviderSteps
<1>3. CASE RecordIntent(o) /\ executor'[o].step = "call"
  <2>1. CASE Ready(o, "running", FALSE, AcceptedStatus(TypeOf(o))) /\ GateOpen(o)
    BY <1>3, <2>1 DEF RecordIntent, Ready, Intends, AcceptedStatus, Moving, historyVars
  <2>2. CASE ~(Ready(o, "running", FALSE, AcceptedStatus(TypeOf(o))) /\ GateOpen(o))
    <3>1. executor' = [executor EXCEPT ![o].step = "pre_provider"]
      BY <1>3, <2>2 DEF RecordIntent, Goto
    <3>2. executor'[o].step = "pre_provider"
      BY <3>1 DEF ExecutorType, BranchInv, TypeOK
    <3> QED BY <1>3, <3>2
  <2> QED BY <2>1, <2>2
<1> QED BY <1>1, <1>2, <1>3 DEF Walks, Acting, ProviderSteps

LEMMA BranchStaysCleanup ==
  ASSUME BranchInv, RowInv, RowsMove, NEW b \in Branches, branch[b].status = "cleanup_required"
  PROVE  branch'[b].status = "cleanup_required"
<1>1. \A o \in NonterminalOps : BranchOf(o) # b
  BY DEF RowInv, OwnershipIsMutual, OwnedStatuses
<1>2. ASSUME NEW o \in OpIds, NEW r \in Requests, Accepts(o, r)
      PROVE  branch'[b] = branch[b]
  BY <1>2 DEF Accepts, Insert, Eligible, Initial, BranchInv, TypeOK, Requests
<1>3. ASSUME NEW o \in OpIds, Claims(o) \/ Intends(o) \/ Touches(o) \/ Witnesses(o)
      PROVE  branch'[b] = branch[b]
  BY <1>3 DEF Claims, Intends, Touches, Witnesses, ledgerVars
<1>4. ASSUME NEW o \in OpIds, Confirms(o) \/ \E s \in Terminal : Ends(o, s)
      PROVE  branch'[b] = branch[b]
  BY <1>1, <1>4 DEF Confirms, Ends, NonterminalOps, Nonterminal, BranchInv, TypeOK
<1>5. ASSUME NEW c \in Branches, Observes(c)
      PROVE  branch'[b] = branch[b]
  BY <1>5 DEF Observes, BranchInv, TypeOK
<1>6. CASE Stays
  BY <1>6 DEF Stays, ledgerVars
<1> QED BY <1>2, <1>3, <1>4, <1>5, <1>6 DEF RowsMove, Move

LEMMA CleanupMarksBranch ==
  ASSUME BranchInv, RowsMove, NEW o \in OpIds,
         opStatus[o] \in Nonterminal, opStatus'[o] = "cleanup_required"
  PROVE  branch'[BranchOf(o)].status = "cleanup_required"
<1>1. BranchOf(o) \in Branches
  BY HasRequest DEF Nonterminal
<1>2. PICK p \in OpIds, s \in Terminal : Ends(p, s)
  BY DEF RowsMove, Move, Stays, Accepts, Insert, Claims, Intends, Touches, Witnesses, Confirms,
     Observes, Marks, ledgerVars, BranchInv, TypeOK, Nonterminal
<1>3. p = o /\ s = "cleanup_required"
  BY <1>2 DEF Ends, BranchInv, TypeOK, Nonterminal
<1> QED BY <1>1, <1>2, <1>3 DEF Ends, Resting, BranchInv, TypeOK

LEMMA ActingStep ==
  ASSUME BranchInv, RowInv, RowsMove, ActingInv, BranchInv', [Next]_vars
  PROVE  ActingInv'
<1>0. ASSUME NEW o \in OpIds, executor[o].step # "none"
      PROVE  /\ opStatus[o] # "absent" /\ request'[o] = request[o]
             /\ BranchOf(o) \in Branches /\ TypeOf(o) \in Types
  BY <1>0, RowsKeep, HasRequest DEF BranchInv, RequestInv
<1>a. ASSUME NEW o \in OpIds, Acting(o)'
      PROVE  /\ Acting(o) \/ Intends(o)
             /\ opStatus[o] # "absent" /\ request'[o] = request[o] /\ BranchOf(o) \in Branches
  <2>1. Acting(o) \/ Intends(o)
    BY <1>a, ActingFrom
  <2>2. opStatus[o] # "absent"
    BY <2>1 DEF Acting, Intends, BranchInv, ExecutorInv
  <2> QED BY <2>1, <2>2, RowsKeep, HasRequest
<1>1. ASSUME NEW o \in OpIds, Acting(o)', opStatus'[o] = "cleanup_required"
      PROVE  branch'[BranchOf(o)].status = "cleanup_required"
  <2>1. CASE Intends(o)
    BY <1>1, <2>1 DEF Intends
  <2>2. CASE Acting(o) /\ opStatus[o] = "cleanup_required"
    BY <1>1, <1>a, <2>2, BranchStaysCleanup DEF ActingInv
  <2>3. CASE Acting(o) /\ opStatus[o] = "running"
    BY <1>1, <2>3, CleanupMarksBranch DEF Nonterminal
  <2> QED BY <1>1, <1>a, <2>1, <2>2, <2>3 DEF Acting, BranchInv, ExecutorInv
<1>2. ASSUME NEW o \in OpIds, NEW p \in OpIds, Acting(o)', Intends(p), BranchOf(o) = BranchOf(p)
      PROVE  o = p
  <2>1. p \in NonterminalOps /\ branch[BranchOf(p)].status \in Moving
    BY <1>2 DEF Intends, NonterminalOps, Nonterminal
  <2>2. CASE opStatus[o] = "running"
    BY <1>2, <2>1, <2>2, BranchHasOneOwner DEF NonterminalOps, Nonterminal
  <2>3. CASE Acting(o) /\ opStatus[o] = "cleanup_required"
    BY <1>2, <2>1, <2>3 DEF ActingInv, Moving
  <2> QED BY <1>2, <1>a, <2>2, <2>3 DEF Acting, Intends, BranchInv, ExecutorInv
<1>3. ASSUME NEW o \in OpIds, NEW p \in OpIds, Acting(o)', Acting(p)', BranchOf(o)' = BranchOf(p)'
      PROVE  o = p
  <2>1. BranchOf(o) = BranchOf(p)
    BY <1>3, <1>a DEF BranchOf
  <2> QED BY <1>2, <1>3, <1>a, <2>1 DEF ActingInv
<1>4. ASSUME NEW o \in OpIds, executor'[o].step \in {"online", "enable", "resume", "revoke", "withdraw"}
      PROVE  TypeOf(o)' = IF executor'[o].step \in {"revoke", "withdraw"} THEN "branch_stop" ELSE "branch_start"
  <2>1. executor'[o] = executor[o] \/ Walks(o)
    BY <1>4, ExecutorWalks DEF Ending
  <2>2. executor[o].step # "none"
    BY <1>4, <2>1 DEF Walks
  <2>3. TypeOf(o)' = TypeOf(o) /\ TypeOf(o) \in Types
    BY <1>0, <2>2 DEF TypeOf
  <2>4. CASE executor'[o] = executor[o]
    BY <1>4, <2>3, <2>4 DEF ActingInv
  <2>5. CASE Walks(o)
    BY <1>4, <2>3, <2>5 DEF Walks, ActingInv, Types
  <2> QED BY <2>1, <2>4, <2>5
<1>5. \A o \in OpIds :
         /\ executor'[o].step \in {"online", "enable", "resume"} => TypeOf(o)' = "branch_start"
         /\ executor'[o].step \in {"revoke", "withdraw"} => TypeOf(o)' = "branch_stop"
  BY <1>4
<1>6. \A o \in OpIds : Acting(o)' /\ opStatus'[o] = "cleanup_required" =>
         branch'[BranchOf(o)'].status = "cleanup_required"
  BY <1>1, <1>a DEF BranchOf
<1>7. \A o, p \in OpIds : Acting(o)' /\ Acting(p)' /\ BranchOf(o)' = BranchOf(p)' => o = p
  BY <1>3
<1> QED BY <1>5, <1>6, <1>7 DEF ActingInv

(* Access comes back only through an executor that acts.                     *)
LEMMA AccessReturns ==
  ASSUME [Next]_vars, NEW b, b \in ssh' \cup exposed', b \notin ssh \cup exposed
                            \/ (b \in ssh' /\ b \notin ssh)
  PROVE  \E p \in OpIds : (EnableSsh(p) \/ ResumePreviews(p)) /\ BranchOf(p) = b
<1>1. ssh' \subseteq ssh /\ exposed' \subseteq exposed => FALSE
  BY Zenon
<1>a. ASSUME NEW h \in Handlers,
             (\E r \in Requests : Submit(h, r)) \/ LookupReplay(h) \/ AcceptTransaction(h) \/ Schedule(h)
      PROVE  FALSE
  BY <1>1, <1>a DEF Submit, LookupReplay, AcceptTransaction, Schedule, accessVars
<1>b. ASSUME NEW p \in OpIds,
             \/ StepThrows(p) \/ FailIsLost(p) \/ ClassifyAbandoned(p) \/ Land(p) \/ Refuse(p)
             \/ Claim(p) \/ RecordIntent(p) \/ CallProvider(p) \/ ObserveRuntime(p)
             \/ ConfirmOnline(p) \/ Complete(p) \/ Fail(p)
      PROVE  FALSE
  BY <1>1, <1>b DEF StepThrows, FailIsLost, ClassifyAbandoned, Land, Refuse, Claim, RecordIntent,
     CallProvider, ObserveRuntime, ConfirmOnline, Complete, Fail, accessVars
<1>c. ASSUME NEW p \in OpIds, RevokeSsh(p) \/ WithdrawPreviews(p)
      PROVE  FALSE
  BY <1>1, <1>c DEF RevokeSsh, WithdrawPreviews
<1>d. CASE \/ Boot \/ Serve \/ Crash \/ LoseAuthority
           \/ \E c \in Branches : GuestStops(c)
           \/ BeginPass
           \/ \E c \in reconciler.candidates : ObserveCandidate(c)
           \/ \E x \in reconciler.observed : RecordObservation(x)
           \/ UNCHANGED vars
  <2>1. ASSUME NEW x \in reconciler.observed, RecordObservation(x) PROVE UNCHANGED accessVars
    BY <2>1, Zenon DEF RecordObservation
  <2>2. ASSUME NEW c \in reconciler.candidates, ObserveCandidate(c) PROVE UNCHANGED accessVars
    BY <2>2 DEF ObserveCandidate
  <2>3. Boot \/ Serve \/ Crash \/ LoseAuthority \/ BeginPass => UNCHANGED accessVars
    BY DEF Boot, Serve, Crash, LoseAuthority, BeginPass
  <2>4. ASSUME NEW c \in Branches, GuestStops(c) PROVE UNCHANGED accessVars
    BY <2>4 DEF GuestStops
  <2>5. UNCHANGED vars => UNCHANGED accessVars
    BY DEF vars
  <2>6. UNCHANGED accessVars
    BY <1>d, <2>1, <2>2, <2>3, <2>4, <2>5, Zenon
  <2> QED BY <1>1, <2>6 DEF accessVars
<1>2. ASSUME NEW p \in OpIds, EnableSsh(p) \/ ResumePreviews(p)
      PROVE  BranchOf(p) = b
  BY <1>2 DEF EnableSsh, ResumePreviews
<1> QED BY <1>a, <1>b, <1>c, <1>d, <1>2 DEF Next, HandlerStep, ExecutorStep

(* An operation runs because its executor claimed it.                        *)
LEMMA RunningFrom ==
  ASSUME BranchInv, [Next]_vars, NEW o \in OpIds, opStatus'[o] = "running", opStatus[o] # "running"
  PROVE  Claim(o)
<1> USE DEF BranchInv, TypeOK
<1>1. ASSUME NEW p \in OpIds, ClassifyAs(p, TRUE, NoIp) \/ \E u, ip : ClassifyAs(p, u, ip)
      PROVE  FALSE
  BY <1>1 DEF ClassifyAs
<1>2. CASE \E p \in OpIds : Fail(p) \/ ClassifyAbandoned(p)
  BY <1>1, <1>2 DEF Fail, ClassifyAbandoned, ledgerVars
<1>3. CASE \E h \in Handlers : AcceptTransaction(h)
  BY <1>3 DEF AcceptTransaction, AnswerReplay, Insert, ledgerVars
<1>4. CASE \E p \in OpIds : Claim(p) \/ Complete(p)
  BY <1>4 DEF Claim, Complete
<1>5. CASE \/ \E h \in Handlers : (\E r \in Requests : Submit(h, r)) \/ LookupReplay(h) \/ Schedule(h)
           \/ \E p \in OpIds : \/ StepThrows(p) \/ FailIsLost(p) \/ Land(p) \/ Refuse(p)
                                \/ RevokeSsh(p) \/ WithdrawPreviews(p) \/ RecordIntent(p)
                                \/ CallProvider(p) \/ ObserveRuntime(p) \/ ConfirmOnline(p)
                                \/ EnableSsh(p) \/ ResumePreviews(p)
           \/ Boot \/ Serve \/ Crash \/ LoseAuthority
           \/ \E c \in Branches : GuestStops(c)
           \/ BeginPass
           \/ \E c \in reconciler.candidates : ObserveCandidate(c)
           \/ \E x \in reconciler.observed : RecordObservation(x)
           \/ UNCHANGED vars
  BY <1>5 DEF Submit, LookupReplay, Schedule, StepThrows, FailIsLost, Land, Refuse, RevokeSsh,
     WithdrawPreviews, RecordIntent, CallProvider, ObserveRuntime, ConfirmOnline, EnableSsh, ResumePreviews,
     Boot, Serve, Crash, LoseAuthority, GuestStops, BeginPass, ObserveCandidate, RecordObservation,
     ledgerVars, vars
<1> QED BY <1>2, <1>3, <1>4, <1>5 DEF Next, HandlerStep, ExecutorStep

(* What is withdrawn from a branch stays so while the stop that withdrew it  *)
(* owns the branch, or holds the only executor that acts on it.              *)
LEMMA AccessStays ==
  ASSUME BranchInv, RowInv, ActingInv, [Next]_vars, NEW o \in OpIds,
         opStatus[o] = "running" \/ Acting(o), TypeOf(o) = "branch_stop"
  PROVE  /\ BranchOf(o) \notin ssh => BranchOf(o) \notin ssh'
         /\ BranchOf(o) \notin ssh \cup exposed => BranchOf(o) \notin ssh' \cup exposed'
<1>1. ASSUME NEW p \in OpIds, EnableSsh(p) \/ ResumePreviews(p), BranchOf(p) = BranchOf(o)
      PROVE  FALSE
  <2>1. Acting(p) /\ executor[p].step \in {"enable", "resume"}
    BY <1>1 DEF EnableSsh, ResumePreviews, At, Acting, ProviderSteps
  <2>2. TypeOf(p) = "branch_start"
    BY <2>1 DEF ActingInv
  <2>3. CASE Acting(o)
    BY <1>1, <2>1, <2>2, <2>3 DEF ActingInv
  <2>4. CASE opStatus[o] = "running"
    <3>1. opStatus[p] \in {"running", "cleanup_required"}
      BY <2>1 DEF BranchInv, ExecutorInv, Acting
    <3>2. branch[BranchOf(o)].status = "stopping"
      BY <2>4 DEF RowInv, OwnershipIsMutual, OwnedStatuses, NonterminalOps, Nonterminal
    <3>3. opStatus[p] = "running"
      BY <1>1, <2>1, <3>1, <3>2 DEF ActingInv
    <3> QED BY <1>1, <2>2, <2>4, <3>3, BranchHasOneOwner DEF NonterminalOps, Nonterminal
  <2> QED BY <2>3, <2>4
<1> QED BY <1>1, AccessReturns

LEMMA AccessStep ==
  ASSUME BranchInv, RowInv, RowsMove, ActingInv, AccessInv, BranchInv', [Next]_vars
  PROVE  AccessInv'
<1>1. ASSUME NEW o \in OpIds, executor[o].step # "none"
      PROVE  TypeOf(o)' = TypeOf(o) /\ BranchOf(o)' = BranchOf(o) /\ TypeOf(o) \in Types
  BY <1>1, RowsKeep, HasRequest DEF BranchInv, RequestInv, TypeOf, BranchOf
<1>2. ASSUME NEW o \in OpIds, executor'[o].step \in {"withdraw", "intent", "call", "observe"}
      PROVE  (executor'[o] = executor[o] \/ Walks(o)) /\ executor[o].step # "none"
  <2>1. executor'[o] = executor[o] \/ Walks(o)
    BY <1>2, ExecutorWalks DEF Ending
  <2> QED BY <1>2, <2>1 DEF Walks
<1>3. ASSUME NEW o \in OpIds, Withdrawing(o)'
      PROVE  BranchOf(o)' \notin ssh'
  <2>1. executor'[o].step \in {"withdraw", "intent"} /\ opStatus'[o] = "running" /\ TypeOf(o)' = "branch_stop"
    BY <1>3 DEF Withdrawing
  <2>2. (executor'[o] = executor[o] \/ Walks(o)) /\ BranchOf(o)' = BranchOf(o) /\ TypeOf(o) = "branch_stop"
    BY <1>1, <1>2, <2>1
  <2>3. CASE executor'[o] = executor[o]
    <3>1. opStatus[o] = "running"
      <4>1. ~Claim(o)
        BY <2>1, <2>3 DEF Claim, At
      <4> QED BY <2>1, <4>1, RunningFrom
    <3>2. BranchOf(o) \notin ssh
      BY <2>1, <2>2, <2>3, <3>1 DEF AccessInv, Withdrawing
    <3> QED BY <2>2, <3>1, <3>2, AccessStays
  <2>4. CASE RevokeSsh(o)
    BY <2>2, <2>4 DEF RevokeSsh
  <2>5. CASE WithdrawPreviews(o) /\ executor[o].step = "withdraw"
    <3>1. opStatus[o] = "running" /\ UNCHANGED ssh
      BY <2>1, <2>5 DEF WithdrawPreviews, ledgerVars
    <3>2. BranchOf(o) \notin ssh
      BY <2>2, <2>5, <3>1 DEF AccessInv, Withdrawing
    <3> QED BY <2>2, <3>1, <3>2
  <2>6. CASE executor[o].step = "claim"
    BY <2>1, <2>2, <2>6 DEF Walks
  <2> QED BY <2>1, <2>2, <2>3, <2>4, <2>5, <2>6 DEF Walks
<1>5. ASSUME NEW o \in OpIds, executor'[o].step \in {"call", "observe"}, TypeOf(o)' = "branch_stop"
      PROVE  BranchOf(o)' \notin ssh' \cup exposed'
  <2>1. (executor'[o] = executor[o] \/ Walks(o)) /\ BranchOf(o)' = BranchOf(o) /\ TypeOf(o) = "branch_stop"
    BY <1>1, <1>2, <1>5
  <2>2. CASE executor[o].step \in {"call", "observe"}
    BY <2>1, <2>2, AccessStays DEF AccessInv, Acting, ProviderSteps
  <2>3. CASE RecordIntent(o) /\ executor[o].step = "intent"
    <3>1. opStatus[o] = "running"
      <4>1. Acting(o)'
        BY <1>5 DEF Acting, ProviderSteps
      <4>2. Intends(o)
        BY <2>3, <4>1, ActingFrom DEF Acting, ProviderSteps
      <4> QED BY <4>2 DEF Intends
    <3>2. BranchOf(o) \notin ssh
      BY <2>1, <2>3, <3>1 DEF AccessInv, Withdrawing
    <3>3. BranchOf(o) \notin exposed
      <4>1. ~Goto(o, "pre_provider")
        BY <1>5 DEF Goto, BranchInv, TypeOK, ExecutorType
      <4> QED BY <2>1, <2>3, <4>1 DEF RecordIntent, GateOpen
    <3> QED BY <2>1, <3>1, <3>2, <3>3, AccessStays
  <2> QED BY <1>5, <2>1, <2>2, <2>3 DEF Walks
<1> QED BY <1>3, <1>5 DEF AccessInv

(* Only the call, its return and the observation change what is known of the *)
(* provider work of an operation.                                            *)
LEMMA ProviderWork ==
  ASSUME [Next]_vars
  PROVE  \/ UNCHANGED <<pending, touched, witnessed>>
         \/ \E o \in OpIds : CallProvider(o) \/ ObserveRuntime(o)
         \/ \E o \in OpIds : pending' = pending \ {o} /\ UNCHANGED <<touched, witnessed>>
<1>1. CASE \E o \in OpIds : Land(o) \/ Refuse(o)
  BY <1>1 DEF Land, Refuse, historyVars
<1>2. CASE \/ \E h \in Handlers : (\E r \in Requests : Submit(h, r)) \/ HandlerStep(h)
           \/ \E o \in OpIds : \/ StepThrows(o) \/ FailIsLost(o) \/ ClassifyAbandoned(o)
                                \/ Claim(o) \/ RevokeSsh(o) \/ WithdrawPreviews(o) \/ RecordIntent(o)
                                \/ ConfirmOnline(o) \/ EnableSsh(o) \/ ResumePreviews(o) \/ Complete(o) \/ Fail(o)
           \/ Boot \/ Serve \/ Crash \/ LoseAuthority
           \/ \E b \in Branches : GuestStops(b)
           \/ BeginPass
           \/ \E c \in reconciler.candidates : ObserveCandidate(c)
           \/ \E x \in reconciler.observed : RecordObservation(x)
           \/ UNCHANGED vars
  BY <1>2 DEF Submit, HandlerStep, LookupReplay, AcceptTransaction, Schedule, StepThrows, FailIsLost,
     ClassifyAbandoned, Claim, RevokeSsh, WithdrawPreviews, RecordIntent, ConfirmOnline, EnableSsh,
     ResumePreviews, Complete, Fail, Boot, Serve, Crash, LoseAuthority, GuestStops, BeginPass,
     ObserveCandidate, RecordObservation, providerVars, historyVars, vars
<1> QED BY <1>1, <1>2 DEF Next, ExecutorStep

LEMMA PendingStep ==
  ASSUME BranchInv, PendingInv, ~SlowProvider, [Next]_vars
  PROVE  PendingInv'
<1> USE DEF PendingInv
<1>1. pending' \cup witnessed' \subseteq touched' /\ witnessed' \cap pending' = {}
  <2>1. ASSUME NEW o \in OpIds, CallProvider(o)
        PROVE  pending' \cup witnessed' \subseteq touched' /\ witnessed' \cap pending' = {}
    <3>1. o \notin touched
      BY <2>1 DEF CallProvider, At
    <3> QED BY <2>1, <3>1 DEF CallProvider
  <2>2. ASSUME NEW o \in OpIds, ObserveRuntime(o)
        PROVE  pending' \cup witnessed' \subseteq touched' /\ witnessed' \cap pending' = {}
    <3>1. o \in touched /\ o \notin pending
      BY <2>2 DEF ObserveRuntime, At, Returned, BranchInv, ExecutorInv, ProviderSteps
    <3>2. UNCHANGED <<pending, touched>> /\ witnessed' \in {witnessed, witnessed \cup {o}}
      BY <2>2 DEF ObserveRuntime, providerVars
    <3> QED BY <3>1, <3>2
  <2>3. ASSUME NEW o \in OpIds, pending' = pending \ {o}, UNCHANGED <<touched, witnessed>>
        PROVE  pending' \cup witnessed' \subseteq touched' /\ witnessed' \cap pending' = {}
    BY <2>3
  <2>4. CASE UNCHANGED <<pending, touched, witnessed>>
    BY <2>4
  <2> QED BY <2>1, <2>2, <2>3, <2>4, ProviderWork
<1>2. ASSUME NEW o \in OpIds, executor'[o].step = "call"
      PROVE  o \notin touched'
  <2>1. \/ executor'[o] = executor[o]
        \/ RecordIntent(o) /\ executor[o].step = "intent"
    BY <1>2, ExecutorWalks DEF Ending, Walks
  <2>2. o \notin touched
    <3>1. CASE executor[o].step = "call"
      BY <3>1
    <3>2. CASE executor[o].step = "intent"
      <4>1. Intends(o)
        BY <1>2, <3>2, ActingFrom DEF Acting, ProviderSteps
      <4> QED BY <4>1 DEF Intends, BranchInv, ExecutorInv
    <3> QED BY <1>2, <2>1, <3>1, <3>2
  <2>3. ASSUME NEW p \in OpIds, CallProvider(p) PROVE p # o
    <3>1. executor'[p].step = "observe"
      BY <2>3 DEF CallProvider, Goto, BranchInv, TypeOK, ExecutorType
    <3> QED BY <1>2, <3>1
  <2>4. ASSUME NEW p \in OpIds, ObserveRuntime(p) PROVE UNCHANGED touched
    BY <2>4 DEF ObserveRuntime
  <2> QED BY <2>2, <2>3, <2>4, ProviderWork DEF CallProvider
<1> QED BY <1>1, <1>2

-----------------------------------------------------------------------------
(* The whole invariant.                                                     *)
SystemInv == BranchInv /\ RowInv /\ CandidatesInv /\ ReceiptInv /\ ActingInv /\ AccessInv

LEMMA InitSystemInv == Init => SystemInv
<1> SUFFICES ASSUME Init PROVE SystemInv
  OBVIOUS
<1>1. BranchInv
  BY InitBranchInv
<1>2. RowInv
  BY DEF Init, RowInv, OneOperationPerKey, OneOwner, OwnershipIsMutual, NonterminalOps, Nonterminal
<1>3. CandidatesInv /\ ReceiptInv
  BY DEF Init, CandidatesInv, ReceiptInv, IdleHandler
<1> QED BY <1>1, <1>2, <1>3, InitActs DEF SystemInv

LEMMA SystemStep ==
  ASSUME SystemInv, [Next]_vars
  PROVE  SystemInv' /\ RowsMove
<1>1. BranchInv' /\ CandidatesInv' /\ RowsMove
  BY NextPreserves, CandidatesStep, StepMoves DEF SystemInv
<1>2. RowInv'
  BY <1>1, IndexesKeep, OwnershipKeeps DEF SystemInv, RowInv
<1>3. ReceiptInv' /\ ActingInv' /\ AccessInv'
  BY <1>1, ReceiptStep, ActingStep, AccessStep DEF SystemInv
<1> QED BY <1>1, <1>2, <1>3 DEF SystemInv

(* No step reopens a row that ended.                                        *)
LEMMA StepKeepsTerminal ==
  ASSUME SystemInv, [Next]_vars, NEW o \in OpIds, opStatus[o] \in Terminal
  PROVE  opStatus'[o] = opStatus[o]
BY SystemStep, RowsKeep DEF SystemInv, Terminal

(* A handler that answers has either given the receipt of the row under its  *)
(* key or found that row to hold another request.                           *)
LEMMA AnswerGivesReceipt ==
  ASSUME SystemInv, [Next]_vars, NEW h \in Handlers, NEW o \in OpIds,
         handler[h].step \in {"lookup", "accept"},
         handler'[h].step = "idle", worker'.phase # "down",
         request[o] = handler[h].request
  PROVE  [request |-> request[o], op |-> o] \in receipts'
<1> DEFINE Given == [request |-> request[o], op |-> o] \in receipts'
<1>0. handler \in [Handlers -> HandlerType] /\ executor \in [OpIds -> ExecutorType]
  BY DEF SystemInv, BranchInv, TypeOK
<1>1. opStatus[o] # "absent" /\ o \in WithKey(handler[h].request.key)
  BY RequestAssumption DEF SystemInv, BranchInv, RequestInv, WithKey
<1>2. ASSUME NEW p \in WithKey(handler[h].request.key), AnswerReplay(h, p)
      PROVE  Given
  <2>1. p = o
    BY <1>1, <1>2 DEF SystemInv, RowInv, OneOperationPerKey, WithKey
  <2> QED BY <1>2, <2>1 DEF AnswerReplay, SameRequest, GiveReceipt
<1>3. CASE LookupReplay(h)
  BY <1>1, <1>2, <1>3 DEF LookupReplay
<1>4. CASE AcceptTransaction(h)
  BY <1>1, <1>2, <1>4 DEF AcceptTransaction, RecheckReplay
<1>5. ASSUME NEW g \in Handlers, g # h, (\E r \in Requests : Submit(g, r)) \/ HandlerStep(g)
      PROVE  handler'[h] = handler[h]
  BY <1>0, <1>5 DEF Submit, HandlerStep, LookupReplay, AcceptTransaction, Schedule, AnswerReplay
<1>6. ~((\E r \in Requests : Submit(h, r)) \/ Schedule(h))
  BY DEF Submit, Schedule
<1>7. ~(Crash \/ LoseAuthority)
  BY DEF Crash, LoseAuthority, SystemInv, BranchInv, TypeOK
<1>8. CASE \/ \E p \in OpIds : \/ ExecutorStep(p) \/ StepThrows(p) \/ FailIsLost(p) \/ ClassifyAbandoned(p)
                                \/ Land(p) \/ Refuse(p)
           \/ Boot \/ Serve
           \/ \E b \in Branches : GuestStops(b)
           \/ BeginPass
           \/ \E c \in reconciler.candidates : ObserveCandidate(c)
           \/ \E x \in reconciler.observed : RecordObservation(x)
           \/ UNCHANGED vars
  BY <1>8 DEF ExecutorStep, Claim, RevokeSsh, WithdrawPreviews, RecordIntent, CallProvider,
     ObserveRuntime, ConfirmOnline, EnableSsh, ResumePreviews, Complete, Fail, StepThrows, FailIsLost,
     ClassifyAbandoned, Land, Refuse, Boot, Serve, GuestStops, BeginPass, ObserveCandidate,
     RecordObservation, processVars, vars
<1> QED BY <1>3, <1>4, <1>5, <1>6, <1>7, <1>8 DEF Next, HandlerStep

(* Every reachable state satisfies it.                                      *)
THEOREM BranchSystemInvariant == Spec => []SystemInv
<1>1. SystemInv /\ [Next]_vars => SystemInv'
  BY SystemStep
<1> QED BY <1>1, InitSystemInv, PTL DEF Spec

(* Every receipt for a key names the one operation that holds the request,   *)
(* through retries, racing handlers and a crash between commit and answer:   *)
(* the replay lookup is repeated under the lock, and the key is unique.      *)
THEOREM BranchReceiptsNameOneOperation == Spec => []ReceiptsNameOneOperation
<1>1. SystemInv => ReceiptsNameOneOperation
  <2> SUFFICES ASSUME SystemInv PROVE ReceiptsNameOneOperation
    OBVIOUS
  <2>1. \A r \in receipts : r.op \in OpIds /\ opStatus[r.op] # "absent" /\ request[r.op] = r.request
    BY DEF SystemInv, BranchInv, TypeOK, ReceiptInv
  <2> QED BY <2>1 DEF SystemInv, RowInv, OneOperationPerKey, ReceiptsNameOneOperation
<1> QED BY <1>1, BranchSystemInvariant, PTL

(* A branch in transition has its operation and an unfinished operation has  *)
(* its branch: no crash, superseded Worker or reconciliation pass leaves a   *)
(* capsule that nothing can release.                                        *)
THEOREM BranchOwnershipIsMutual == Spec => []OwnershipIsMutual
<1>1. SystemInv => OwnershipIsMutual
  BY DEF SystemInv, RowInv
<1> QED BY <1>1, BranchSystemInvariant, PTL

(* While a stop's provider call is outstanding the branch has no SSH access  *)
(* and no exposed preview, even if another Worker serves the same database.  *)
THEOREM BranchStopFindsNoLiveAccess == Spec => []StopFindsNoLiveAccess
<1>1. SystemInv => StopFindsNoLiveAccess
  BY DEF SystemInv, AccessInv, StopFindsNoLiveAccess, At
<1> QED BY <1>1, BranchSystemInvariant, PTL

(* A provider that answers before the deadline leaves nothing pending when   *)
(* the branch is given back as it was; MCBranchSlowProvider shows that the   *)
(* hypothesis is needed.                                                    *)
THEOREM BranchFailedLeavesNothingPending ==
  ASSUME ~SlowProvider
  PROVE  Spec => []FailedLeavesNothingPending
<1>1. Init => PendingInv
  BY InitActs
<1>2. BranchInv /\ PendingInv /\ [Next]_vars => PendingInv'
  BY PendingStep
<1>3. BranchInv /\ PendingInv => FailedLeavesNothingPending
  BY DEF BranchInv, PendingInv, FailedIsSafe, FailedLeavesNothingPending
<1> QED BY <1>1, <1>2, <1>3, BranchInvariant, PTL DEF Spec

(* No process reopens an operation that ended: a startup classification that  *)
(* runs beside the superseded executor, and the executor beside it, both     *)
(* read the row again under its lock.                                       *)
THEOREM BranchTerminalIsFinal == Spec => TerminalIsFinal
<1>1. SystemInv /\ [Next]_vars =>
        [\A o \in OpIds : opStatus[o] \in Terminal => opStatus'[o] = opStatus[o]]_vars
  BY StepKeepsTerminal
<1> QED BY <1>1, BranchSystemInvariant, PTL DEF Spec, TerminalIsFinal

(* A request the ledger already holds is answered with its receipt by every  *)
(* handler that ends, never with the status conflict its own operation       *)
(* caused.                                                                  *)
THEOREM BranchIdenticalRequestGetsReceipt == Spec => IdenticalRequestGetsReceipt
<1>1. SystemInv /\ [Next]_vars =>
        [\A h \in Handlers, o \in OpIds :
           /\ handler[h].step \in {"lookup", "accept"}
           /\ handler'[h].step = "idle" /\ worker'.phase # "down"
           /\ request[o] = handler[h].request
           => [request |-> request[o], op |-> o] \in receipts']_vars
  BY AnswerGivesReceipt
<1> QED BY <1>1, BranchSystemInvariant, PTL DEF Spec, IdenticalRequestGetsReceipt

(* Branch operations implement the abstract ledger, with the key and the     *)
(* capsule of the stored request as the entry of an operation.              *)
THEOREM BranchImplementsLedger == Spec => ImplementsLedger
<1>1. SystemInv /\ SystemInv' /\ [Next]_vars => [Ledger!Next]_(Ledger!vars)
  BY SystemStep, MoveRefines DEF SystemInv
<1> QED BY <1>1, InitRefines, BranchSystemInvariant, PTL DEF Spec, ImplementsLedger, Ledger!Spec
=============================================================================
