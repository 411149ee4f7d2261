------------------------------ MODULE SshGateway ------------------------------
(***************************************************************************)
(* The SSH gateway and its runtime, packages/ssh/src/{gateway,runtime},     *)
(* over the rows of SshPolicy.  A process answers revocation requests and   *)
(* carries connections; it holds singleton authority while it serves, but   *)
(* finds out late when its PostgreSQL session ends.                         *)
(*                                                                          *)
(* openRelay stands, between its awaits, at setup[c]: "redeeming" and       *)
(* "activating" await a transaction, "redeemed" and "activated" its answer,  *)
(* "dialing" the branch.  What happens between two awaits is one step.      *)
(***************************************************************************)
EXTENDS SshPolicy, Naturals

CONSTANTS
  Procs,     \* gateway processes, each started at most once
  Reqs,      \* revocation requests
  NoProc,
  MaxRelays, \* SshGatewayConfig.maxRelays
  Failures   \* database writes may fail, or lose their answer

ASSUME GatewayAssumption ==
  /\ NoProc \notin Procs
  /\ MaxRelays \in Nat
  /\ Failures \in BOOLEAN

VARIABLES
  lock,      \* PostgreSQL: whose session holds the advisory lock
  phase,     \* await at which boot() or shutdown() of each process stands
  owner,     \* process of each connection
  setup,     \* await at which openRelay of each connection stands
  registry,  \* state of each relay in its process's registry
  tombs,     \* relays with a tombstone in their process's registry
  gone,      \* connections whose client, or shell channel, is closed
  upstream,  \* connections with a socket to their branch
  closures,  \* durable closures under way
  request,   \* revocation requests: phase, process, selected relays, scope
  severed,   \* history: processes whose session ended under them
  faulty     \* history: a row was left behind by a failed write

runtimeVars == <<lock, phase, severed>>
localVars == <<setup, registry, tombs, gone, upstream, closures>>
vars == <<policyVars, runtimeVars, localVars, owner, request, faulty>>

Up(p) == phase[p] \in {"recovering", "confirming", "verifying", "serving", "stopping", "failing"}
Mine(p) == {c \in Conns : owner[c] = p}
InSetup(c) == setup[c] \in {"redeeming", "redeemed", "activating", "activated", "dialing"}
Registered(c) == registry[c] # "absent"

NoRequest == [phase |-> "idle", proc |-> NoProc, selected |-> {}, scope |-> {}]
Pending(r) == request[r].phase \in {"marked", "closed"}

Init ==
  /\ PolicyInit
  /\ lock = NoProc
  /\ phase = [p \in Procs |-> "new"]
  /\ owner = [c \in Conns |-> NoProc]
  /\ setup = [c \in Conns |-> "idle"]
  /\ registry = [c \in Conns |-> "absent"]
  /\ tombs = {} /\ gone = {} /\ upstream = {} /\ closures = {}
  /\ request = [r \in Reqs |-> NoRequest]
  /\ severed = {}
  /\ faulty = FALSE

-----------------------------------------------------------------------------
(* Mutant: the channel is destroyed, the upstream socket is left to end. *)
ClosesChannel(cs, origin) ==
  /\ registry' = [c \in Conns |-> IF c \in cs THEN "absent" ELSE registry[c]]
  /\ tombs' = tombs \cup cs
  /\ gone' = gone \cup {c \in cs : Registered(c)}
  /\ closures' = closures \cup {c \in cs : Registered(c) /\ origin # "host"}
  /\ UNCHANGED upstream
(* SshRelayRegistry.close: an unknown relay only gets a tombstone.  Closures *)
(* that the host asked for are made durable by the host.                    *)
Close(cs, origin) ==
  /\ registry' = [c \in Conns |-> IF c \in cs THEN "absent" ELSE registry[c]]
  /\ tombs' = tombs \cup cs
  /\ upstream' = upstream \ cs
  /\ gone' = gone \cup {c \in cs : Registered(c)}
  /\ closures' = closures \cup {c \in cs : Registered(c) /\ origin # "host"}

-----------------------------------------------------------------------------
(* A connection, from authentication to the relayed stream.                 *)

Authenticate(c, p, g) ==
  /\ owner[c] = NoProc
  /\ phase[p] = "serving"
  /\ IssueTicket(c, g)
  /\ owner' = [owner EXCEPT ![c] = p]
  /\ setup' = [setup EXCEPT ![c] = "ticketed"]
  /\ UNCHANGED <<runtimeVars, registry, tombs, gone, upstream, closures, request, faulty>>

OpenShell(c) ==
  /\ setup[c] = "ticketed" /\ c \notin gone
  /\ phase[owner[c]] = "serving"
  /\ Cardinality({d \in Mine(owner[c]) : Registered(d)}) < MaxRelays
  /\ setup' = [setup EXCEPT ![c] = "redeeming"]
  /\ UNCHANGED <<policyVars, runtimeVars, owner, registry, tombs, gone, upstream, closures, request, faulty>>

Redeem(c) ==
  /\ setup[c] = "redeeming"
  /\ RedeemTicket(c)
  /\ setup' = [setup EXCEPT ![c] = "redeemed"]
  /\ UNCHANGED <<runtimeVars, owner, registry, tombs, gone, upstream, closures, request, faulty>>

(* Refused, expired or aborted; or committed with the answer lost, and then *)
(* the gateway knows no relay to close.                                     *)
RedeemFails(c) ==
  /\ setup[c] = "redeeming"
  /\ \/ UNCHANGED <<policyVars, faulty>>
     \/ Failures /\ RedeemTicket(c) /\ faulty' = TRUE
  /\ setup' = [setup EXCEPT ![c] = "done"]
  /\ gone' = gone \cup {c}
  /\ UNCHANGED <<runtimeVars, owner, registry, tombs, upstream, closures, request>>

(* Registration needs a client that is still there and a process that goes  *)
(* on; policy.activateRelay is called at once.                              *)
MayRegister(c) ==
  /\ phase[owner[c]] = "serving"
  /\ c \notin gone \cup tombs
  /\ Cardinality({d \in Mine(owner[c]) : Registered(d)}) < MaxRelays

Register(c) ==
  /\ setup[c] = "redeemed"
  /\ MayRegister(c)
  /\ registry' = [registry EXCEPT ![c] = "registered"]
  /\ setup' = [setup EXCEPT ![c] = "activating"]
  /\ UNCHANGED <<policyVars, runtimeVars, owner, tombs, gone, upstream, closures, request, faulty>>

(* Refused: the relay row exists, so its closure is made durable.            *)
RejectRegistration(c) ==
  /\ setup[c] = "redeemed"
  /\ ~ MayRegister(c)
  /\ setup' = [setup EXCEPT ![c] = "done"]
  /\ gone' = gone \cup {c}
  /\ closures' = closures \cup {c}
  /\ UNCHANGED <<policyVars, runtimeVars, owner, registry, tombs, upstream, request, faulty>>

Activate(c) ==
  /\ setup[c] = "activating"
  /\ ActivateRelay(c)
  /\ setup' = [setup EXCEPT ![c] = "activated"]
  /\ UNCHANGED <<runtimeVars, owner, registry, tombs, gone, upstream, closures, request, faulty>>

(* createConnection and attachUpstream follow beginDial without an await.   *)
Dial(c) ==
  /\ setup[c] = "activated"
  /\ registry[c] = "registered"
  /\ registry' = [registry EXCEPT ![c] = "dialing"]
  /\ upstream' = upstream \cup {c}
  /\ setup' = [setup EXCEPT ![c] = "dialing"]
  /\ UNCHANGED <<policyVars, runtimeVars, owner, tombs, gone, closures, request, faulty>>

Stream(c) ==
  /\ setup[c] = "dialing"
  /\ registry[c] = "dialing" /\ c \in upstream
  /\ registry' = [registry EXCEPT ![c] = "active"]
  /\ setup' = [setup EXCEPT ![c] = "done"]
  /\ UNCHANGED <<policyVars, runtimeVars, owner, tombs, gone, upstream, closures, request, faulty>>

(* The catch block: activation is refused or its answer lost, the relay was *)
(* closed meanwhile, the dial fails or exceeds its deadline.                *)
SetupFails(c) ==
  /\ \/ setup[c] = "activating" /\ UNCHANGED policyVars
     \/ setup[c] = "activating" /\ Failures /\ ActivateRelay(c)
     \/ setup[c] = "activated" /\ registry[c] # "registered" /\ UNCHANGED policyVars
     \/ setup[c] = "dialing" /\ UNCHANGED policyVars
  /\ Close({c}, "setup_failure")
  /\ setup' = [setup EXCEPT ![c] = "done"]
  /\ UNCHANGED <<runtimeVars, owner, request, faulty>>

(* The client leaves, or the branch ends the stream.  Before the redemption *)
(* is answered the connection knows no relay to close.                      *)
Disconnect(c) ==
  /\ setup[c] # "idle" /\ c \notin gone
  /\ IF setup[c] \in {"ticketed", "redeeming", "redeemed"}
     THEN gone' = gone \cup {c} /\ UNCHANGED <<registry, tombs, upstream, closures>>
     ELSE Close({c}, "natural")
  /\ UNCHANGED <<policyVars, runtimeVars, owner, setup, request, faulty>>

(* Tombstones expire, and the oldest give way to new ones.                  *)
TombstoneExpires(c) ==
  /\ c \in tombs /\ setup[c] = "redeemed"
  /\ tombs' = tombs \ {c}
  /\ UNCHANGED <<policyVars, runtimeVars, owner, setup, registry, gone, upstream, closures, request, faulty>>

PersistClosure(c) ==
  /\ c \in closures
  /\ CloseRelay(c)
  /\ closures' = closures \ {c}
  /\ UNCHANGED <<runtimeVars, owner, setup, registry, tombs, gone, upstream, request, faulty>>

(* A failed closure is reported and forgotten, unless shutdown has taken    *)
(* its snapshot of the closures it waits for.                               *)
ClosureFails(c) ==
  /\ Failures /\ c \in closures
  /\ closures' = closures \ {c}
  /\ faulty' = TRUE
  /\ \/ UNCHANGED phase
     \/ phase[owner[c]] = "stopping" /\ phase' = [phase EXCEPT ![owner[c]] = "failing"]
  /\ UNCHANGED <<policyVars, lock, severed, owner, setup, registry, tombs, gone, upstream, request>>

-----------------------------------------------------------------------------
(* Requests.  Fences and grants.                                            *)

Administer ==
  /\ \E p \in Procs : phase[p] = "serving"
  /\ \/ \E b \in Branches : InitializeBlocked(b) \/ Enable(b)
     \/ \E g \in Grants, k \in Keys, b \in Branches : BindGrant(g, k, b)
  /\ UNCHANGED <<runtimeVars, localVars, owner, request, faulty>>

BranchStatusChanges ==
  /\ \E b \in Branches : BranchChanges(b)
  /\ UNCHANGED <<runtimeVars, localVars, owner, request, faulty>>

(* Revocations, by their first transaction.  "scope" is what the request     *)
(* promises to close: every connection with a ticket for its target.        *)
Committed(r, p, cs) ==
  request' = [request EXCEPT ![r] =
    [phase |-> "marked", proc |-> p, selected |-> cs \cap Revocable, scope |-> cs]]

(* A lost answer ends the request; the rows stay as committed.              *)
AnswerLost(r, p) ==
  /\ Failures
  /\ request' = [request EXCEPT ![r] = [NoRequest EXCEPT !.phase = "failed", !.proc = p]]

AskAccess(r, p) ==
  \E bs \in {{b} : b \in Branches} \cup {Branches}, force \in BOOLEAN :
    /\ force => bs = Branches
    /\ RevokeAccess(bs, force)
    /\ Committed(r, p, Through(GrantsOn(bs))) \/ AnswerLost(r, p)

AskGrant(r, p) ==
  \E g \in Grants :
    /\ RevokeGrant(g)
    /\ Committed(r, p, Through(Alike(g))) \/ AnswerLost(r, p)

AskKey(r, p) ==
  \E k \in Keys :
    /\ RevokeKey(k)
    /\ Committed(r, p, Through(GrantsOf(k))) \/ AnswerLost(r, p)

Ask(r, p) ==
  /\ request[r].phase = "idle"
  /\ phase[p] = "serving"
  /\ AskAccess(r, p) \/ AskGrant(r, p) \/ AskKey(r, p)
  /\ UNCHANGED <<runtimeVars, localVars, owner, faulty>>

(* closeRelayIds, on the registry of the process that answers.              *)
CloseSelected(r) ==
  /\ request[r].phase = "marked"
  /\ Close(request[r].selected \cap Mine(request[r].proc), "host")
  /\ request' = [request EXCEPT ![r].phase = "closed"]
  /\ UNCHANGED <<policyVars, runtimeVars, setup, owner, faulty>>

Confirm(r) ==
  /\ request[r].phase = "closed"
  /\ ConfirmClosed(request[r].selected)
  /\ request' = [request EXCEPT ![r].phase = "confirmed"]
  /\ UNCHANGED <<runtimeVars, localVars, owner, faulty>>

ConfirmFails(r) ==
  /\ Failures
  /\ request[r].phase = "closed"
  /\ request' = [request EXCEPT ![r].phase = "failed"]
  /\ faulty' = TRUE
  /\ UNCHANGED <<policyVars, runtimeVars, localVars, owner>>

-----------------------------------------------------------------------------
(* The process.                                                             *)

Start(p) ==
  /\ phase[p] = "new" /\ lock = NoProc
  /\ lock' = p
  /\ phase' = [phase EXCEPT ![p] = "recovering"]
  /\ UNCHANGED <<policyVars, localVars, owner, request, severed, faulty>>

Goes(p, from, to) ==
  /\ phase[p] = from
  /\ phase' = [phase EXCEPT ![p] = to]
  /\ UNCHANGED <<lock, severed, owner, request, faulty>>

(* The registry is empty: nothing to close but what the rows say.           *)
Recover(p) ==
  /\ Goes(p, "recovering", "confirming")
  /\ RecoverRelays
  /\ UNCHANGED localVars

ConfirmRecovery(p) ==
  /\ Goes(p, "confirming", "verifying")
  /\ ConfirmClosed({c \in Conns : relay[c] \in {"closing", "closed"}})
  /\ UNCHANGED localVars

(* The listener opens once ownership is verified on the original session.   *)
Listen(p) ==
  /\ lock = p
  /\ Goes(p, "verifying", "serving")
  /\ UNCHANGED <<policyVars, localVars>>

(* gateway.stop closes the registry and every client before its first await. *)
StopGateway(p) ==
  /\ registry' = [c \in Conns |-> IF owner[c] = p THEN "absent" ELSE registry[c]]
  /\ tombs' = tombs \cup {c \in Mine(p) : Registered(c)}
  /\ upstream' = upstream \ Mine(p)
  /\ gone' = gone \cup Mine(p)
  /\ closures' = closures \cup {c \in Mine(p) : Registered(c)}
  /\ UNCHANGED setup

Stop(p) ==
  /\ \/ Goes(p, "serving", "stopping")
     \/ Failures /\ \E from \in {"recovering", "confirming"} : Goes(p, from, "stopping")
  /\ StopGateway(p)
  /\ UNCHANGED policyVars

SessionEnds(p) ==
  /\ lock = p /\ Up(p)
  /\ lock' = NoProc
  /\ severed' = severed \cup {p}
  /\ UNCHANGED <<policyVars, phase, localVars, owner, request, faulty>>

(* A verification fails, or the shutdown deadline passes: fail-stop.         *)
FailStop(p) ==
  /\ lock # p \/ phase[p] = "stopping"
  /\ \E from \in {"recovering", "confirming", "verifying", "serving", "stopping"} : Goes(p, from, "failing")
  /\ StopGateway(p)
  /\ UNCHANGED policyVars

(* Mutant: setup that is still under way is not waited for. *)
ReleasesEarly(p) ==
  /\ \A c \in Mine(p) : c \notin closures
  /\ \A r \in Reqs : request[r].proc = p => ~ Pending(r)
  /\ lock = p /\ phase[p] = "stopping"
  /\ lock' = NoProc
  /\ phase' = [phase EXCEPT ![p] = "released"]
  /\ UNCHANGED <<policyVars, localVars, owner, request, severed, faulty>>
(* Setup is drained, then closures, then requests; the lock goes last.      *)
Release(p) ==
  /\ \A c \in Mine(p) : ~ InSetup(c) /\ c \notin closures
  /\ \A r \in Reqs : request[r].proc = p => ~ Pending(r)
  /\ lock = p /\ phase[p] = "stopping"
  /\ lock' = NoProc
  /\ phase' = [phase EXCEPT ![p] = "released"]
  /\ UNCHANGED <<policyVars, localVars, owner, request, severed, faulty>>

(* The process ends, at any await: after a fail-stop, or by itself.         *)
Exit(p) ==
  /\ Up(p)
  /\ phase' = [phase EXCEPT ![p] = "dead"]
  /\ lock' = IF lock = p THEN NoProc ELSE lock
  /\ setup' = [c \in Conns |-> IF owner[c] = p THEN "done" ELSE setup[c]]
  /\ registry' = [c \in Conns |-> IF owner[c] = p THEN "absent" ELSE registry[c]]
  /\ tombs' = tombs \ Mine(p)
  /\ upstream' = upstream \ Mine(p)
  /\ gone' = gone \cup Mine(p)
  /\ closures' = closures \ Mine(p)
  /\ request' = [r \in Reqs |->
       IF request[r].proc = p /\ Pending(r) THEN [request[r] EXCEPT !.phase = "failed"] ELSE request[r]]
  /\ UNCHANGED <<policyVars, severed, owner, faulty>>

-----------------------------------------------------------------------------
SetupStep(c) ==
  \/ Redeem(c) \/ RedeemFails(c)
  \/ Register(c) \/ RejectRegistration(c)
  \/ Activate(c)
  \/ Dial(c) \/ Stream(c)
  \/ SetupFails(c)

Closing(c) == PersistClosure(c) \/ ClosureFails(c)

RequestStep(r) == CloseSelected(r) \/ Confirm(r) \/ ConfirmFails(r)

Next ==
  \/ \E c \in Conns :
       \/ \E p \in Procs, g \in Grants : Authenticate(c, p, g)
       \/ OpenShell(c) \/ Disconnect(c) \/ TombstoneExpires(c)
       \/ SetupStep(c)
       \/ Closing(c)
  \/ \E r \in Reqs : RequestStep(r) \/ \E p \in Procs : Ask(r, p)
  \/ Administer
  \/ BranchStatusChanges
  \/ \E p \in Procs :
       \/ Start(p) \/ Recover(p) \/ ConfirmRecovery(p) \/ Listen(p)
       \/ Stop(p) \/ Release(p) \/ SessionEnds(p) \/ FailStop(p) \/ Exit(p)

Spec == Init /\ [][Next]_vars

-----------------------------------------------------------------------------
TypeOK ==
  /\ PolicyTypeOK
  /\ lock \in Procs \cup {NoProc}
  /\ phase \in [Procs -> {"new", "recovering", "confirming", "verifying", "serving", "stopping",
                          "failing", "released", "dead"}]
  /\ owner \in [Conns -> Procs \cup {NoProc}]
  /\ setup \in [Conns -> {"idle", "ticketed", "redeeming", "redeemed", "activating", "activated",
                          "dialing", "done"}]
  /\ registry \in [Conns -> {"absent", "registered", "dialing", "active"}]
  /\ tombs \subseteq Conns /\ gone \subseteq Conns
  /\ upstream \subseteq Conns /\ closures \subseteq Conns
  /\ request \in [Reqs -> [phase : {"idle", "marked", "closed", "confirmed", "failed"},
                           proc : Procs \cup {NoProc},
                           selected : SUBSET Conns, scope : SUBSET Conns]]
  /\ severed \subseteq Procs
  /\ faulty \in BOOLEAN

(* A socket to a branch has a row that says so.  A closed row is never said *)
(* of a stream that still runs, and nothing is dialled before activation.   *)
(* Holds while no session has ended under its process: one that has not     *)
(* noticed yet, even one that still boots, closes the rows of the other.    *)
SocketHasRow ==
  severed = {} => \A c \in upstream : relay[c] \in {"active", "closing"}

(* relayClosureConfirmed: once a revocation that changed rows is confirmed, *)
(* no connection it was about has a socket, or ever will: neither the       *)
(* relays it selected nor tickets still unredeemed when it committed.       *)
ConfirmedIsQuiet ==
  \A r \in Reqs : request[r].phase = "confirmed" =>
    \A c \in request[r].scope :
      /\ relay[c] \in {"none", "closed"}
      /\ severed = {} => c \notin upstream

(* A gateway that listens has none of its predecessors' relays open, however *)
(* they ended.                                                              *)
PredecessorsAreClosed ==
  \A p \in Procs, c \in Conns :
    phase[p] = "serving" /\ lock = p /\ owner[c] # p /\ owner[c] \notin severed =>
      relay[c] \in {"none", "closed"}

(* Authority is released with every relay of the process closed, unless a   *)
(* write had failed: a redemption that ends after the sockets are gone      *)
(* included.  server.ts:306 says so without that condition, which the        *)
(* answer of a redemption that is lost refutes.                             *)
ReleasedIsClosed ==
  \A c \in Conns :
    owner[c] # NoProc /\ phase[owner[c]] = "released" /\ ~ faulty => relay[c] \in {"none", "closed"}
=============================================================================
