--------------------------- MODULE SshGatewayProofs ---------------------------
(***************************************************************************)
(* Theorems about the SSH authority, for any sets of branches, keys,        *)
(* grants, connections, processes and requests.  First the rows under the   *)
(* transactions of SshPolicy, in any order; then the gateway, whose every   *)
(* step is one of those transactions or leaves the rows alone: what is left *)
(* is to relate the rows to the processes.                                  *)
(***************************************************************************)
EXTENDS SshGateway, TLAPS

(* A ticket is issued through a grant.                                      *)
TicketHasGrant == \A c \in Conns : ticket[c] = "none" <=> via[c] = NoGrant

(* Withdrawing a grant takes its tickets along, redeemed or not.            *)
TicketIsCurrent == \A c \in Conns : ticket[c] \in {"issued", "redeemed"} => IsActive(via[c])

(* The partial unique index on ssh_branch_grants: a key has one destination. *)
OneGrantPerKey ==
  \A g, h \in Grants : IsActive(g) /\ IsActive(h) /\ grant[g].key = grant[h].key => g = h

RelayHasTicket == \A c \in Conns : relay[c] # "none" => ticket[c] \in {"redeemed", "revoked"}

PolicyInv ==
  /\ PolicyTypeOK
  /\ TicketHasGrant
  /\ TicketIsCurrent
  /\ OneGrantPerKey
  /\ RelayHasTicket
  /\ RelayIsAuthorised

PolicyStep ==
  \/ \E b \in Branches : InitializeBlocked(b) \/ Enable(b) \/ BranchChanges(b)
  \/ \E g \in Grants, k \in Keys, b \in Branches : BindGrant(g, k, b)
  \/ \E c \in Conns, g \in Grants : IssueTicket(c, g)
  \/ \E c \in Conns : RedeemTicket(c) \/ ActivateRelay(c) \/ CloseRelay(c)
  \/ \E bs \in SUBSET Branches, force \in BOOLEAN : RevokeAccess(bs, force)
  \/ \E g \in Grants : RevokeGrant(g)
  \/ \E k \in Keys : RevokeKey(k)
  \/ \E cs \in SUBSET Conns : ConfirmClosed(cs)
  \/ RecoverRelays

-----------------------------------------------------------------------------
LEMMA InitPolicy == PolicyInit => PolicyInv
  BY NoGrantAssumption DEF PolicyInit, PolicyInv, PolicyTypeOK, TicketHasGrant, TicketIsCurrent, OneGrantPerKey,
     RelayHasTicket, RelayIsAuthorised, IsActive

(* The fences, grants and tickets before a relay exists.                     *)
LEMMA OpensPolicy ==
  ASSUME PolicyInv,
         \/ \E b \in Branches : InitializeBlocked(b) \/ Enable(b) \/ BranchChanges(b)
         \/ \E g \in Grants, k \in Keys, b \in Branches : BindGrant(g, k, b)
         \/ \E c \in Conns, g \in Grants : IssueTicket(c, g)
  PROVE  PolicyInv'
<1> USE NoGrantAssumption
    DEF PolicyInv, PolicyTypeOK, TicketHasGrant, TicketIsCurrent, OneGrantPerKey, RelayHasTicket,
        RelayIsAuthorised, Authorised, IsActive
<1>1. CASE \E b \in Branches : InitializeBlocked(b)
  BY <1>1 DEF InitializeBlocked
<1>2. CASE \E b \in Branches : Enable(b)
  BY <1>2 DEF Enable
<1>3. CASE \E b \in Branches : BranchChanges(b)
  BY <1>3 DEF BranchChanges
<1>4. CASE \E g \in Grants, k \in Keys, b \in Branches : BindGrant(g, k, b)
  BY <1>4 DEF BindGrant, ActiveGrantsOf
<1>5. CASE \E c \in Conns, g \in Grants : IssueTicket(c, g)
  BY <1>5 DEF IssueTicket
<1> QED BY <1>1, <1>2, <1>3, <1>4, <1>5

(* Redemption, activation and closure lock what authorises the relay.       *)
LEMMA RelaysPolicy ==
  ASSUME PolicyInv,
         \E c \in Conns : RedeemTicket(c) \/ ActivateRelay(c) \/ CloseRelay(c)
  PROVE  PolicyInv'
<1> USE DEF PolicyInv, PolicyTypeOK, TicketHasGrant, TicketIsCurrent, OneGrantPerKey, RelayHasTicket,
        RelayIsAuthorised, Authorised, Eligible, IsActive
<1>1. CASE \E c \in Conns : RedeemTicket(c)
  BY <1>1 DEF RedeemTicket
<1>2. CASE \E c \in Conns : ActivateRelay(c)
  BY <1>2 DEF ActivateRelay
<1>3. CASE \E c \in Conns : CloseRelay(c)
  BY <1>3 DEF CloseRelay
<1> QED BY <1>1, <1>2, <1>3

(* Relays only leave: whoever stays is left with the same row.              *)
LEMMA LeavesPolicy ==
  ASSUME PolicyInv,
         RecoverRelays \/ \E cs \in SUBSET Conns : ConfirmClosed(cs)
  PROVE  PolicyInv'
<1> USE DEF PolicyInv, PolicyTypeOK, TicketHasGrant, TicketIsCurrent, OneGrantPerKey, RelayHasTicket,
        RelayIsAuthorised, Authorised, IsActive
<1>1. CASE RecoverRelays
  BY <1>1 DEF RecoverRelays, MarkClosing, Revocable
<1>2. CASE \E cs \in SUBSET Conns : ConfirmClosed(cs)
  BY <1>2 DEF ConfirmClosed
<1> QED BY <1>1, <1>2

(* A revocation of the grants gs with their tickets, which takes the relays *)
(* cs along, keeps the invariant if no relay outside cs loses its fence or  *)
(* its key.                                                                 *)
LEMMA RevocationKeepsPolicy ==
  ASSUME PolicyInv,
         NEW gs \in SUBSET Grants, NEW cs \in SUBSET Conns,
         Through(gs) \subseteq cs,
         RevokeGrants(gs), RevokeTickets(Through(gs)), MarkClosing(cs),
         UNCHANGED <<online, via>>,
         access' \in [Branches -> {"missing", "blocked", "enabled"}],
         activeKeys' \subseteq Keys,
         \A c \in Conns \ cs : relay[c] \in {"opening", "active"} =>
           /\ access'[grant[via[c]].branch] = access[grant[via[c]].branch]
           /\ grant[via[c]].key \in activeKeys'
  PROVE  PolicyInv'
<1> USE DEF PolicyInv, PolicyTypeOK
<1>1. grant' \in [Grants -> [status : {"active", "revoked"}, key : Keys, branch : Branches] \cup {NoGrant}]
  BY DEF RevokeGrants, IsActive
<1>2. /\ ticket' \in [Conns -> {"none", "issued", "redeemed", "revoked"}]
      /\ relay' \in [Conns -> {"none", "opening", "active", "closing", "closed"}]
  BY DEF RevokeTickets, MarkClosing
<1>3. TicketHasGrant' /\ RelayHasTicket'
  BY DEF TicketHasGrant, RelayHasTicket, RevokeTickets, MarkClosing
<1>4. \A g \in Grants \ gs : grant'[g] = grant[g]
  BY DEF RevokeGrants
<1>5. \A g \in gs : ~ IsActive(g)'
  BY DEF RevokeGrants, IsActive
<1>6. OneGrantPerKey'
  BY <1>4, <1>5 DEF OneGrantPerKey, IsActive
<1>7. ASSUME NEW c \in Conns, ticket'[c] \in {"issued", "redeemed"}
      PROVE  via[c] \in Grants \ gs /\ ticket[c] = ticket'[c] /\ IsActive(via[c])
  <2>1. c \notin Through(gs) /\ ticket[c] = ticket'[c]
    BY <1>7 DEF RevokeTickets
  <2> QED BY <1>7, <2>1 DEF TicketIsCurrent, TicketHasGrant, Through
<1>8. TicketIsCurrent'
  BY <1>4, <1>7 DEF TicketIsCurrent, IsActive
<1>9. ASSUME NEW c \in Conns, relay'[c] \in {"opening", "active"}
      PROVE  ticket'[c] = "redeemed" /\ Authorised(via[c])'
  <2>1. c \notin cs /\ relay[c] = relay'[c]
    BY <1>9 DEF MarkClosing
  <2>2. ticket'[c] = "redeemed" /\ Authorised(via[c])
    BY <1>9, <2>1 DEF RelayIsAuthorised, RevokeTickets
  <2>3. grant'[via[c]] = grant[via[c]]
    BY <1>4, <1>7, <2>2
  <2> QED BY <1>9, <2>1, <2>2, <2>3 DEF Authorised, IsActive
<1> QED BY <1>1, <1>2, <1>3, <1>6, <1>8, <1>9 DEF RelayIsAuthorised

LEMMA RevokesPolicy ==
  ASSUME PolicyInv,
         \/ \E bs \in SUBSET Branches, force \in BOOLEAN : RevokeAccess(bs, force)
         \/ \E g \in Grants : RevokeGrant(g)
         \/ \E k \in Keys : RevokeKey(k)
  PROVE  PolicyInv'
<1>0. \A c \in Conns : relay[c] \in {"opening", "active"} => via[c] \in Grants /\ Authorised(via[c])
  BY DEF PolicyInv, PolicyTypeOK, RelayIsAuthorised, TicketHasGrant
<1>1. ASSUME NEW bs \in SUBSET Branches, NEW force \in BOOLEAN, RevokeAccess(bs, force)
      PROVE  PolicyInv'
  <2>1. access' \in [Branches -> {"missing", "blocked", "enabled"}]
    BY <1>1 DEF RevokeAccess, PolicyInv, PolicyTypeOK
  <2>2. ASSUME NEW c \in Conns \ Through(GrantsOn(bs)), relay[c] \in {"opening", "active"}
        PROVE  /\ access'[grant[via[c]].branch] = access[grant[via[c]].branch]
               /\ grant[via[c]].key \in activeKeys'
    <3>1. grant[via[c]].branch \in Branches \ bs
      BY <1>0, <2>2 DEF Through, GrantsOn, Authorised, IsActive, PolicyInv, PolicyTypeOK
    <3> QED BY <1>0, <1>1, <2>2, <3>1 DEF RevokeAccess, Authorised
  <2> QED
    BY <1>1, <2>1, <2>2, RevocationKeepsPolicy DEF RevokeAccess, GrantsOn, Through, PolicyInv, PolicyTypeOK
<1>2. ASSUME NEW g \in Grants, RevokeGrant(g)
      PROVE  PolicyInv'
  <2>1. g \in Alike(g)
    BY <1>2 DEF RevokeGrant, Alike, GrantsOf, GrantsOn, IsActive
  <2>2. Through({g}) \subseteq Through(Alike(g)) /\ Through(Alike(g)) \subseteq Conns
    BY <2>1 DEF Through
  <2>3. ASSUME NEW c \in Conns, relay[c] \in {"opening", "active"}
        PROVE  grant[via[c]].key \in activeKeys'
    BY <1>0, <1>2, <2>3 DEF RevokeGrant, Authorised
  <2> QED
    BY <1>2, <2>2, <2>3, RevocationKeepsPolicy DEF RevokeGrant, PolicyInv, PolicyTypeOK
<1>3. ASSUME NEW k \in Keys, RevokeKey(k)
      PROVE  PolicyInv'
  <2>1. ASSUME NEW c \in Conns \ Through(GrantsOf(k)), relay[c] \in {"opening", "active"}
        PROVE  grant[via[c]].key \in activeKeys'
    <3>1. grant[via[c]].key # k
      BY <1>0, <2>1 DEF Through, GrantsOf, Authorised, IsActive
    <3> QED BY <1>0, <1>3, <2>1, <3>1 DEF RevokeKey, Authorised
  <2> QED
    BY <1>3, <2>1, RevocationKeepsPolicy DEF RevokeKey, GrantsOf, Through, PolicyInv, PolicyTypeOK
<1> QED BY <1>1, <1>2, <1>3

(* Any transaction keeps the invariant of the rows.                         *)
THEOREM PolicyStepKeeps ==
  ASSUME PolicyInv, PolicyStep \/ UNCHANGED policyVars
  PROVE  PolicyInv'
<1>1. CASE PolicyStep
  BY <1>1, OpensPolicy, RelaysPolicy, LeavesPolicy, RevokesPolicy DEF PolicyStep
<1>2. CASE UNCHANGED policyVars
  BY <1>2 DEF policyVars, PolicyInv, PolicyTypeOK, TicketHasGrant, TicketIsCurrent, OneGrantPerKey,
              RelayHasTicket, RelayIsAuthorised, Authorised, IsActive
<1> QED BY <1>1, <1>2

-----------------------------------------------------------------------------
(* What no transaction undoes.  A closed relay stays closed, a closing one   *)
(* closes, a revoked ticket opens nothing, and the grant of a ticket is      *)
(* never exchanged.                                                         *)
RowStays(c) ==
  /\ relay[c] # "none" => relay'[c] # "none"
  /\ relay[c] = "closed" => relay'[c] = "closed"
  /\ relay[c] = "closing" => relay'[c] \in {"closing", "closed"}
  /\ ticket[c] = "revoked" => ticket'[c] = "revoked"
  /\ relay[c] = "none" /\ ticket[c] = "revoked" => relay'[c] = "none"
  /\ via[c] # NoGrant => via'[c] = via[c]

(* Whatever transaction of packages/ssh/src/host runs between two awaits of *)
(* the gateway, no row of a connection is reopened or exchanged.             *)
THEOREM RowsOnlyClose ==
  ASSUME PolicyInv, PolicyStep \/ UNCHANGED policyVars, NEW c \in Conns
  PROVE  RowStays(c)
<1> USE DEF RowStays, PolicyInv, PolicyTypeOK, TicketHasGrant, RelayHasTicket
<1>1. CASE \E b \in Branches : InitializeBlocked(b) \/ Enable(b) \/ BranchChanges(b)
  BY <1>1 DEF InitializeBlocked, Enable, BranchChanges
<1>2. CASE \E g \in Grants, k \in Keys, b \in Branches : BindGrant(g, k, b)
  BY <1>2 DEF BindGrant
<1>3. CASE \E d \in Conns, g \in Grants : IssueTicket(d, g)
  BY <1>3 DEF IssueTicket
<1>4. CASE \E d \in Conns : RedeemTicket(d) \/ ActivateRelay(d) \/ CloseRelay(d)
  BY <1>4 DEF RedeemTicket, ActivateRelay, CloseRelay
<1>6. ASSUME NEW cs, NEW ts, MarkClosing(cs), RevokeTickets(ts), UNCHANGED via
      PROVE  RowStays(c)
  BY <1>6 DEF RevokeTickets, MarkClosing
<1>5. CASE \/ \E bs \in SUBSET Branches, force \in BOOLEAN : RevokeAccess(bs, force)
           \/ \E g \in Grants : RevokeGrant(g)
           \/ \E k \in Keys : RevokeKey(k)
  BY <1>5, <1>6 DEF RevokeAccess, RevokeGrant, RevokeKey
<1>7. CASE RecoverRelays \/ \E cs \in SUBSET Conns : ConfirmClosed(cs)
  BY <1>7 DEF RecoverRelays, MarkClosing, ConfirmClosed
<1>8. CASE UNCHANGED policyVars
  BY <1>8 DEF policyVars
<1> QED BY <1>1, <1>2, <1>3, <1>4, <1>5, <1>6, <1>7, <1>8 DEF PolicyStep

-----------------------------------------------------------------------------
(* Every step is a transaction of SshPolicy, or leaves the rows alone.      *)
LEMMA StepIsPolicyStep == ASSUME TypeOK, [Next]_vars PROVE PolicyStep \/ UNCHANGED policyVars
<1> USE DEF PolicyStep
<1>1. ASSUME NEW c \in Conns, SetupStep(c)
      PROVE  PolicyStep \/ UNCHANGED policyVars
  BY <1>1 DEF SetupStep, Redeem, RedeemFails, Register, RejectRegistration, Activate, Dial, Stream, SetupFails
<1>2. ASSUME NEW c \in Conns, Closing(c)
      PROVE  PolicyStep \/ UNCHANGED policyVars
  BY <1>2 DEF Closing, PersistClosure, ClosureFails
<1>3. ASSUME NEW c \in Conns,
             \/ \E p \in Procs, g \in Grants : Authenticate(c, p, g)
             \/ OpenShell(c) \/ Disconnect(c) \/ TombstoneExpires(c)
      PROVE  PolicyStep \/ UNCHANGED policyVars
  BY <1>3 DEF Authenticate, OpenShell, Disconnect, TombstoneExpires
<1>4. ASSUME NEW r \in Reqs, NEW p \in Procs, Ask(r, p)
      PROVE  PolicyStep \/ UNCHANGED policyVars
  <2>1. CASE AskAccess(r, p)
    <3>1. PICK bs \in {{b} : b \in Branches} \cup {Branches}, force \in BOOLEAN : RevokeAccess(bs, force)
      BY <2>1 DEF AskAccess
    <3> QED BY <3>1
  <2>2. CASE AskGrant(r, p)
    BY <2>2 DEF AskGrant
  <2>3. CASE AskKey(r, p)
    BY <2>3 DEF AskKey
  <2> QED BY <1>4, <2>1, <2>2, <2>3 DEF Ask
<1>5. ASSUME NEW r \in Reqs, RequestStep(r)
      PROVE  PolicyStep \/ UNCHANGED policyVars
  <2>1. request[r].selected \in SUBSET Conns
    BY DEF TypeOK
  <2>2. CASE Confirm(r)
    BY <2>1, <2>2 DEF Confirm
  <2>3. CASE CloseSelected(r) \/ ConfirmFails(r)
    BY <2>3 DEF CloseSelected, ConfirmFails
  <2> QED BY <1>5, <2>2, <2>3 DEF RequestStep
<1>6. CASE Administer
  BY <1>6 DEF Administer
<1>7. CASE BranchStatusChanges
  BY <1>7 DEF BranchStatusChanges
<1>8. ASSUME NEW p \in Procs,
             \/ Start(p) \/ Recover(p) \/ ConfirmRecovery(p) \/ Listen(p)
             \/ Stop(p) \/ Release(p) \/ SessionEnds(p) \/ FailStop(p) \/ Exit(p)
      PROVE  PolicyStep \/ UNCHANGED policyVars
  BY <1>8 DEF Start, Recover, ConfirmRecovery, Listen, Stop, Release, SessionEnds, FailStop, Exit
<1>9. CASE UNCHANGED vars
  BY <1>9 DEF vars
<1> QED BY <1>1, <1>2, <1>3, <1>4, <1>5, <1>6, <1>7, <1>8, <1>9 DEF Next

-----------------------------------------------------------------------------
(* The variables of the processes keep their types, action by action.       *)
RequestRows ==
  [phase : {"idle", "marked", "closed", "confirmed", "failed"},
   proc : Procs \cup {NoProc}, selected : SUBSET Conns, scope : SUBSET Conns]

LEMMA CloseTypes ==
  ASSUME TypeOK, NEW cs \in SUBSET Conns, NEW origin, Close(cs, origin)
  PROVE  /\ registry' \in [Conns -> {"absent", "registered", "dialing", "active"}]
         /\ tombs' \subseteq Conns /\ gone' \subseteq Conns
         /\ upstream' \subseteq Conns /\ closures' \subseteq Conns
  BY DEF TypeOK, Close

LEMMA ConnectionTypes ==
  ASSUME TypeOK, PolicyTypeOK', NEW c \in Conns,
         \/ \E p \in Procs, g \in Grants : Authenticate(c, p, g)
         \/ OpenShell(c) \/ Disconnect(c) \/ TombstoneExpires(c)
         \/ SetupStep(c) \/ Closing(c)
  PROVE  TypeOK'
<1> USE DEF TypeOK, runtimeVars
<1>1. CASE \E p \in Procs, g \in Grants : Authenticate(c, p, g)
  BY <1>1 DEF Authenticate
<1>2. CASE OpenShell(c) \/ TombstoneExpires(c)
  BY <1>2 DEF OpenShell, TombstoneExpires
<1>3. CASE Disconnect(c)
  <2>1. CASE setup[c] \in {"ticketed", "redeeming", "redeemed"}
    BY <1>3, <2>1 DEF Disconnect
  <2>2. CASE Close({c}, "natural")
    BY <1>3, <2>2, CloseTypes DEF Disconnect
  <2> QED BY <1>3, <2>1, <2>2 DEF Disconnect
<1>4. CASE Redeem(c) \/ RedeemFails(c)
  BY <1>4 DEF Redeem, RedeemFails
<1>5. CASE Register(c) \/ RejectRegistration(c)
  BY <1>5 DEF Register, RejectRegistration
<1>6. CASE Activate(c) \/ Dial(c) \/ Stream(c)
  BY <1>6 DEF Activate, Dial, Stream
<1>7. CASE SetupFails(c)
  BY <1>7, CloseTypes DEF SetupFails
<1>8. CASE PersistClosure(c) \/ ClosureFails(c)
  BY <1>8 DEF PersistClosure, ClosureFails
<1> QED BY <1>1, <1>2, <1>3, <1>4, <1>5, <1>6, <1>7, <1>8 DEF SetupStep, Closing

LEMMA RequestTypes ==
  ASSUME TypeOK, PolicyTypeOK', NEW r \in Reqs,
         RequestStep(r) \/ \E p \in Procs : Ask(r, p)
  PROVE  TypeOK'
<1> USE DEF TypeOK, RequestRows, runtimeVars, localVars
<1>1. ASSUME NEW p \in Procs, Ask(r, p)
      PROVE  TypeOK'
  <2>1. ASSUME NEW cs \in SUBSET Conns, Committed(r, p, cs)
        PROVE  request' \in [Reqs -> RequestRows]
    BY <2>1 DEF Committed
  <2>2. ASSUME AnswerLost(r, p)
        PROVE  request' \in [Reqs -> RequestRows]
    BY <2>2 DEF AnswerLost, NoRequest
  <2>3. \A gs : Through(gs) \in SUBSET Conns
    BY DEF Through
  <2>4. request' \in [Reqs -> RequestRows]
    BY <1>1, <2>1, <2>2, <2>3 DEF Ask, AskAccess, AskGrant, AskKey
  <2> QED BY <1>1, <2>4 DEF Ask
<1>2. CASE CloseSelected(r)
  <2>1. request[r].selected \cap Mine(request[r].proc) \in SUBSET Conns
    BY DEF Mine
  <2>2. request' \in [Reqs -> RequestRows]
    BY <1>2 DEF CloseSelected
  <2> QED BY <1>2, <2>1, <2>2, CloseTypes DEF CloseSelected
<1>3. CASE Confirm(r) \/ ConfirmFails(r)
  <2>1. request' \in [Reqs -> RequestRows]
    BY <1>3 DEF Confirm, ConfirmFails
  <2> QED BY <1>3, <2>1 DEF Confirm, ConfirmFails
<1> QED BY <1>1, <1>2, <1>3 DEF RequestStep

LEMMA ProcessTypes ==
  ASSUME TypeOK, PolicyTypeOK',
         \/ Administer \/ BranchStatusChanges
         \/ \E p \in Procs :
              \/ Start(p) \/ Recover(p) \/ ConfirmRecovery(p) \/ Listen(p)
              \/ Stop(p) \/ Release(p) \/ SessionEnds(p) \/ FailStop(p) \/ Exit(p)
  PROVE  TypeOK'
<1> USE DEF TypeOK, RequestRows, runtimeVars, localVars
<1>1. CASE Administer \/ BranchStatusChanges
  BY <1>1 DEF Administer, BranchStatusChanges
<1>2. ASSUME NEW p \in Procs, Start(p) \/ Release(p) \/ SessionEnds(p)
      PROVE  TypeOK'
  BY <1>2 DEF Start, Release, SessionEnds
<1>3. ASSUME NEW p \in Procs, Recover(p) \/ ConfirmRecovery(p) \/ Listen(p)
      PROVE  TypeOK'
  BY <1>3 DEF Recover, ConfirmRecovery, Listen, Goes
<1>4. ASSUME NEW p \in Procs, Stop(p) \/ FailStop(p)
      PROVE  TypeOK'
  BY <1>4 DEF Stop, FailStop, Goes, StopGateway, Mine
<1>5. ASSUME NEW p \in Procs, Exit(p)
      PROVE  TypeOK'
  <2>1. request' \in [Reqs -> RequestRows]
    BY <1>5 DEF Exit
  <2> QED BY <1>5, <2>1 DEF Exit, Mine
<1> QED BY <1>1, <1>2, <1>3, <1>4, <1>5

-----------------------------------------------------------------------------
(* The connections of a process, between two awaits.                        *)
SetupShape ==
  \A c \in Conns :
    /\ Registered(c) => owner[c] \in Procs /\ phase[owner[c]] = "serving" /\ c \notin closures
    /\ setup[c] # "idle" => owner[c] \in Procs
    /\ c \in upstream => registry[c] \in {"dialing", "active"}
    /\ registry[c] = "registered" => setup[c] \in {"activating", "activated"}
    /\ setup[c] \in {"idle", "ticketed", "redeeming", "redeemed"} => ~ Registered(c) /\ c \notin closures
    /\ InSetup(c) \/ c \in closures => owner[c] \in Procs /\ Up(owner[c])
    /\ \/ setup[c] \in {"redeemed", "activating", "activated", "dialing"}
       \/ Registered(c) \/ c \in closures
       => relay[c] # "none"

(* A process whose session has not ended under it holds the lock.           *)
HoldsLock == \A p \in Procs \ severed : Up(p) => lock = p

LEMMA SetupShapeKept ==
  ASSUME TypeOK, SetupShape, [Next]_vars, \A c \in Conns : RowStays(c)
  PROVE  SetupShape'
<1> USE GatewayAssumption DEF TypeOK, PolicyTypeOK, SetupShape, RowStays, Registered, InSetup, Up
<1>1. ASSUME NEW c \in Conns, NEW p \in Procs, NEW g \in Grants, Authenticate(c, p, g)
      PROVE  SetupShape'
  BY <1>1 DEF Authenticate, runtimeVars
<1>2. ASSUME NEW c \in Conns, OpenShell(c) \/ TombstoneExpires(c)
      PROVE  SetupShape'
  BY <1>2 DEF OpenShell, TombstoneExpires, runtimeVars
<1>3. ASSUME NEW c \in Conns, Disconnect(c)
      PROVE  SetupShape'
  <2>1. CASE setup[c] \in {"ticketed", "redeeming", "redeemed"}
    BY <1>3, <2>1 DEF Disconnect, runtimeVars
  <2>2. CASE setup[c] \notin {"ticketed", "redeeming", "redeemed"}
    BY <1>3, <2>2 DEF Disconnect, Close, runtimeVars
  <2> QED BY <2>1, <2>2
<1>4. ASSUME NEW c \in Conns, Redeem(c) \/ RedeemFails(c)
      PROVE  SetupShape'
  BY <1>4 DEF Redeem, RedeemFails, RedeemTicket, runtimeVars
<1>5. ASSUME NEW c \in Conns, Register(c) \/ RejectRegistration(c)
      PROVE  SetupShape'
  BY <1>5 DEF Register, RejectRegistration, MayRegister, runtimeVars
<1>6. ASSUME NEW c \in Conns, Activate(c) \/ Dial(c) \/ Stream(c)
      PROVE  SetupShape'
  BY <1>6 DEF Activate, Dial, Stream, runtimeVars
<1>7. ASSUME NEW c \in Conns, SetupFails(c)
      PROVE  SetupShape'
  BY <1>7 DEF SetupFails, Close, runtimeVars
<1>8. ASSUME NEW c \in Conns, Closing(c)
      PROVE  SetupShape'
  BY <1>8 DEF Closing, PersistClosure, ClosureFails, runtimeVars
<1>9. ASSUME NEW r \in Reqs, RequestStep(r) \/ \E p \in Procs : Ask(r, p)
      PROVE  SetupShape'
  <2>1. CASE CloseSelected(r)
    BY <2>1 DEF CloseSelected, Close, Mine, runtimeVars
  <2>2. CASE Confirm(r) \/ ConfirmFails(r) \/ \E p \in Procs : Ask(r, p)
    BY <2>2 DEF Confirm, ConfirmFails, Ask, runtimeVars, localVars
  <2> QED BY <1>9, <2>1, <2>2 DEF RequestStep
<1>10. CASE Administer \/ BranchStatusChanges \/ UNCHANGED vars
  BY <1>10 DEF Administer, BranchStatusChanges, vars, runtimeVars, localVars
<1>11. ASSUME NEW p \in Procs, Start(p) \/ Release(p) \/ SessionEnds(p)
      PROVE  SetupShape'
  BY <1>11 DEF Start, Release, SessionEnds, localVars, Mine
<1>12. ASSUME NEW p \in Procs, Recover(p) \/ ConfirmRecovery(p) \/ Listen(p)
      PROVE  SetupShape'
  BY <1>12 DEF Recover, ConfirmRecovery, Listen, Goes, localVars
<1>13. ASSUME NEW p \in Procs, Stop(p) \/ FailStop(p)
      PROVE  SetupShape'
  BY <1>13 DEF Stop, FailStop, Goes, StopGateway, Mine
<1>14. ASSUME NEW p \in Procs, Exit(p)
      PROVE  SetupShape'
  BY <1>14 DEF Exit, Mine
<1> QED
  BY <1>1, <1>2, <1>3, <1>4, <1>5, <1>6, <1>7, <1>8, <1>9, <1>10, <1>11, <1>12, <1>13, <1>14
  DEF Next, SetupStep

LEMMA HoldsLockKept ==
  ASSUME TypeOK, HoldsLock, [Next]_vars
  PROVE  HoldsLock'
<1> USE GatewayAssumption DEF TypeOK, HoldsLock, Up
<1>1. CASE UNCHANGED <<lock, phase, severed>>
  BY <1>1
<1>2. ASSUME NEW c \in Conns, ClosureFails(c)
      PROVE  HoldsLock'
  BY <1>2 DEF ClosureFails
<1>3. ASSUME NEW p \in Procs, Start(p) \/ Release(p) \/ SessionEnds(p)
      PROVE  HoldsLock'
  BY <1>3 DEF Start, Release, SessionEnds
<1>4. ASSUME NEW p \in Procs, Recover(p) \/ ConfirmRecovery(p) \/ Listen(p) \/ Stop(p) \/ FailStop(p)
      PROVE  HoldsLock'
  BY <1>4 DEF Recover, ConfirmRecovery, Listen, Stop, FailStop, Goes
<1>5. ASSUME NEW p \in Procs, Exit(p)
      PROVE  HoldsLock'
  BY <1>5 DEF Exit
<1>6. ASSUME NEW c \in Conns,
             \/ \E p \in Procs, g \in Grants : Authenticate(c, p, g)
             \/ OpenShell(c) \/ Disconnect(c) \/ TombstoneExpires(c) \/ SetupStep(c)
      PROVE  UNCHANGED <<lock, phase, severed>>
  BY <1>6 DEF Authenticate, OpenShell, Disconnect, TombstoneExpires, SetupStep, Redeem, RedeemFails,
     Register, RejectRegistration, Activate, Dial, Stream, SetupFails, runtimeVars
<1>7. ASSUME \/ \E r \in Reqs : RequestStep(r) \/ \E p \in Procs : Ask(r, p)
             \/ \E c \in Conns : PersistClosure(c)
             \/ Administer \/ BranchStatusChanges \/ UNCHANGED vars
      PROVE  UNCHANGED <<lock, phase, severed>>
  BY <1>7 DEF RequestStep, CloseSelected, Confirm, ConfirmFails, Ask, PersistClosure, Administer,
     BranchStatusChanges, vars, runtimeVars
<1> QED BY <1>1, <1>2, <1>3, <1>4, <1>5, <1>6, <1>7 DEF Next, Closing

-----------------------------------------------------------------------------
(* A process that has confirmed its recovery finds the relays of all others *)
(* closed, and they stay so: nobody else is up to open one.                  *)
OthersAreClosed ==
  \A p \in Procs, c \in Conns :
    lock = p /\ owner[c] # p /\ owner[c] \notin severed =>
      /\ phase[p] \in {"verifying", "serving"} => relay[c] \in {"none", "closed"}
      /\ phase[p] = "confirming" => relay[c] \in {"none", "closing", "closed"}

LEMMA RowsOpenByRedeeming ==
  ASSUME TypeOK, [Next]_vars, NEW c \in Conns, relay[c] = "none",
         \A d \in Conns : ~ (Redeem(d) \/ RedeemFails(d))
  PROVE  relay'[c] = "none"
<1> USE DEF TypeOK, PolicyTypeOK
<1>2. ASSUME NEW d \in Conns, Activate(d) \/ SetupFails(d) \/ PersistClosure(d)
      PROVE  relay'[c] = "none"
  BY <1>2 DEF Activate, SetupFails, PersistClosure, ActivateRelay, CloseRelay, policyVars
<1>3. ASSUME NEW r \in Reqs, RequestStep(r)
      PROVE  relay'[c] = "none"
  BY <1>3 DEF RequestStep, CloseSelected, Confirm, ConfirmFails, ConfirmClosed, policyVars
<1>4. ASSUME NEW cs, MarkClosing(cs)
      PROVE  relay'[c] = "none"
  BY <1>4 DEF MarkClosing
<1>5. ASSUME NEW r \in Reqs, NEW p \in Procs, Ask(r, p)
      PROVE  relay'[c] = "none"
  BY <1>4, <1>5 DEF Ask, AskAccess, AskGrant, AskKey, RevokeAccess, RevokeGrant, RevokeKey
<1>6. ASSUME NEW p \in Procs, Recover(p) \/ ConfirmRecovery(p)
      PROVE  relay'[c] = "none"
  BY <1>4, <1>6 DEF Recover, RecoverRelays, ConfirmRecovery, ConfirmClosed
<1>7. ASSUME NEW d \in Conns,
             \/ \E p \in Procs, g \in Grants : Authenticate(d, p, g)
             \/ OpenShell(d) \/ Disconnect(d) \/ TombstoneExpires(d)
             \/ Register(d) \/ RejectRegistration(d) \/ Dial(d) \/ Stream(d) \/ ClosureFails(d)
      PROVE  UNCHANGED relay
  BY <1>7 DEF Authenticate, IssueTicket, OpenShell, Disconnect, TombstoneExpires, Register,
     RejectRegistration, Dial, Stream, ClosureFails, policyVars
<1>8. ASSUME NEW p \in Procs,
             \/ Start(p) \/ Listen(p) \/ Stop(p) \/ Release(p)
             \/ SessionEnds(p) \/ FailStop(p) \/ Exit(p)
      PROVE  UNCHANGED relay
  BY <1>8 DEF Start, Listen, Stop, Release, SessionEnds, FailStop, Exit, policyVars
<1>9. ASSUME Administer \/ BranchStatusChanges \/ UNCHANGED vars
      PROVE  UNCHANGED relay
  BY <1>9 DEF Administer, InitializeBlocked, Enable, BindGrant, BranchStatusChanges, BranchChanges,
     vars, policyVars
<1> QED
  BY <1>2, <1>3, <1>5, <1>6, <1>7, <1>8, <1>9 DEF Next, SetupStep, Closing

LEMMA RowsOpenInSetup ==
  ASSUME TypeOK, [Next]_vars, NEW c \in Conns, relay[c] = "none", setup[c] # "redeeming"
  PROVE  relay'[c] = "none"
<1>1. ASSUME NEW d \in Conns, Redeem(d) \/ RedeemFails(d)
      PROVE  relay'[c] = "none"
  BY <1>1 DEF Redeem, RedeemFails, RedeemTicket, policyVars, TypeOK, PolicyTypeOK
<1> QED BY <1>1, RowsOpenByRedeeming

(* An owner is assigned once, by a process that serves.                     *)
LEMMA OwnerStays ==
  ASSUME TypeOK, [Next]_vars, NEW c \in Conns
  PROVE  \/ owner'[c] = owner[c]
         \/ /\ owner[c] = NoProc /\ ticket[c] = "none"
            /\ owner'[c] \in Procs /\ phase[owner'[c]] = "serving"
            /\ UNCHANGED <<phase, lock, severed, relay>>
<1>1. ASSUME NEW d \in Conns, NEW p \in Procs, NEW g \in Grants, Authenticate(d, p, g)
      PROVE  \/ owner'[c] = owner[c]
             \/ /\ owner[c] = NoProc /\ ticket[c] = "none"
                /\ owner'[c] \in Procs /\ phase[owner'[c]] = "serving"
                /\ UNCHANGED <<phase, lock, severed, relay>>
  BY <1>1 DEF Authenticate, IssueTicket, TypeOK, runtimeVars
<1>2. ASSUME NEW d \in Conns,
             \/ OpenShell(d) \/ Disconnect(d) \/ TombstoneExpires(d) \/ SetupStep(d) \/ Closing(d)
      PROVE  UNCHANGED owner
  BY <1>2 DEF OpenShell, Disconnect, TombstoneExpires, SetupStep, Redeem, RedeemFails, Register,
     RejectRegistration, Activate, Dial, Stream, SetupFails, Closing, PersistClosure, ClosureFails
<1>3. ASSUME \/ \E r \in Reqs : RequestStep(r) \/ \E p \in Procs : Ask(r, p)
             \/ Administer \/ BranchStatusChanges \/ UNCHANGED vars
      PROVE  UNCHANGED owner
  BY <1>3 DEF RequestStep, CloseSelected, Confirm, ConfirmFails, Ask, Administer, BranchStatusChanges, vars
<1>4. ASSUME NEW p \in Procs,
             \/ Start(p) \/ Recover(p) \/ ConfirmRecovery(p) \/ Listen(p)
             \/ Stop(p) \/ Release(p) \/ SessionEnds(p) \/ FailStop(p) \/ Exit(p)
      PROVE  UNCHANGED owner
  BY <1>4 DEF Start, Recover, ConfirmRecovery, Listen, Stop, Release, SessionEnds, FailStop, Exit, Goes
<1> QED BY <1>1, <1>2, <1>3, <1>4 DEF Next

(* How a process gets to where it may rely on its recovery.                 *)
LEMMA RecoveryStep ==
  ASSUME TypeOK, [Next]_vars, NEW p \in Procs, lock' = p, phase'[p] \in {"confirming", "verifying", "serving"}
  PROVE  /\ lock = p /\ severed \subseteq severed'
         /\ \/ phase'[p] = phase[p]
            \/ phase[p] = "verifying" /\ phase'[p] = "serving"
            \/ Recover(p)
            \/ ConfirmRecovery(p)
<1> DEFINE Result == /\ lock = p /\ severed \subseteq severed'
                     /\ \/ phase'[p] = phase[p]
                        \/ phase[p] = "verifying" /\ phase'[p] = "serving"
                        \/ Recover(p)
                        \/ ConfirmRecovery(p)
<1> USE GatewayAssumption DEF TypeOK
<1>1. ASSUME NEW q \in Procs, Start(q) \/ SessionEnds(q) \/ Release(q) \/ Exit(q)
      PROVE  Result
  BY <1>1 DEF Start, SessionEnds, Release, Exit
<1>2. ASSUME NEW q \in Procs, Recover(q) \/ ConfirmRecovery(q)
      PROVE  Result
  <2>1. CASE q = p
    BY <1>2, <2>1 DEF Recover, ConfirmRecovery, Goes
  <2>2. CASE q # p
    BY <1>2, <2>2 DEF Recover, ConfirmRecovery, Goes
  <2> QED BY <2>1, <2>2
<1>3. ASSUME NEW q \in Procs, Listen(q) \/ Stop(q) \/ FailStop(q)
      PROVE  Result
  BY <1>3 DEF Listen, Stop, FailStop, Goes
<1>4. ASSUME NEW c \in Conns, ClosureFails(c)
      PROVE  Result
  BY <1>4 DEF ClosureFails
<1>5. ASSUME UNCHANGED <<lock, phase, severed>>
      PROVE  Result
  BY <1>5
<1>6. ASSUME NEW c \in Conns,
             \/ \E q \in Procs, g \in Grants : Authenticate(c, q, g)
             \/ OpenShell(c) \/ Disconnect(c) \/ TombstoneExpires(c) \/ SetupStep(c) \/ PersistClosure(c)
      PROVE  UNCHANGED <<lock, phase, severed>>
  BY <1>6 DEF Authenticate, OpenShell, Disconnect, TombstoneExpires, SetupStep, Redeem, RedeemFails,
     Register, RejectRegistration, Activate, Dial, Stream, SetupFails, PersistClosure, runtimeVars
<1>7. ASSUME \/ \E r \in Reqs : RequestStep(r) \/ \E q \in Procs : Ask(r, q)
             \/ Administer \/ BranchStatusChanges \/ UNCHANGED vars
      PROVE  UNCHANGED <<lock, phase, severed>>
  BY <1>7 DEF RequestStep, CloseSelected, Confirm, ConfirmFails, Ask, Administer,
     BranchStatusChanges, vars, runtimeVars
<1> QED BY <1>1, <1>2, <1>3, <1>4, <1>5, <1>6, <1>7 DEF Next, Closing

LEMMA OthersAreClosedKept ==
  ASSUME TypeOK, SetupShape, HoldsLock, OthersAreClosed, [Next]_vars, \A c \in Conns : RowStays(c)
  PROVE  OthersAreClosed'
<1> SUFFICES ASSUME NEW p \in Procs, NEW c \in Conns,
                    lock' = p, owner'[c] # p, owner'[c] \notin severed',
                    phase'[p] \in {"confirming", "verifying", "serving"}
             PROVE  /\ phase'[p] \in {"verifying", "serving"} => relay'[c] \in {"none", "closed"}
                    /\ phase'[p] = "confirming" => relay'[c] \in {"none", "closing", "closed"}
  BY DEF OthersAreClosed
<1>1. lock = p /\ severed \subseteq severed'
  BY RecoveryStep
<1>2. owner'[c] = owner[c]
  BY <1>1, OwnerStays DEF HoldsLock, Up
<1>3. owner[c] # p /\ owner[c] \notin severed
  BY <1>1, <1>2
<1>4. setup[c] # "redeeming"
  BY <1>1, <1>3 DEF SetupShape, InSetup, HoldsLock
<1>5. relay[c] = "none" => relay'[c] = "none"
  BY <1>4, RowsOpenInSetup
<1>6. CASE phase'[p] = phase[p] \/ (phase[p] = "verifying" /\ phase'[p] = "serving")
  BY <1>1, <1>3, <1>5, <1>6 DEF OthersAreClosed, RowStays
<1>7. CASE Recover(p)
  <2>1. phase'[p] = "confirming"
    BY <1>7 DEF Recover, Goes, TypeOK
  <2> QED BY <1>7, <2>1 DEF Recover, RecoverRelays, MarkClosing, Revocable, TypeOK, PolicyTypeOK
<1>8. CASE ConfirmRecovery(p)
  <2>1. phase[p] = "confirming" /\ phase'[p] = "verifying"
    BY <1>8 DEF ConfirmRecovery, Goes, TypeOK
  <2> QED BY <1>1, <1>3, <1>8, <2>1 DEF ConfirmRecovery, ConfirmClosed, OthersAreClosed
<1> QED BY <1>6, <1>7, <1>8, RecoveryStep

-----------------------------------------------------------------------------
(* Revocation.  What the first transaction leaves of the connections with a *)
(* ticket through hs, when the tickets through gs are revoked with it.      *)
LEMMA MarkedRows ==
  ASSUME PolicyInv, NEW gs \in SUBSET Grants, NEW hs \in SUBSET Grants,
         RevokeTickets(Through(gs)), MarkClosing(Through(hs)),
         \A h \in hs \ gs : ~ IsActive(h),
         NEW c \in Through(hs)
  PROVE  /\ ticket'[c] = "revoked"
         /\ relay'[c] \in {"none", "closed"} \/ (c \in Revocable /\ relay'[c] = "closing")
         /\ c \in Revocable => relay'[c] = "closing"
<1> USE NoGrantAssumption DEF PolicyInv, PolicyTypeOK, Through
<1>1. ticket[c] # "none" /\ via[c] \in hs
  BY DEF TicketHasGrant
<1>2. ticket[c] = "revoked" \/ via[c] \in gs
  BY <1>1 DEF TicketIsCurrent
<1>3. ticket'[c] = "revoked"
  BY <1>1, <1>2 DEF RevokeTickets
<1> QED BY <1>3 DEF MarkClosing, Revocable

(* The scope of a revocation once its first transaction has committed.      *)
Marked(r, p) ==
  /\ request'[r].phase = "marked" /\ request'[r].proc = p
  /\ \A c \in request'[r].selected : c \in Revocable /\ relay'[c] = "closing"
  /\ \A c \in request'[r].scope :
       /\ ticket'[c] = "revoked"
       /\ relay'[c] \in {"none", "closed"} \/ (c \in request'[r].selected /\ relay'[c] = "closing")

LEMMA AskMarks ==
  ASSUME TypeOK, PolicyInv, NEW r \in Reqs, NEW p \in Procs, Ask(r, p), request'[r].phase # "failed"
  PROVE  Marked(r, p)
<1>1. ASSUME NEW cs, AnswerLost(r, p) \/ Committed(r, p, cs)
      PROVE  /\ request'[r].phase = "marked" /\ request'[r].proc = p
             /\ request'[r].selected = cs \cap Revocable /\ request'[r].scope = cs
  <2>1. ~ AnswerLost(r, p)
    BY DEF AnswerLost, NoRequest, TypeOK
  <2> QED BY <1>1, <2>1 DEF Committed, TypeOK
<1>2. ASSUME NEW gs \in SUBSET Grants, NEW hs \in SUBSET Grants,
             RevokeTickets(Through(gs)), MarkClosing(Through(hs)), \A h \in hs \ gs : ~ IsActive(h),
             Committed(r, p, Through(hs)) \/ AnswerLost(r, p)
      PROVE  Marked(r, p)
  <2>1. \A c \in Through(hs) :
          /\ ticket'[c] = "revoked"
          /\ relay'[c] \in {"none", "closed"} \/ (c \in Revocable /\ relay'[c] = "closing")
          /\ c \in Revocable => relay'[c] = "closing"
    BY <1>2, MarkedRows
  <2>2. /\ request'[r].phase = "marked" /\ request'[r].proc = p
        /\ request'[r].selected = Through(hs) \cap Revocable /\ request'[r].scope = Through(hs)
    BY <1>1, <1>2
  <2> QED BY <2>1, <2>2 DEF Marked
<1>3. CASE AskAccess(r, p)
  <2>1. \A bs : GrantsOn(bs) \in SUBSET Grants
    BY DEF GrantsOn
  <2>2. PICK bs, force :
          RevokeAccess(bs, force) /\ (Committed(r, p, Through(GrantsOn(bs))) \/ AnswerLost(r, p))
    BY <1>3 DEF AskAccess
  <2>3. RevokeTickets(Through(GrantsOn(bs))) /\ MarkClosing(Through(GrantsOn(bs)))
    BY <2>2 DEF RevokeAccess
  <2>4. \A h \in GrantsOn(bs) \ GrantsOn(bs) : ~ IsActive(h)
    OBVIOUS
  <2> QED BY <1>2, <2>1, <2>2, <2>3, <2>4
<1>4. CASE AskGrant(r, p)
  <2>1. PICK g \in Grants : RevokeGrant(g) /\ (Committed(r, p, Through(Alike(g))) \/ AnswerLost(r, p))
    BY <1>4 DEF AskGrant
  <2>2. Alike(g) \in SUBSET Grants /\ {g} \in SUBSET Grants
    BY DEF Alike, GrantsOf
  <2>3. \A h \in Alike(g) \ {g} : ~ IsActive(h)
    BY <2>1 DEF RevokeGrant, Alike, GrantsOf, PolicyInv, OneGrantPerKey
  <2>4. RevokeTickets(Through({g})) /\ MarkClosing(Through(Alike(g)))
    BY <2>1 DEF RevokeGrant
  <2> QED BY <1>2, <2>1, <2>2, <2>3, <2>4
<1>5. CASE AskKey(r, p)
  <2>1. \A k : GrantsOf(k) \in SUBSET Grants
    BY DEF GrantsOf
  <2>2. PICK k : RevokeKey(k) /\ (Committed(r, p, Through(GrantsOf(k))) \/ AnswerLost(r, p))
    BY <1>5 DEF AskKey
  <2>3. RevokeTickets(Through(GrantsOf(k))) /\ MarkClosing(Through(GrantsOf(k)))
    BY <2>2 DEF RevokeKey
  <2>4. \A h \in GrantsOf(k) \ GrantsOf(k) : ~ IsActive(h)
    OBVIOUS
  <2> QED BY <1>2, <2>1, <2>2, <2>3, <2>4
<1> QED BY <1>3, <1>4, <1>5 DEF Ask

(* How a request gets to where it has rows to answer for.                   *)
LEMMA RequestProgress ==
  ASSUME TypeOK, [Next]_vars, NEW r \in Reqs, request'[r].phase \in {"marked", "closed", "confirmed"}
  PROVE  \/ request'[r] = request[r]
         \/ \E p \in Procs : Ask(r, p)
         \/ CloseSelected(r)
         \/ Confirm(r)
<1> DEFINE Result == \/ request'[r] = request[r]
                     \/ \E p \in Procs : Ask(r, p)
                     \/ CloseSelected(r)
                     \/ Confirm(r)
<1>1. ASSUME NEW q \in Reqs, NEW p \in Procs, Ask(q, p)
      PROVE  Result
  <2>1. CASE q = r
    BY <1>1, <2>1
  <2>2. CASE q # r
    BY <1>1, <2>2 DEF Ask, AskAccess, AskGrant, AskKey, Committed, AnswerLost, TypeOK
  <2> QED BY <2>1, <2>2
<1>2. ASSUME NEW q \in Reqs, RequestStep(q)
      PROVE  Result
  <2>1. CASE q = r
    BY <1>2, <2>1 DEF RequestStep, ConfirmFails, TypeOK
  <2>2. CASE q # r
    BY <1>2, <2>2 DEF RequestStep, CloseSelected, Confirm, ConfirmFails, TypeOK
  <2> QED BY <2>1, <2>2
<1>3. ASSUME NEW p \in Procs, Exit(p)
      PROVE  Result
  <2>1. CASE request[r].proc = p /\ Pending(r)
    BY <1>3, <2>1 DEF Exit, TypeOK
  <2>2. CASE ~ (request[r].proc = p /\ Pending(r))
    BY <1>3, <2>2 DEF Exit, TypeOK
  <2> QED BY <2>1, <2>2
<1>4. ASSUME NEW c \in Conns,
             \/ \E p \in Procs, g \in Grants : Authenticate(c, p, g)
             \/ OpenShell(c) \/ Disconnect(c) \/ TombstoneExpires(c) \/ SetupStep(c) \/ Closing(c)
      PROVE  UNCHANGED request
  BY <1>4 DEF Authenticate, OpenShell, Disconnect, TombstoneExpires, SetupStep, Redeem, RedeemFails,
     Register, RejectRegistration, Activate, Dial, Stream, SetupFails, Closing, PersistClosure, ClosureFails
<1>5. ASSUME NEW p \in Procs,
             \/ Start(p) \/ Recover(p) \/ ConfirmRecovery(p) \/ Listen(p)
             \/ Stop(p) \/ Release(p) \/ SessionEnds(p) \/ FailStop(p)
      PROVE  UNCHANGED request
  BY <1>5 DEF Start, Recover, ConfirmRecovery, Listen, Stop, Release, SessionEnds, FailStop, Goes
<1>6. ASSUME Administer \/ BranchStatusChanges \/ UNCHANGED vars
      PROVE  UNCHANGED request
  BY <1>6 DEF Administer, BranchStatusChanges, vars
<1> QED BY <1>1, <1>2, <1>3, <1>4, <1>5, <1>6 DEF Next

(* What a revocation is about has no ticket, and no row but those it has    *)
(* still to confirm.                                                        *)
ScopeIsRevoked ==
  \A r \in Reqs : request[r].phase \in {"marked", "closed", "confirmed"} =>
    \A c \in request[r].scope :
      /\ ticket[c] = "revoked"
      /\ \/ relay[c] \in {"none", "closed"}
         \/ request[r].phase # "confirmed" /\ c \in request[r].selected /\ relay[c] = "closing"

LEMMA ScopeIsRevokedKept ==
  ASSUME TypeOK, PolicyInv, ScopeIsRevoked, [Next]_vars, \A c \in Conns : RowStays(c)
  PROVE  ScopeIsRevoked'
<1> SUFFICES ASSUME NEW r \in Reqs, request'[r].phase \in {"marked", "closed", "confirmed"},
                    NEW c \in request'[r].scope
             PROVE  /\ ticket'[c] = "revoked"
                    /\ \/ relay'[c] \in {"none", "closed"}
                       \/ /\ request'[r].phase # "confirmed"
                          /\ c \in request'[r].selected /\ relay'[c] = "closing"
  BY DEF ScopeIsRevoked
<1>1. CASE \E p \in Procs : Ask(r, p)
  BY <1>1, AskMarks DEF Marked
<1>2. ASSUME request'[r].scope = request[r].scope, request'[r].selected = request[r].selected,
             request[r].phase \in {"marked", "closed", "confirmed"}
      PROVE  /\ ticket'[c] = "revoked"
             /\ \/ relay'[c] \in {"none", "closed"}
                \/ /\ request[r].phase # "confirmed"
                   /\ c \in request'[r].selected /\ relay'[c] = "closing"
  BY <1>2 DEF ScopeIsRevoked, RowStays, TypeOK
<1>3. CASE request'[r] = request[r]
  BY <1>2, <1>3
<1>4. CASE CloseSelected(r)
  BY <1>2, <1>4 DEF CloseSelected, TypeOK
<1>5. CASE Confirm(r)
  <2>1. /\ request'[r].scope = request[r].scope /\ request'[r].selected = request[r].selected
        /\ request[r].phase = "closed"
    BY <1>5 DEF Confirm, TypeOK
  <2>2. \A d \in request[r].selected : relay'[d] = "closed"
    BY <1>5 DEF Confirm, ConfirmClosed, TypeOK
  <2> QED BY <1>2, <2>1, <2>2
<1> QED BY <1>1, <1>3, <1>4, <1>5, RequestProgress

-----------------------------------------------------------------------------
(* A relay that will dial, or has dialled.                                  *)
Established(c) ==
  registry[c] \in {"dialing", "active"} \/ (registry[c] = "registered" /\ setup[c] = "activated")

(* As long as no session has ended under its process, it has a row that says *)
(* so, and what a revocation has closed is not established again.            *)
EstablishedHasRow ==
  severed = {} => \A c \in Conns : Established(c) => relay[c] \in {"active", "closing"}

SelectedIsClosing ==
  severed = {} => \A r \in Reqs : Pending(r) => \A c \in request[r].selected :
    /\ owner[c] = request[r].proc /\ relay[c] \in {"closing", "closed"}
    /\ request[r].phase = "closed" => ~ Established(c)

LEMMA EstablishedStep ==
  ASSUME TypeOK, [Next]_vars, NEW c \in Conns, Established(c)'
  PROVE  Established(c) \/ Activate(c)
<1> USE DEF TypeOK, Established
<1>1. ASSUME NEW d \in Conns, Register(d) \/ Activate(d) \/ Dial(d) \/ Stream(d)
      PROVE  Established(c) \/ Activate(c)
  <2>1. CASE d = c
    BY <1>1, <2>1 DEF Register, Dial, Stream
  <2>2. CASE d # c
    BY <1>1, <2>2 DEF Register, Activate, Dial, Stream
  <2> QED BY <2>1, <2>2
<1>2. ASSUME NEW cs, NEW origin, Close(cs, origin),
             \A d \in Conns : setup'[d] = setup[d] \/ setup'[d] = "done"
      PROVE  Established(c)
  BY <1>2 DEF Close
<1>3. ASSUME NEW d \in Conns, Redeem(d) \/ RedeemFails(d) \/ RejectRegistration(d)
      PROVE  Established(c)
  BY <1>3 DEF Redeem, RedeemFails, RejectRegistration
<1>4. ASSUME NEW d \in Conns, SetupFails(d) \/ Disconnect(d)
      PROVE  Established(c)
  BY <1>2, <1>4 DEF SetupFails, Disconnect
<1>5. ASSUME NEW d \in Conns,
             \/ \E p \in Procs, g \in Grants : Authenticate(d, p, g)
             \/ OpenShell(d) \/ TombstoneExpires(d) \/ Closing(d)
      PROVE  Established(c)
  BY <1>5 DEF Authenticate, OpenShell, TombstoneExpires, Closing, PersistClosure, ClosureFails
<1>6. ASSUME NEW r \in Reqs, RequestStep(r) \/ \E p \in Procs : Ask(r, p)
      PROVE  Established(c)
  <2>1. CASE CloseSelected(r)
    BY <1>2, <2>1 DEF CloseSelected
  <2>2. CASE Confirm(r) \/ ConfirmFails(r) \/ \E p \in Procs : Ask(r, p)
    BY <2>2 DEF Confirm, ConfirmFails, Ask, localVars
  <2> QED BY <1>6, <2>1, <2>2 DEF RequestStep
<1>7. CASE Administer \/ BranchStatusChanges \/ UNCHANGED vars
  BY <1>7 DEF Administer, BranchStatusChanges, vars, localVars
<1>8. ASSUME NEW p \in Procs,
             \/ Start(p) \/ Recover(p) \/ ConfirmRecovery(p) \/ Listen(p) \/ Release(p) \/ SessionEnds(p)
      PROVE  Established(c)
  BY <1>8 DEF Start, Recover, ConfirmRecovery, Listen, Release, SessionEnds, localVars
<1>9. ASSUME NEW p \in Procs, Stop(p) \/ FailStop(p) \/ Exit(p)
      PROVE  Established(c)
  BY <1>9 DEF Stop, FailStop, StopGateway, Exit
<1> QED
  BY <1>1, <1>3, <1>4, <1>5, <1>6, <1>7, <1>8, <1>9 DEF Next, SetupStep

(* Who closes a live row.                                                   *)
LEMMA RelayCloses ==
  ASSUME TypeOK, PolicyInv, [Next]_vars, NEW c \in Conns,
         relay[c] \in {"active", "closing"}, relay'[c] \notin {"active", "closing"}
  PROVE  \/ PersistClosure(c)
         \/ \E r \in Reqs : Confirm(r) /\ c \in request[r].selected
         \/ \E p \in Procs : ConfirmRecovery(p)
<1> USE DEF TypeOK, PolicyTypeOK
<1>1. \A d \in Conns : RedeemTicket(d) => d # c
  BY DEF RedeemTicket, PolicyInv, RelayHasTicket
<1>2. ASSUME NEW d \in Conns, Redeem(d) \/ RedeemFails(d)
      PROVE  FALSE
  BY <1>1, <1>2 DEF Redeem, RedeemFails, RedeemTicket, policyVars
<1>3. ASSUME NEW d \in Conns, Activate(d) \/ SetupFails(d)
      PROVE  FALSE
  BY <1>3 DEF Activate, SetupFails, ActivateRelay, policyVars
<1>4. ASSUME NEW d \in Conns, PersistClosure(d)
      PROVE  d = c
  BY <1>4 DEF PersistClosure, CloseRelay
<1>5. ASSUME NEW r \in Reqs, RequestStep(r)
      PROVE  Confirm(r) /\ c \in request[r].selected
  BY <1>5 DEF RequestStep, CloseSelected, Confirm, ConfirmFails, ConfirmClosed, policyVars
<1>6. ASSUME NEW cs, MarkClosing(cs)
      PROVE  FALSE
  BY <1>6 DEF MarkClosing
<1>7. ASSUME NEW r \in Reqs, NEW p \in Procs, Ask(r, p)
      PROVE  FALSE
  BY <1>6, <1>7 DEF Ask, AskAccess, AskGrant, AskKey, RevokeAccess, RevokeGrant, RevokeKey
<1>8. ASSUME NEW p \in Procs, Recover(p)
      PROVE  FALSE
  BY <1>6, <1>8 DEF Recover, RecoverRelays
<1>9. ASSUME NEW d \in Conns,
             \/ \E p \in Procs, g \in Grants : Authenticate(d, p, g)
             \/ OpenShell(d) \/ Disconnect(d) \/ TombstoneExpires(d)
             \/ Register(d) \/ RejectRegistration(d) \/ Dial(d) \/ Stream(d) \/ ClosureFails(d)
      PROVE  FALSE
  BY <1>9 DEF Authenticate, IssueTicket, OpenShell, Disconnect, TombstoneExpires, Register,
     RejectRegistration, Dial, Stream, ClosureFails, policyVars
<1>10. ASSUME NEW p \in Procs,
             \/ Start(p) \/ Listen(p) \/ Stop(p) \/ Release(p)
             \/ SessionEnds(p) \/ FailStop(p) \/ Exit(p)
      PROVE  FALSE
  BY <1>10 DEF Start, Listen, Stop, Release, SessionEnds, FailStop, Exit, policyVars
<1>11. ASSUME Administer \/ BranchStatusChanges \/ UNCHANGED vars
      PROVE  FALSE
  BY <1>11 DEF Administer, InitializeBlocked, Enable, BindGrant, BranchStatusChanges, BranchChanges,
     vars, policyVars
<1> QED
  BY <1>2, <1>3, <1>4, <1>5, <1>7, <1>8, <1>9, <1>10, <1>11 DEF Next, SetupStep, Closing

LEMMA EstablishedHasRowKept ==
  ASSUME TypeOK, PolicyInv, SetupShape, HoldsLock, EstablishedHasRow, SelectedIsClosing,
         [Next]_vars, severed \subseteq severed'
  PROVE  EstablishedHasRow'
<1> SUFFICES ASSUME severed' = {}, NEW c \in Conns, Established(c)'
             PROVE  relay'[c] \in {"active", "closing"}
  BY DEF EstablishedHasRow
<1>1. severed = {}
  OBVIOUS
<1>2. CASE Activate(c)
  BY <1>2 DEF Activate, ActivateRelay, TypeOK, PolicyTypeOK
<1>3. CASE Established(c)
  <2>1. relay[c] \in {"active", "closing"}
    BY <1>1, <1>3 DEF EstablishedHasRow
  <2>2. owner[c] \in Procs /\ phase[owner[c]] = "serving" /\ c \notin closures
    BY <1>3 DEF SetupShape, Established, Registered
  <2>3. ~ PersistClosure(c)
    BY <2>2 DEF PersistClosure
  <2>4. \A r \in Reqs : Confirm(r) => c \notin request[r].selected
    BY <1>1, <1>3 DEF SelectedIsClosing, Confirm, Pending
  <2>5. \A p \in Procs : ~ ConfirmRecovery(p)
    BY <1>1, <2>2 DEF ConfirmRecovery, Goes, HoldsLock, Up
  <2> QED BY <2>1, <2>3, <2>4, <2>5, RelayCloses
<1> QED BY <1>2, <1>3, EstablishedStep

LEMMA SelectedIsClosingKept ==
  ASSUME TypeOK, PolicyInv, SetupShape, HoldsLock, OthersAreClosed, SelectedIsClosing,
         [Next]_vars, severed \subseteq severed', \A c \in Conns : RowStays(c), request' \in [Reqs -> RequestRows]
  PROVE  SelectedIsClosing'
<1> SUFFICES ASSUME severed' = {}, NEW r \in Reqs, Pending(r)', NEW c \in request'[r].selected
             PROVE  /\ owner'[c] = request'[r].proc /\ relay'[c] \in {"closing", "closed"}
                    /\ request'[r].phase = "closed" => ~ Established(c)'
  BY DEF SelectedIsClosing
<1>0. severed = {} /\ c \in Conns
  BY DEF RequestRows
<1>1. ASSUME c \in request[r].selected, request'[r].proc = request[r].proc, Pending(r)
      PROVE  /\ owner'[c] = request'[r].proc /\ relay'[c] \in {"closing", "closed"}
             /\ ~ Established(c) => ~ Established(c)'
  <2>1. owner[c] = request[r].proc /\ relay[c] \in {"closing", "closed"}
    BY <1>0, <1>1 DEF SelectedIsClosing
  <2>2. relay'[c] \in {"closing", "closed"}
    BY <1>0, <2>1 DEF RowStays
  <2>3. owner'[c] = owner[c]
    BY <1>0, <2>1, OwnerStays DEF PolicyInv, RelayHasTicket
  <2>4. ~ Activate(c)
    BY <2>1 DEF Activate, ActivateRelay
  <2> QED BY <1>0, <1>1, <2>1, <2>2, <2>3, <2>4, EstablishedStep
<1>2. CASE request'[r] = request[r]
  BY <1>0, <1>1, <1>2 DEF Pending, SelectedIsClosing
<1>3. CASE CloseSelected(r)
  <2>1. /\ request'[r].selected = request[r].selected /\ request'[r].proc = request[r].proc
        /\ request[r].phase = "marked"
    BY <1>3 DEF CloseSelected, TypeOK
  <2>2. registry'[c] = "absent"
    BY <1>0, <1>3, <2>1 DEF CloseSelected, Close, Mine, Pending, SelectedIsClosing
  <2> QED BY <1>1, <2>1, <2>2 DEF Pending, Established
<1>4. CASE \E p \in Procs : Ask(r, p)
  <2>1. PICK p \in Procs : Ask(r, p)
    BY <1>4
  <2>2. /\ request'[r].phase = "marked" /\ request'[r].proc = p
        /\ c \in Revocable /\ relay'[c] = "closing"
    BY <2>1, AskMarks DEF Marked, Pending
  <2>3. owner[c] = p
    BY <1>0, <2>1, <2>2 DEF Ask, HoldsLock, Up, OthersAreClosed, Revocable
  <2>4. UNCHANGED owner
    BY <2>1 DEF Ask
  <2> QED BY <2>2, <2>3, <2>4
<1>5. ~ Confirm(r)
  BY DEF Confirm, Pending, TypeOK
<1> QED BY <1>2, <1>3, <1>4, <1>5, RequestProgress DEF Pending

-----------------------------------------------------------------------------
(* That a session ended is not forgotten.                                   *)
LEMMA SeveredStays == ASSUME TypeOK, [Next]_vars PROVE severed \subseteq severed'
<1>1. ASSUME NEW c \in Conns,
             \/ \E p \in Procs, g \in Grants : Authenticate(c, p, g)
             \/ OpenShell(c) \/ Disconnect(c) \/ TombstoneExpires(c) \/ SetupStep(c) \/ Closing(c)
      PROVE  UNCHANGED severed
  BY <1>1 DEF Authenticate, OpenShell, Disconnect, TombstoneExpires, SetupStep, Redeem, RedeemFails,
     Register, RejectRegistration, Activate, Dial, Stream, SetupFails, Closing, PersistClosure,
     ClosureFails, runtimeVars
<1>2. ASSUME \/ \E r \in Reqs : RequestStep(r) \/ \E p \in Procs : Ask(r, p)
             \/ Administer \/ BranchStatusChanges \/ UNCHANGED vars
      PROVE  UNCHANGED severed
  BY <1>2 DEF RequestStep, CloseSelected, Confirm, ConfirmFails, Ask, Administer,
     BranchStatusChanges, vars, runtimeVars
<1>3. ASSUME NEW p \in Procs,
             \/ Start(p) \/ Recover(p) \/ ConfirmRecovery(p) \/ Listen(p)
             \/ Stop(p) \/ Release(p) \/ SessionEnds(p) \/ FailStop(p) \/ Exit(p)
      PROVE  severed \subseteq severed'
  BY <1>3 DEF Start, Recover, ConfirmRecovery, Listen, Stop, Release, SessionEnds, FailStop, Exit, Goes
<1> QED BY <1>1, <1>2, <1>3 DEF Next

(* While no write has failed, every open row of a process that has not died  *)
(* is somebody's to close: the setup that awaits its redemption, the         *)
(* registry, a durable closure, or a revocation that has selected it.        *)
Accounted(c) ==
  \/ setup[c] = "redeemed"
  \/ Registered(c)
  \/ c \in closures
  \/ \E r \in Reqs : Pending(r) /\ request[r].proc = owner[c] /\ c \in request[r].selected

OpenIsAccounted ==
  /\ \A r \in Reqs : Pending(r) => request[r].proc \in Procs /\ Up(request[r].proc)
  /\ ~ faulty => \A c \in Conns :
       /\ owner[c] \in Procs /\ phase[owner[c]] # "dead" /\ relay[c] \notin {"none", "closed"}
       => Accounted(c)

LEMMA ProcessStays ==
  ASSUME TypeOK, [Next]_vars, NEW p \in Procs
  PROVE  /\ phase'[p] # "dead" => phase[p] # "dead" /\ ~ Exit(p)
         /\ Up(p) /\ ~ Up(p)' => Release(p) \/ Exit(p)
         /\ faulty => faulty'
<1> USE DEF TypeOK, Up
<1> DEFINE Result == /\ phase'[p] # "dead" => phase[p] # "dead" /\ ~ Exit(p)
                     /\ Up(p) /\ ~ Up(p)' => Release(p) \/ Exit(p)
                     /\ faulty => faulty'
<1>1. ASSUME NEW q \in Procs, Start(q) \/ Release(q) \/ SessionEnds(q) \/ Exit(q)
      PROVE  Result
  BY <1>1 DEF Start, Release, SessionEnds, Exit
<1>2. ASSUME NEW q \in Procs, Recover(q) \/ ConfirmRecovery(q) \/ Listen(q) \/ Stop(q) \/ FailStop(q)
      PROVE  Result
  BY <1>2 DEF Recover, ConfirmRecovery, Listen, Stop, FailStop, Goes, Exit
<1>3. ASSUME NEW c \in Conns, ClosureFails(c)
      PROVE  Result
  BY <1>3 DEF ClosureFails, Exit
<1>4. ASSUME UNCHANGED phase, faulty => faulty'
      PROVE  Result
  BY <1>4 DEF Exit
<1>5. ASSUME NEW c \in Conns,
             \/ \E q \in Procs, g \in Grants : Authenticate(c, q, g)
             \/ OpenShell(c) \/ Disconnect(c) \/ TombstoneExpires(c) \/ SetupStep(c) \/ PersistClosure(c)
      PROVE  UNCHANGED phase /\ (faulty => faulty')
  BY <1>5 DEF Authenticate, OpenShell, Disconnect, TombstoneExpires, SetupStep, Redeem, RedeemFails,
     Register, RejectRegistration, Activate, Dial, Stream, SetupFails, PersistClosure, runtimeVars
<1>6. ASSUME \/ \E r \in Reqs : RequestStep(r) \/ \E q \in Procs : Ask(r, q)
             \/ Administer \/ BranchStatusChanges \/ UNCHANGED vars
      PROVE  UNCHANGED phase /\ (faulty => faulty')
  BY <1>6 DEF RequestStep, CloseSelected, Confirm, ConfirmFails, Ask, Administer, BranchStatusChanges,
     vars, runtimeVars
<1> QED BY <1>1, <1>2, <1>3, <1>4, <1>5, <1>6 DEF Next, Closing

(* A revocation that is still to be confirmed keeps its process from         *)
(* releasing the lock.                                                      *)
LEMMA PendingHasProcess ==
  ASSUME TypeOK, PolicyInv, OpenIsAccounted, [Next]_vars, NEW r \in Reqs, Pending(r)'
  PROVE  request'[r].proc \in Procs /\ Up(request[r].proc)'
<1>1. CASE \E p \in Procs : Ask(r, p)
  <2>1. PICK p \in Procs : Ask(r, p)
    BY <1>1
  <2>2. phase[p] = "serving" /\ UNCHANGED phase
    BY <2>1 DEF Ask, runtimeVars
  <2>3. request'[r].proc = p
    BY <2>1, AskMarks DEF Marked, Pending
  <2> QED BY <2>1, <2>2, <2>3 DEF Up
<1>2. CASE CloseSelected(r)
  <2>1. request'[r].proc = request[r].proc /\ UNCHANGED phase /\ Pending(r)
    BY <1>2 DEF CloseSelected, Pending, TypeOK, runtimeVars
  <2> QED BY <2>1 DEF OpenIsAccounted, Up
<1>3. CASE Confirm(r)
  BY <1>3 DEF Confirm, Pending, TypeOK
<1>4. CASE request'[r] = request[r]
  <2>1. Pending(r) /\ request[r].proc \in Procs /\ Up(request[r].proc)
    BY <1>4 DEF Pending, OpenIsAccounted
  <2>2. ~ Release(request[r].proc)
    BY <2>1 DEF Release
  <2>3. ~ Exit(request[r].proc)
    <3>1. ASSUME Exit(request[r].proc)
          PROVE  request'[r].phase = "failed"
      BY <2>1, <3>1 DEF Exit, TypeOK
    <3> QED BY <3>1 DEF Pending
  <2> QED BY <1>4, <2>1, <2>2, <2>3, ProcessStays
<1> QED BY <1>1, <1>2, <1>3, <1>4, RequestProgress DEF Pending

(* Where the obligation to close a row goes.                                 *)
LEMMA AccountPasses ==
  ASSUME TypeOK, PolicyInv, SetupShape, [Next]_vars, NEW c \in Conns,
         owner[c] \in Procs, UNCHANGED owner[c], ~ Exit(owner[c]), ~ faulty', relay'[c] # "closed",
         Accounted(c)
  PROVE  Accounted(c)'
<1> USE GatewayAssumption DEF TypeOK, PolicyTypeOK, Accounted, Registered, Pending
<1>1. ASSUME NEW d \in Conns, \/ \E p \in Procs, g \in Grants : Authenticate(d, p, g)
                              \/ OpenShell(d) \/ TombstoneExpires(d)
      PROVE  Accounted(c)'
  BY <1>1 DEF Authenticate, OpenShell, TombstoneExpires
<1>2. ASSUME NEW d \in Conns, Disconnect(d)
      PROVE  Accounted(c)'
  BY <1>2 DEF Disconnect, Close
<1>3. ASSUME NEW d \in Conns, Redeem(d) \/ RedeemFails(d) \/ Register(d) \/ RejectRegistration(d)
      PROVE  Accounted(c)'
  BY <1>3 DEF Redeem, RedeemFails, Register, RejectRegistration
<1>4. ASSUME NEW d \in Conns, Activate(d) \/ Dial(d) \/ Stream(d)
      PROVE  Accounted(c)'
  BY <1>4 DEF Activate, Dial, Stream
<1>5. ASSUME NEW d \in Conns, SetupFails(d)
      PROVE  Accounted(c)'
  BY <1>5 DEF SetupFails, Close
<1>6. ASSUME NEW d \in Conns, Closing(d)
      PROVE  Accounted(c)'
  <2>1. CASE PersistClosure(d)
    BY <2>1 DEF PersistClosure, CloseRelay
  <2>2. ~ ClosureFails(d)
    BY DEF ClosureFails
  <2> QED BY <1>6, <2>1, <2>2 DEF Closing
<1>7. ASSUME NEW r \in Reqs, CloseSelected(r)
      PROVE  Accounted(c)'
  BY <1>7 DEF CloseSelected, Close, Mine
<1>8. ASSUME NEW r \in Reqs, Confirm(r) \/ ConfirmFails(r)
      PROVE  Accounted(c)'
  BY <1>8 DEF Confirm, ConfirmFails, ConfirmClosed, localVars
<1>9. ASSUME NEW r \in Reqs, NEW p \in Procs, Ask(r, p)
      PROVE  Accounted(c)'
  <2>1. request[r].phase = "idle" /\ UNCHANGED localVars
    BY <1>9 DEF Ask
  <2>2. \A q \in Reqs : q # r => request'[q] = request[q]
    BY <1>9 DEF Ask, AskAccess, AskGrant, AskKey, Committed, AnswerLost
  <2> QED BY <2>1, <2>2 DEF localVars
<1>10. CASE Administer \/ BranchStatusChanges \/ UNCHANGED vars
  BY <1>10 DEF Administer, BranchStatusChanges, vars, localVars
<1>11. ASSUME NEW p \in Procs,
             \/ Start(p) \/ Recover(p) \/ ConfirmRecovery(p) \/ Listen(p) \/ Release(p) \/ SessionEnds(p)
      PROVE  Accounted(c)'
  BY <1>11 DEF Start, Recover, ConfirmRecovery, Listen, Release, SessionEnds, Goes, localVars
<1>12. ASSUME NEW p \in Procs, Stop(p) \/ FailStop(p)
      PROVE  Accounted(c)'
  BY <1>12 DEF Stop, FailStop, Goes, StopGateway, Mine
<1>13. ASSUME NEW p \in Procs, Exit(p)
      PROVE  Accounted(c)'
  <2>1. p # owner[c]
    BY <1>13
  <2>2. \A r \in Reqs : request[r].proc = owner[c] => request'[r] = request[r]
    BY <1>13, <2>1 DEF Exit
  <2> QED BY <1>13, <2>1, <2>2 DEF Exit, Mine
<1> QED
  BY <1>1, <1>2, <1>3, <1>4, <1>5, <1>6, <1>7, <1>8, <1>9, <1>10, <1>11, <1>12, <1>13
  DEF Next, SetupStep, RequestStep

(* A row is opened by a redemption that is then awaited, or by one whose     *)
(* answer is lost.                                                          *)
LEMMA RowOpens ==
  ASSUME TypeOK, [Next]_vars, NEW c \in Conns, relay[c] = "none", relay'[c] # "none", ~ faulty'
  PROVE  setup'[c] = "redeemed"
<1>1. setup[c] = "redeeming"
  BY RowsOpenInSetup
<1>2. CASE Redeem(c)
  BY <1>2 DEF Redeem, TypeOK
<1>3. ASSUME NEW d \in Conns, d # c, Redeem(d) \/ RedeemFails(d)
      PROVE  FALSE
  BY <1>3 DEF Redeem, RedeemFails, RedeemTicket, policyVars, TypeOK, PolicyTypeOK
<1>4. ~ RedeemFails(c)
  BY DEF RedeemFails, policyVars
<1> QED BY <1>1, <1>2, <1>3, <1>4, RowsOpenByRedeeming

LEMMA OpenIsAccountedKept ==
  ASSUME TypeOK, PolicyInv, SetupShape, OpenIsAccounted, [Next]_vars, \A c \in Conns : RowStays(c)
  PROVE  OpenIsAccounted'
<1>1. ASSUME NEW c \in Conns, ~ faulty',
             owner'[c] \in Procs, phase'[owner'[c]] # "dead", relay'[c] \notin {"none", "closed"}
      PROVE  Accounted(c)'
  <2>1. ~ faulty
    BY <1>1, ProcessStays
  <2>2. UNCHANGED owner[c]
    BY <1>1, OwnerStays DEF PolicyInv, RelayHasTicket
  <2>3. phase[owner[c]] # "dead" /\ ~ Exit(owner[c])
    BY <1>1, <2>2, ProcessStays
  <2>4. CASE relay[c] = "none"
    BY <1>1, <2>4, RowOpens DEF Accounted
  <2>5. CASE relay[c] # "none"
    <3>1. relay[c] # "closed"
      BY <1>1 DEF RowStays
    <3>2. Accounted(c)
      BY <1>1, <2>1, <2>2, <2>3, <2>5, <3>1 DEF OpenIsAccounted
    <3> QED BY <1>1, <2>2, <2>3, <3>2, AccountPasses
  <2> QED BY <2>4, <2>5
<1>2. \A r \in Reqs : Pending(r)' => request'[r].proc \in Procs /\ Up(request[r].proc)'
  BY PendingHasProcess
<1> QED BY <1>1, <1>2 DEF OpenIsAccounted

(* The inductive invariant: the rows, the connections, the lock, what       *)
(* recovery has closed, what is established, what is revoked, and who closes *)
(* what is open.                                                            *)
SshInv ==
  /\ TypeOK
  /\ PolicyInv
  /\ SetupShape
  /\ HoldsLock
  /\ OthersAreClosed
  /\ EstablishedHasRow
  /\ SelectedIsClosing
  /\ ScopeIsRevoked
  /\ OpenIsAccounted

LEMMA InitSsh == Init => SshInv
<1> SUFFICES ASSUME Init PROVE SshInv
  OBVIOUS
<1> USE GatewayAssumption
<1>1. PolicyInv
  BY InitPolicy DEF Init
<1>2. request \in [Reqs -> RequestRows]
  BY DEF Init, NoRequest, RequestRows
<1>3. TypeOK
  BY <1>1, <1>2 DEF Init, TypeOK, PolicyInv, RequestRows
<1>4. \A c \in Conns : registry[c] = "absent" /\ setup[c] = "idle" /\ relay[c] = "none"
  BY DEF Init, PolicyInit
<1>5. SetupShape
  BY <1>4 DEF Init, SetupShape, Registered, InSetup
<1>6. HoldsLock /\ OthersAreClosed
  BY <1>4 DEF Init, HoldsLock, OthersAreClosed, Up
<1>7. EstablishedHasRow
  BY <1>4 DEF EstablishedHasRow, Established
<1>8. SelectedIsClosing /\ ScopeIsRevoked
  BY DEF Init, SelectedIsClosing, ScopeIsRevoked, Pending, NoRequest
<1>9. OpenIsAccounted
  BY <1>4 DEF Init, OpenIsAccounted, Pending, NoRequest
<1> QED BY <1>1, <1>3, <1>5, <1>6, <1>7, <1>8, <1>9 DEF SshInv

LEMMA NextSsh == ASSUME SshInv, [Next]_vars PROVE SshInv'
<1> USE DEF SshInv
<1>1. PolicyStep \/ UNCHANGED policyVars
  BY StepIsPolicyStep
<1>2. PolicyInv'
  BY <1>1, PolicyStepKeeps
<1>3. \A c \in Conns : RowStays(c)
  BY <1>1, RowsOnlyClose
<1>4. TypeOK'
  <2>1. CASE UNCHANGED vars
    BY <2>1 DEF TypeOK, PolicyTypeOK, vars, policyVars, runtimeVars, localVars
  <2>2. PolicyTypeOK'
    BY <1>2 DEF PolicyInv
  <2>3. CASE Next
    BY <2>2, <2>3, ConnectionTypes, RequestTypes, ProcessTypes DEF Next
  <2> QED BY <2>1, <2>3
<1>5. request' \in [Reqs -> RequestRows]
  BY <1>4 DEF TypeOK, RequestRows
<1>6. SetupShape' /\ HoldsLock' /\ OthersAreClosed'
  BY <1>3, SetupShapeKept, HoldsLockKept, OthersAreClosedKept
<1>7. EstablishedHasRow'
  BY SeveredStays, EstablishedHasRowKept
<1>8. SelectedIsClosing'
  BY <1>3, <1>5, SeveredStays, SelectedIsClosingKept
<1>9. ScopeIsRevoked'
  BY <1>3, ScopeIsRevokedKept
<1>10. OpenIsAccounted'
  BY <1>3, OpenIsAccountedKept
<1> QED BY <1>2, <1>4, <1>6, <1>7, <1>8, <1>9, <1>10

(* The invariant holds in every reachable state of the gateway.             *)
THEOREM SshInvariant == Spec => []SshInv
<1>1. Init => SshInv
  BY InitSsh
<1>2. SshInv /\ [Next]_vars => SshInv'
  BY NextSsh
<1> QED BY <1>1, <1>2, PTL DEF Spec

(* Rows and processes only take values the code knows.                      *)
THEOREM SshTypeCorrect == Spec => []TypeOK
BY SshInvariant, PTL DEF SshInv

(* However connections, revocations, failed writes and processes            *)
(* interleave: a relay row that is not on its way out has an active grant,   *)
(* an active key and an enabled fence behind it.                            *)
THEOREM SshRelayIsAuthorised == Spec => []RelayIsAuthorised
<1>1. SshInv => RelayIsAuthorised
  BY DEF SshInv, PolicyInv
<1> QED BY <1>1, SshInvariant, PTL

(* A socket to a branch has a live relay row, as long as no session has     *)
(* ended under its process: beginDial follows the activation it awaited, and *)
(* who closes a row has closed the socket first.                            *)
LEMMA SocketFollows == ASSUME SshInv PROVE SocketHasRow
<1> SUFFICES ASSUME severed = {}, NEW c \in upstream
             PROVE  relay[c] \in {"active", "closing"}
  BY DEF SocketHasRow
<1>1. c \in Conns
  BY DEF SshInv, TypeOK
<1>2. Established(c)
  BY <1>1 DEF SshInv, SetupShape, Established
<1> QED BY <1>1, <1>2 DEF SshInv, EstablishedHasRow

(* The same, of every reachable state.                                      *)
THEOREM SshSocketHasRow == Spec => []SocketHasRow
<1>1. SshInv => SocketHasRow
  BY SocketFollows
<1> QED BY <1>1, SshInvariant, PTL

(* relayClosureConfirmed means closed: the relays that the revocation       *)
(* selected and the tickets that were not redeemed when it committed.       *)
THEOREM SshConfirmedIsQuiet == Spec => []ConfirmedIsQuiet
<1>1. ASSUME SshInv
      PROVE  ConfirmedIsQuiet
  <2>1. \A r \in Reqs : request[r].phase = "confirmed" =>
          \A c \in request[r].scope : relay[c] \in {"none", "closed"}
    BY <1>1 DEF SshInv, ScopeIsRevoked
  <2>2. SocketHasRow
    BY <1>1, SocketFollows
  <2> QED BY <2>1, <2>2 DEF ConfirmedIsQuiet, SocketHasRow
<1> QED BY <1>1, SshInvariant, PTL

(* A gateway that listens has none of its predecessors' relays open, whether *)
(* they released the lock, failed or died at any await.                     *)
THEOREM SshPredecessorsAreClosed == Spec => []PredecessorsAreClosed
<1>1. ASSUME SshInv
      PROVE  PredecessorsAreClosed
  BY <1>1 DEF SshInv, OthersAreClosed, PredecessorsAreClosed
<1> QED BY <1>1, SshInvariant, PTL

(* Shutdown releases the lock with every relay of the process closed: setup  *)
(* is drained, durable closures are awaited, and a revocation under way      *)
(* closes what it took out of the registry.  One failed write is enough to   *)
(* break it, so the theorem is about runs without one.                      *)
THEOREM SshReleasedIsClosed == Spec => []ReleasedIsClosed
<1>1. ASSUME SshInv, NEW c \in Conns, owner[c] # NoProc, phase[owner[c]] = "released", ~ faulty
      PROVE  relay[c] \in {"none", "closed"}
  <2>1. owner[c] \in Procs /\ ~ Up(owner[c])
    BY <1>1 DEF SshInv, TypeOK, Up
  <2>2. ~ Accounted(c)
    BY <1>1, <2>1 DEF SshInv, SetupShape, OpenIsAccounted, Accounted, InSetup
  <2> QED BY <1>1, <2>1, <2>2 DEF SshInv, OpenIsAccounted
<1>2. SshInv => ReleasedIsClosed
  BY <1>1 DEF ReleasedIsClosed
<1> QED BY <1>2, SshInvariant, PTL
=============================================================================
