------------------------------- MODULE SshPolicy -------------------------------
(***************************************************************************)
(* The rows the SSH authority owns, packages/ssh/src/host: access fences,   *)
(* keys, grants, tickets and relays.  Each operator below is one database   *)
(* transaction; they lock the rows they decide on, so each is one step.     *)
(*                                                                          *)
(* A connection obtains at most one ticket and redeems it at most once, so  *)
(* its name also names the ticket and the relay.  Keys are registered       *)
(* beforehand.  The owner and capsule of a branch are fixed.                *)
(***************************************************************************)
EXTENDS FiniteSets

CONSTANTS
  Branches,
  Keys,
  Grants,    \* grant ids, each inserted at most once
  Conns,     \* connections to the gateway
  NoGrant

ASSUME NoGrantAssumption == NoGrant \notin Grants

VARIABLES
  online,    \* branches whose row is online, written by the Worker
  access,    \* ssh_branch_access.state per branch, "missing" before it is initialised
  activeKeys,
  grant,     \* ssh_branch_grants row per id, NoGrant before it is bound
  ticket,    \* ssh_tickets.status per connection
  via,       \* ssh_tickets.grant_id per connection
  relay      \* ssh_relays.status per connection

policyVars == <<online, access, activeKeys, grant, ticket, via, relay>>

PolicyInit ==
  /\ online = {}
  /\ access = [b \in Branches |-> "missing"]
  /\ activeKeys = Keys
  /\ grant = [g \in Grants |-> NoGrant]
  /\ ticket = [c \in Conns |-> "none"]
  /\ via = [c \in Conns |-> NoGrant]
  /\ relay = [c \in Conns |-> "none"]

IsActive(g) == grant[g] # NoGrant /\ grant[g].status = "active"

ActiveGrantsOf(k) == {g \in Grants : IsActive(g) /\ grant[g].key = k}

(* The rows that let a key onto a branch; lockAndValidateDestination also    *)
(* wants the branch online.                                                  *)
Authorised(g) ==
  /\ IsActive(g)
  /\ grant[g].key \in activeKeys
  /\ access[grant[g].branch] = "enabled"

Eligible(g) == Authorised(g) /\ grant[g].branch \in online

-----------------------------------------------------------------------------
(* The fence.                                                               *)

InitializeBlocked(b) ==
  /\ access[b] = "missing"
  /\ access' = [access EXCEPT ![b] = "blocked"]
  /\ UNCHANGED <<online, activeKeys, grant, ticket, via, relay>>

Enable(b) ==
  /\ access[b] = "blocked"
  /\ b \in online
  /\ access' = [access EXCEPT ![b] = "enabled"]
  /\ UNCHANGED <<online, activeKeys, grant, ticket, via, relay>>

(* The branch executors confirm a branch online, and accept a stop.          *)
BranchChanges(b) ==
  /\ online' = IF b \in online THEN online \ {b} ELSE online \cup {b}
  /\ UNCHANGED <<access, activeKeys, grant, ticket, via, relay>>

(* Mutant: a grant waits for its key file to be synchronised. *)
BindsPending(g, k, b) ==
  /\ grant[g] = NoGrant
  /\ k \in activeKeys
  /\ b \in online /\ access[b] = "enabled"
  /\ grant' = [grant EXCEPT ![g] = [status |-> "pending", key |-> k, branch |-> b]]
  /\ UNCHANGED <<online, access, activeKeys, ticket, via, relay>>
BindGrant(g, k, b) ==
  /\ grant[g] = NoGrant
  /\ k \in activeKeys
  /\ b \in online /\ access[b] = "enabled"
  /\ ActiveGrantsOf(k) = {}
  /\ grant' = [grant EXCEPT ![g] = [status |-> "active", key |-> k, branch |-> b]]
  /\ UNCHANGED <<online, access, activeKeys, ticket, via, relay>>

-----------------------------------------------------------------------------
(* Tickets and relays.                                                      *)

IssueTicket(c, g) ==
  /\ ticket[c] = "none"
  /\ IsActive(g)
  /\ ActiveGrantsOf(grant[g].key) = {g}
  /\ Eligible(g)
  /\ ticket' = [ticket EXCEPT ![c] = "issued"]
  /\ via' = [via EXCEPT ![c] = g]
  /\ UNCHANGED <<online, access, activeKeys, grant, relay>>

RedeemTicket(c) ==
  /\ ticket[c] = "issued"
  /\ Eligible(via[c])
  /\ ticket' = [ticket EXCEPT ![c] = "redeemed"]
  /\ relay' = [relay EXCEPT ![c] = "opening"]
  /\ UNCHANGED <<online, access, activeKeys, grant, via>>

ActivateRelay(c) ==
  /\ relay[c] = "opening"
  /\ ticket[c] = "redeemed"
  /\ Eligible(via[c])
  /\ relay' = [relay EXCEPT ![c] = "active"]
  /\ UNCHANGED <<online, access, activeKeys, grant, ticket, via>>

(* close(): a row there is, whatever its status was.                         *)
CloseRelay(c) ==
  /\ relay[c] # "none"
  /\ relay' = [relay EXCEPT ![c] = "closed"]
  /\ UNCHANGED <<online, access, activeKeys, grant, ticket, via>>

-----------------------------------------------------------------------------
(* Revocation.  Each returns the relays it selects, those already closing   *)
(* included, and leaves the others closing.                                 *)

(* Mutant: what an earlier attempt left closing is not selected again. *)
NotYetClosing == {c \in Conns : relay[c] \in {"opening", "active"}}
Revocable == {c \in Conns : relay[c] \in {"opening", "active", "closing"}}

MarkClosing(cs) ==
  relay' = [c \in Conns |->
              IF c \in cs /\ relay[c] \in {"opening", "active"} THEN "closing" ELSE relay[c]]

RevokeTickets(cs) ==
  ticket' = [c \in Conns |->
               IF c \in cs /\ ticket[c] \in {"issued", "redeemed"} THEN "revoked" ELSE ticket[c]]

RevokeGrants(gs) ==
  grant' = [g \in Grants |->
              IF g \in gs /\ IsActive(g) THEN [grant[g] EXCEPT !.status = "revoked"] ELSE grant[g]]

GrantsOn(bs) == {g \in Grants : grant[g] # NoGrant /\ grant[g].branch \in bs}
GrantsOf(k) == {g \in Grants : grant[g] # NoGrant /\ grant[g].key = k}
Through(gs) == {c \in Conns : via[c] \in gs}

(* Grants of one key on one branch, whichever of them a relay came through. *)
Alike(g) == GrantsOf(grant[g].key) \cap GrantsOn({grant[g].branch})

(* Only a force destroy repairs missing fences.                             *)
RevokeAccess(bs, force) ==
  /\ force \/ \A b \in bs : access[b] # "missing"
  /\ access' = [b \in Branches |-> IF b \in bs THEN "blocked" ELSE access[b]]
  /\ RevokeGrants(GrantsOn(bs))
  /\ RevokeTickets(Through(GrantsOn(bs)))
  /\ MarkClosing(Through(GrantsOn(bs)))
  /\ UNCHANGED <<online, activeKeys, via>>

(* Asked again, a revoked grant or key selects nothing and changes nothing.  *)

(* Mutant: opening relays are left to fail by themselves. *)
RevokesActiveRelays(g) ==
  /\ IsActive(g)
  /\ RevokeGrants({g})
  /\ RevokeTickets(Through({g}))
  /\ MarkClosing({c \in Through(Alike(g)) : relay[c] = "active"})
  /\ UNCHANGED <<online, access, activeKeys, via>>
RevokeGrant(g) ==
  /\ IsActive(g)
  /\ RevokeGrants({g})
  /\ RevokeTickets(Through({g}))
  /\ MarkClosing(Through(Alike(g)))
  /\ UNCHANGED <<online, access, activeKeys, via>>

RevokeKey(k) ==
  /\ k \in activeKeys
  /\ activeKeys' = activeKeys \ {k}
  /\ RevokeGrants(GrantsOf(k))
  /\ RevokeTickets(Through(GrantsOf(k)))
  /\ MarkClosing(Through(GrantsOf(k)))
  /\ UNCHANGED <<online, access, via>>

(* The second transaction of a revocation.                                  *)
ConfirmClosed(cs) ==
  /\ \A c \in cs : relay[c] \in {"closing", "closed"}
  /\ relay' = [c \in Conns |-> IF c \in cs THEN "closed" ELSE relay[c]]
  /\ UNCHANGED <<online, access, activeKeys, grant, ticket, via>>

(* Mutant: only established relays are recovered. *)
RecoverActive ==
  /\ MarkClosing({c \in Conns : relay[c] = "active"})
  /\ UNCHANGED <<online, access, activeKeys, grant, ticket, via>>
(* What startup recovery selects: the gateway identity is stable.            *)
RecoverRelays ==
  /\ MarkClosing(Revocable)
  /\ UNCHANGED <<online, access, activeKeys, grant, ticket, via>>

-----------------------------------------------------------------------------
PolicyTypeOK ==
  /\ online \subseteq Branches
  /\ access \in [Branches -> {"missing", "blocked", "enabled"}]
  /\ activeKeys \subseteq Keys
  /\ grant \in [Grants -> [status : {"active", "revoked"}, key : Keys, branch : Branches] \cup {NoGrant}]
  /\ ticket \in [Conns -> {"none", "issued", "redeemed", "revoked"}]
  /\ via \in [Conns -> Grants \cup {NoGrant}]
  /\ relay \in [Conns -> {"none", "opening", "active", "closing", "closed"}]

(* A relay that is not on its way out has everything that authorises it:     *)
(* whichever of fence, grant and key is withdrawn takes the relay along, in  *)
(* the same transaction.                                                     *)
RelayIsAuthorised ==
  \A c \in Conns :
    relay[c] \in {"opening", "active"} => ticket[c] = "redeemed" /\ Authorised(via[c])
=============================================================================
