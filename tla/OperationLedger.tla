--------------------------- MODULE OperationLedger ---------------------------
(***************************************************************************)
(* What the durable capsule-operation ledger promises, whatever the kind   *)
(* of operation: the table of core/src/db/capsule/operation/record.ts with *)
(* its two unique indexes, and the order in which an operation may move    *)
(* through it.  Several Worker processes may act on the ledger at once;    *)
(* nothing here says which of them takes a step.                           *)
(*                                                                         *)
(* The detailed operation modules implement this one: their rows map to    *)
(* opStatus, entry and intent, and their provider calls map to touched.    *)
(***************************************************************************)
EXTENDS FiniteSets

CONSTANTS
  OpIds,      \* operation UUIDs
  Capsules,   \* capsules an operation may own
  Keys,       \* idempotency keys of one owner
  NoEntry     \* the entry of an operation that was never accepted

VARIABLES
  opStatus,   \* status column of each operation, "absent" before acceptance
  entry,      \* immutable acceptance-time identity of each operation
  intent,     \* operations whose providerMutationStartedAt is set
  touched,    \* operations for which a provider mutation was ever submitted
  witnessed   \* operations whose live executor observed the previous state

vars == <<opStatus, entry, intent, touched, witnessed>>

Nonterminal == {"accepted", "running"}
Terminal == {"completed", "failed", "cleanup_required"}
Entries == [key : Keys, capsule : Capsules]

Accepted(o) == opStatus[o] # "absent"
Owner(c) == {o \in OpIds : opStatus[o] \in Nonterminal /\ entry[o].capsule = c}

Init ==
  /\ opStatus = [o \in OpIds |-> "absent"]
  /\ entry = [o \in OpIds |-> NoEntry]
  /\ intent = {}
  /\ touched = {}
  /\ witnessed = {}

(* A row is inserted only if neither unique index refuses it: the owner's   *)
(* key is new and the capsule has no other nonterminal operation.           *)
Accept(o, e) ==
  /\ opStatus[o] = "absent"
  /\ Owner(e.capsule) = {}
  /\ \A p \in OpIds : Accepted(p) => entry[p].key # e.key
  /\ opStatus' = [opStatus EXCEPT ![o] = "accepted"]
  /\ entry' = [entry EXCEPT ![o] = e]
  /\ UNCHANGED <<intent, touched, witnessed>>

Claim(o) ==
  /\ opStatus[o] = "accepted"
  /\ opStatus' = [opStatus EXCEPT ![o] = "running"]
  /\ UNCHANGED <<entry, intent, touched, witnessed>>

RecordIntent(o) ==
  /\ opStatus[o] = "running"
  /\ o \notin intent
  /\ intent' = intent \cup {o}
  /\ UNCHANGED <<opStatus, entry, touched, witnessed>>

(* A process that lost the race with classification may still submit the    *)
(* mutation its recorded intent covers, never one for a safely failed row.  *)
Touch(o) ==
  /\ o \in intent
  /\ opStatus[o] \in {"running", "cleanup_required"}
  /\ touched' = touched \cup {o}
  /\ UNCHANGED <<opStatus, entry, intent, witnessed>>

Witness(o) ==
  /\ o \in touched
  /\ opStatus[o] \in {"running", "cleanup_required"}
  /\ witnessed' = witnessed \cup {o}
  /\ UNCHANGED <<opStatus, entry, intent, touched>>

Complete(o) ==
  /\ opStatus[o] = "running"
  /\ opStatus' = [opStatus EXCEPT ![o] = "completed"]
  /\ UNCHANGED <<entry, intent, touched, witnessed>>

(* "failed" tells the user the aggregate is as it was before acceptance.    *)
FailSafely(o) ==
  /\ opStatus[o] \in Nonterminal
  /\ o \in touched => o \in witnessed
  /\ opStatus' = [opStatus EXCEPT ![o] = "failed"]
  /\ UNCHANGED <<entry, intent, touched, witnessed>>

RequireCleanup(o) ==
  /\ opStatus[o] \in Nonterminal
  /\ opStatus' = [opStatus EXCEPT ![o] = "cleanup_required"]
  /\ UNCHANGED <<entry, intent, touched, witnessed>>

Next ==
  \E o \in OpIds :
    \/ \E e \in Entries : Accept(o, e)
    \/ Claim(o)
    \/ RecordIntent(o)
    \/ Touch(o)
    \/ Witness(o)
    \/ Complete(o)
    \/ FailSafely(o)
    \/ RequireCleanup(o)

Spec == Init /\ [][Next]_vars

-----------------------------------------------------------------------------
TypeOK ==
  /\ opStatus \in [OpIds -> {"absent"} \cup Nonterminal \cup Terminal]
  /\ entry \in [OpIds -> Entries \cup {NoEntry}]
  /\ intent \subseteq OpIds
  /\ touched \subseteq OpIds
  /\ witnessed \subseteq OpIds

(* A "failed" operation either never reached the provider or was found by   *)
(* its own executor to have left the provider in its previous state.        *)
FailedIsSafe ==
  \A o \in OpIds : opStatus[o] = "failed" => (o \in touched => o \in witnessed)

(* One key names one operation, whatever retries and races submitted it.    *)
OneOperationPerKey ==
  \A o, p \in OpIds :
    Accepted(o) /\ Accepted(p) /\ entry[o].key = entry[p].key => o = p

(* A capsule is owned by at most one unfinished operation.                  *)
OneOwnerPerCapsule ==
  \A o, p \in OpIds :
    /\ opStatus[o] \in Nonterminal
    /\ opStatus[p] \in Nonterminal
    /\ entry[o].capsule = entry[p].capsule
    => o = p
=============================================================================
