------------------------ MODULE OperationLedgerProofs ------------------------
(***************************************************************************)
(* Theorems of the abstract ledger, for any number of operations, capsules *)
(* and keys.  Every module shown to implement OperationLedger inherits them.*)
(***************************************************************************)
EXTENDS OperationLedger, TLAPS

(* What the ledger's rows satisfy at every step: types, intent before the   *)
(* provider, intent only on claimed rows, and an identity on accepted rows. *)
LedgerInv ==
  /\ TypeOK
  /\ touched \subseteq intent
  /\ \A o \in OpIds : opStatus[o] \in {"absent", "accepted"} => o \notin intent
  /\ \A o \in OpIds : Accepted(o) => entry[o] \in Entries
  /\ FailedIsSafe
  /\ OneOperationPerKey
  /\ OneOwnerPerCapsule

LEMMA InitLedgerInv == Init => LedgerInv
  BY DEF Init, LedgerInv, TypeOK, Accepted, FailedIsSafe, OneOperationPerKey,
         OneOwnerPerCapsule, Nonterminal, Terminal

(* Acceptance is the only step that adds a key or an owner, and the two     *)
(* unique indexes are what keeps both single.                               *)
LEMMA AcceptPreserves ==
  ASSUME LedgerInv, NEW o \in OpIds, NEW e \in Entries, Accept(o, e)
  PROVE  LedgerInv'
<1> USE DEF LedgerInv, Accepted, Nonterminal
<1>1. TypeOK'
  BY DEF TypeOK, Accept, Terminal
<1>2. /\ touched' \subseteq intent'
      /\ FailedIsSafe'
      /\ \A p \in OpIds : opStatus'[p] \in {"absent", "accepted"} => p \notin intent'
  BY DEF Accept, TypeOK, FailedIsSafe
<1>3. \A p \in OpIds : Accepted(p)' => entry'[p] \in Entries
  BY DEF Accept, TypeOK
<1>4. OneOperationPerKey'
  BY DEF Accept, TypeOK, OneOperationPerKey
<1>5. OneOwnerPerCapsule'
  <2>1. \A p \in OpIds : p # o => opStatus'[p] = opStatus[p] /\ entry'[p] = entry[p]
    BY DEF Accept, TypeOK
  <2>2. entry'[o] = e
    BY DEF Accept, TypeOK
  <2>3. \A p \in OpIds : opStatus[p] \in Nonterminal => entry[p].capsule # e.capsule
    BY DEF Accept, Owner
  <2> QED BY <2>1, <2>2, <2>3 DEF OneOwnerPerCapsule
<1> QED BY <1>1, <1>2, <1>3, <1>4, <1>5

(* Every other step moves one accepted row forward and keeps its identity.  *)
LEMMA ProgressPreserves ==
  ASSUME LedgerInv, NEW o \in OpIds,
         \/ Claim(o)
         \/ RecordIntent(o)
         \/ Touch(o)
         \/ Witness(o)
         \/ Complete(o)
         \/ FailSafely(o)
         \/ RequireCleanup(o)
  PROVE  LedgerInv'
<1> USE DEF LedgerInv, Accepted, Nonterminal
<1>1. TypeOK'
  BY DEF TypeOK, Terminal, Claim, RecordIntent, Touch, Witness, Complete, FailSafely,
         RequireCleanup
<1>2. /\ touched' \subseteq intent'
      /\ \A p \in OpIds : opStatus'[p] \in {"absent", "accepted"} => p \notin intent'
      /\ FailedIsSafe'
  BY DEF TypeOK, FailedIsSafe, Claim, RecordIntent, Touch, Witness, Complete,
         FailSafely, RequireCleanup
<1>3. /\ entry' = entry
      /\ \A p \in OpIds : Accepted(p)' => Accepted(p)
      /\ \A p \in OpIds : opStatus'[p] \in Nonterminal => opStatus[p] \in Nonterminal
  BY DEF TypeOK, Claim, RecordIntent, Touch, Witness, Complete, FailSafely, RequireCleanup
<1>4. /\ \A p \in OpIds : Accepted(p)' => entry'[p] \in Entries
      /\ OneOperationPerKey'
      /\ OneOwnerPerCapsule'
  BY <1>3 DEF OneOperationPerKey, OneOwnerPerCapsule
<1> QED BY <1>1, <1>2, <1>4

(* The ledger's inductive invariant.                                        *)
THEOREM LedgerInvariant == Spec => []LedgerInv
<1>1. Init => LedgerInv
  BY InitLedgerInv
<1>2. LedgerInv /\ [Next]_vars => LedgerInv'
  <2> SUFFICES ASSUME LedgerInv, [Next]_vars PROVE LedgerInv'
    OBVIOUS
  <2>1. CASE Next
    BY <2>1, AcceptPreserves, ProgressPreserves DEF Next
  <2>2. CASE UNCHANGED vars
    BY <2>2 DEF vars, LedgerInv, TypeOK, Accepted, FailedIsSafe, OneOperationPerKey,
                OneOwnerPerCapsule
  <2> QED BY <2>1, <2>2
<1> QED BY <1>1, <1>2, PTL DEF Spec

(* One key names one operation, one capsule has one owner, and a failed row *)
(* is safe, however many Worker processes act on the ledger.                *)
THEOREM LedgerIsSafe ==
  Spec => [](FailedIsSafe /\ OneOperationPerKey /\ OneOwnerPerCapsule)
<1>1. LedgerInv => FailedIsSafe /\ OneOperationPerKey /\ OneOwnerPerCapsule
  BY DEF LedgerInv
<1> QED BY <1>1, LedgerInvariant, PTL
=============================================================================
