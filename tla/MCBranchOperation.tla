------------------------- MODULE MCBranchOperation -------------------------
(* Instances of BranchOperation for TLC: one capsule with its root branch,   *)
(* the only branch the code can make today (fork/submission.ts refuses).     *)
EXTENDS BranchOperation, TLC

CONSTANTS b1, c1

MCOneBranch == {b1}
MCCapsules == {c1}
MCOneCapsuleOf == (b1 :> c1)

(* Keys, operation ids and handlers are interchangeable.                    *)
MCSymmetry ==
  Permutations(Branches) \cup Permutations(Keys)
    \cup Permutations(OpIds) \cup Permutations(Handlers)
=============================================================================
