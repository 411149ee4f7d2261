-------------------------- MODULE MCPreviewRouting --------------------------
(* Instances of PreviewRouting for TLC.                                     *)
EXTENDS PreviewRouting, TLC

MCSymmetry == Permutations(Previews) \cup Permutations(Ips) \cup Permutations(Workers)
=============================================================================
