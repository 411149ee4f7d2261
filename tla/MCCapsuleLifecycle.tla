-------------------------- MODULE MCCapsuleLifecycle --------------------------
(* Instances of CapsuleLifecycle for TLC: one capsule, so that its operations *)
(* follow one another.                                                      *)
EXTENDS CapsuleLifecycle

CONSTANTS c1, v1, v2, f1

(* The file is written into the volume; or the capsule has no file.         *)
MCFileInVolume == [f \in {f1} |-> v1]
MCNoFile == [f \in {} |-> None]
=============================================================================
