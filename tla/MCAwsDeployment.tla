-------------------------- MODULE MCAwsDeployment --------------------------
(* The instance of AwsDeployment for TLC.                                   *)
EXTENDS AwsDeployment
=============================================================================
