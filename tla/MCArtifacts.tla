---------------------------- MODULE MCArtifacts ----------------------------
(* Instance of ArtifactLifecycle for TLC.                                     *)
EXTENDS ArtifactLifecycle
============================================================================
