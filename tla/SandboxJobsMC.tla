---------------------------- MODULE SandboxJobsMC ----------------------------
(* An instance of SandboxJobs for TLC.                                      *)
EXTENDS SandboxJobs
=============================================================================
