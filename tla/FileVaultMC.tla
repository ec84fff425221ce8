---------------------------- MODULE FileVaultMC ----------------------------
(* Instances of FileVault for TLC.                                         *)
EXTENDS FileVault, TLC

\* Names in quarantine are uuids, and nothing orders them.
FreshNames == Permutations(Item)
=============================================================================
