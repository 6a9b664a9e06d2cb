---------------------------- MODULE MCRunDirectory ----------------------------
(***************************************************************************)
(* Small instances of run directories and keys.                            *)
(***************************************************************************)
EXTENDS RunDirectory, TLC

Symmetry == Permutations(Cli) \cup Permutations(Plugin) \cup Permutations(Secrets)
=============================================================================
