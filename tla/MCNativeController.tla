-------------------------- MODULE MCNativeController --------------------------
(* Small instances of the native controller. *)
EXTENDS NativeController, TLC

Symmetry == Permutations(Runs) \cup Permutations(Wakes)
=============================================================================
