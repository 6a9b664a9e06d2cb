--------------------------- MODULE MCControllerFlow ---------------------------
(***************************************************************************)
(* Small instances of the controller: runs of a single elevated step.      *)
(***************************************************************************)
EXTENDS ControllerFlow, TLC

MCNoDependencies == <<{}>>

Symmetry == Permutations(Launches) \cup Permutations(Runs)
=============================================================================
