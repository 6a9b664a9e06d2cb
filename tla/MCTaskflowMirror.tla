--------------------------- MODULE MCTaskflowMirror ---------------------------
(***************************************************************************)
(* Small instances of the mirror: runs of a single elevated step.          *)
(***************************************************************************)
EXTENDS TaskflowMirror, TLC

MCNoDependencies == <<{}>>

Symmetry == Permutations(Procs) \cup Permutations(Runs)
=============================================================================
