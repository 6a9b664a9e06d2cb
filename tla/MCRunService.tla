---------------------------- MODULE MCRunService ----------------------------
(***************************************************************************)
(* Small runs for TLC.  A read-only step, then an elevated step that needs *)
(* it and must not be replayed without review.                             *)
(***************************************************************************)
EXTENDS SequentialInvariant, TLC

MCDependsOn == <<{}, {1}>>
MCElevated == {2}
MCReview == {2}

\* A single elevated step.
MCNoDependencies == <<{}>>

Symmetry == Permutations(Grants) \cup Permutations(Approvals) \cup Permutations(Payloads)
              \cup Permutations(Procs)
=============================================================================
