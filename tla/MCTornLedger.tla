---------------------------- MODULE MCTornLedger ----------------------------
(* Small runs for TLC of the run service over files that can be torn.      *)
EXTENDS TornLedger, TLC

MCDependsOn == <<{}, {1}>>
MCElevated == {2}
MCReview == {2}

\* A single elevated step.
MCNoDependencies == <<{}>>

Symmetry == Permutations(Grants) \cup Permutations(Approvals) \cup Permutations(Payloads)
              \cup Permutations(Procs)
=============================================================================
