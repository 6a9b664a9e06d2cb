------------------------ MODULE RunServiceRefinement ------------------------
(***************************************************************************)
(* The run service implements the approval gate: the operators' approvals  *)
(* are the bindings that were written, and what ran is what the handlers   *)
(* did, whether or not a receipt or the manifest tells of it.              *)
(***************************************************************************)
EXTENDS RunService

ApprovedWork ==
    {<<bound[a].step, bound[a].payload>> : a \in {b \in Approvals : bound[b] # None}}

RanWork == {<<grants[g].step, grants[g].payload>> : g \in Acted}

Gate == INSTANCE ApprovalGate
          WITH approved <- ApprovedWork,
               ran      <- RanWork,
               done     <- Done,
               reported <- StepsIn(manifest, {"succeeded"})

\* However its processes interleave, are killed and restarted, the run service
\* behaves as an approval gate.
ImplementsApprovalGate == Gate!Spec
=============================================================================
