----------------------------- MODULE RunManifest -----------------------------
(***************************************************************************)
(* The data a ToolFlow run keeps in manifest.json and the pure functions   *)
(* the control plane computes on it: the scheduler's choice of runnable    *)
(* steps, receipt reconciliation, the edits of approve and cancel, and the *)
(* run state that the engine and the recovery service derive from the      *)
(* states of the steps.  No function here reads or writes a file.          *)
(***************************************************************************)
EXTENDS Integers

CONSTANTS
    N,                   \* number of nodes of compiled-graph.json, in array order
    DependsOn,           \* node |-> the nodes its dependsOn array names
    Elevated,            \* nodes whose cell is "elevated"
    ReviewBeforeReplay,  \* nodes whose replayClass is "review_before_replay"
    Grants,              \* grant ids; a grant is dispatched once, so its id names its receipt too
    None                 \* an optional field that is absent

Steps == 1..N

\* normalizeWorkflow refuses an empty workflow; buildGraph refuses unknown
\* dependencies.
ASSUME GraphAssumption ==
    /\ N \in Nat \ {0}
    /\ DependsOn \in [Steps -> SUBSET Steps]
    /\ Elevated \subseteq Steps
    /\ ReviewBeforeReplay \subseteq Steps

ASSUME GrantIdAssumption == None \notin Grants

(***************************************************************************)
(* The states of shared/types/workflow.ts that some assignment produces.   *)
(* "created", "compiled" and "skipped" are declared there and never set.   *)
(***************************************************************************)
RunStates == {"ready", "running", "awaiting_approval", "quarantined",
              "cancelled", "succeeded", "failed", "rejected"}

StepStates == {"pending", "awaiting_approval", "grant_issued", "running",
               "quarantined", "cancelled", "succeeded", "failed"}

StepManifest == [state   : StepStates,
                 grant   : Grants \cup {None},
                 receipt : Grants \cup {None}]

Manifest == [state : RunStates, steps : [Steps -> StepManifest]]

\* prepareRun: every step pending; the run is ready, or rejected by preflight.
NewManifest(verdict) ==
    [state |-> verdict,
     steps |-> [s \in Steps |-> [state |-> "pending", grant |-> None, receipt |-> None]]]

StepsIn(m, states) == {s \in Steps : m.steps[s].state \in states}

AllSucceeded(m) == StepsIn(m, {"succeeded"}) = Steps

WithRun(m, state) == [m EXCEPT !.state = state]

WithStep(m, s, state) == [m EXCEPT !.steps[s].state = state]

-----------------------------------------------------------------------------
(* The engine's functions.                                                 *)

\* Mutant: the dependencies are not looked at.
RunnableAnyOrder(m) == StepsIn(m, {"pending"})

\* nextRunnableSteps
Runnable(m) ==
    {s \in StepsIn(m, {"pending"}) : DependsOn[s] \subseteq StepsIn(m, {"succeeded"})}

\* The for loop takes the steps of one pass in node order; when the pass is
\* used up the while loop computes the next one from the manifest in memory.
First(todo, s) == s \in todo /\ \A t \in todo : s =< t

NextPass(rest, m) == IF rest # {} THEN rest ELSE Runnable(m)

\* mintStepGrant's caller: the grant is recorded before the step is published.
WithGrant(m, s, g) ==
    [m EXCEPT !.steps[s] = [@ EXCEPT !.state = "grant_issued", !.grant = g]]

\* Mutant: any terminal receipt counts as a success.
ReconciledAsSuccess(m, s, g, status) ==
    [m EXCEPT !.steps[s] = [@ EXCEPT !.state = "succeeded", !.receipt = g]]

\* reconcileReceipt, and the receipt branches of recoverStep
Reconciled(m, s, g, status) ==
    [m EXCEPT !.steps[s] = [@ EXCEPT !.state = status, !.receipt = g]]

\* The run state of a loop that found nothing more to run.
FinalRunState(m) ==
    IF StepsIn(m, {"awaiting_approval"}) # {} THEN "awaiting_approval"
    ELSE IF AllSucceeded(m) THEN "succeeded"
    ELSE "failed"

\* Mutant: a cancelled run may be resumed.
ResumableCancelled(m) == m.state \notin {"quarantined", "rejected"}

\* Mutant: an interrupted run may not be resumed.
ResumableAtRest(m) == m.state \notin {"quarantined", "cancelled", "rejected", "running"}

\* resumeWorkflow throws on a quarantined run and returns a cancelled or a
\* rejected one as it is.
Resumable(m) == m.state \notin {"quarantined", "cancelled", "rejected"}

-----------------------------------------------------------------------------
(* The operator's edits.                                                   *)

\* Mutant: the run is left waiting.
ApprovedStepOnly(m, s) == WithStep(m, s, "pending")

\* approveRunStep, after the approval file is written: whatever the step was,
\* it is pending again.
Approved(m, s) ==
    WithRun(WithStep(m, s, "pending"),
            IF m.state = "awaiting_approval" THEN "ready" ELSE m.state)

Cancellable(m) == m.state \notin {"succeeded", "failed", "rejected", "cancelled"}

\* cancelRun: only the unfinished steps are cancelled.
Cancelled(m) ==
    LET open == StepsIn(m, {"pending", "awaiting_approval", "grant_issued", "running"})
    IN  [state |-> "cancelled",
         steps |-> [s \in Steps |->
                      IF s \in open THEN [m.steps[s] EXCEPT !.state = "cancelled"]
                                    ELSE m.steps[s]]]

-----------------------------------------------------------------------------
(* The recovery service's functions.                                       *)

\* The steps recoverStep leaves unchanged.  "cancelled" is not among them.
Settled(m, s) ==
    m.steps[s].state \in {"pending", "awaiting_approval", "quarantined", "succeeded", "failed"}

\* replayDecision
ReviewRequired(s) == s \in ReviewBeforeReplay

\* Mutant: only the grant id is cleared.
ClearedGrantOnly(m, s) == [m EXCEPT !.steps[s] = [@ EXCEPT !.grant = None]]

\* clearStepForReplay: the receipt id, if the step has one, stays.
ClearedForReplay(m, s) ==
    [m EXCEPT !.steps[s] = [@ EXCEPT !.state = "pending", !.grant = None]]

DeriveRunState(m) ==
    IF StepsIn(m, {"quarantined"}) # {} THEN "quarantined"
    ELSE IF StepsIn(m, {"awaiting_approval"}) # {} THEN "awaiting_approval"
    ELSE IF AllSucceeded(m) THEN "succeeded"
    ELSE IF StepsIn(m, {"failed"}) # {} THEN "failed"
    ELSE IF StepsIn(m, {"pending", "grant_issued", "running"}) # {} THEN "ready"
    ELSE m.state
=============================================================================
