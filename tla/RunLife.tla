------------------------------- MODULE RunLife -------------------------------
(***************************************************************************)
(* The life of a run as a reader of its manifest sees it: the manifests    *)
(* that each command may write next, and the TaskFlow mirror record that   *)
(* goes with each of them.  RunService has the reasons (grants, receipts,  *)
(* approvals); here only the written states matter, so where those reasons *)
(* decide between outcomes every outcome is possible.                      *)
(***************************************************************************)
EXTENDS RunManifest

ASSUME StepAssumption == None \notin Steps

\* What a loop over the steps has returned.
Returned(m) == m.state \in {"awaiting_approval", "succeeded", "failed"}

(***************************************************************************)
(* The manifests resumeWorkflow writes after m: running, then a step that  *)
(* starts or waits for its approval, then that step's result, and in the   *)
(* end the state of the run.                                               *)
(***************************************************************************)
Results(m, s) == {WithStep(m, s, "succeeded"), WithRun(WithStep(m, s, "failed"), "failed")}

Starts(m, s) ==
    {WithStep(m, s, "running")} \cup
    (IF s \in Elevated
     THEN {WithRun(WithStep(m, s, "awaiting_approval"), "awaiting_approval")}
     ELSE {})

EngineMoves(m) ==
    IF m.state # "running" THEN {WithRun(m, "running")}
    ELSE IF StepsIn(m, {"running"}) # {}
         THEN UNION {Results(m, s) : s \in StepsIn(m, {"running"})}
    ELSE IF Runnable(m) # {}
         THEN UNION {Starts(m, s) : s \in Runnable(m)}
    ELSE {WithRun(m, FinalRunState(m))}

\* The manifests recoverRun may write for m.
SettledStates(m, s) ==
    IF Settled(m, s) THEN {m.steps[s].state}
    ELSE {"pending", "succeeded", "failed"} \cup (IF ReviewRequired(s) THEN {"quarantined"} ELSE {})

Recoveries(m) ==
    LET outcomes == {f \in [Steps -> StepStates] : \A s \in Steps : f[s] \in SettledStates(m, s)}
        settled(f) == [m EXCEPT !.steps = [s \in Steps |-> [m.steps[s] EXCEPT !.state = f[s]]]]
    IN  {WithRun(settled(f), DeriveRunState(settled(f))) : f \in outcomes}

\* What any command may write next for a run whose manifest is m.
CommandMoves(m) ==
    (IF Resumable(m) THEN EngineMoves(m) ELSE {})
    \cup {Approved(m, s) : s \in Elevated}
    \cup (IF Cancellable(m) THEN {Cancelled(m)} ELSE {})
    \cup Recoveries(m)

-----------------------------------------------------------------------------
(* The mirror record.                                                      *)

MirroredStates == {"running", "waiting", "blocked", "done", "cancelled"}

\* mapRunStateToTaskflowState
MapRunState(state) ==
    CASE state = "awaiting_approval"                      -> "waiting"
      [] state \in {"running", "ready"}                   -> "running"
      [] state \in {"failed", "rejected", "quarantined"}  -> "blocked"
      [] state = "cancelled"                              -> "cancelled"
      [] state = "succeeded"                              -> "done"

\* The first step of m, in node order, that is in the given state.
FirstIn(m, state) ==
    IF StepsIn(m, {state}) = {} THEN None
    ELSE CHOOSE s \in Steps : First(StepsIn(m, {state}), s)

\* buildTaskflowMirrorRecord, without the summaries: waitingOn names the step
\* that waits, and of the steps that wait, run or failed the record shows one.
RecordOf(m) ==
    LET waiting == FirstIn(m, "awaiting_approval")
        running == FirstIn(m, "running")
    IN  [runState    |-> m.state,
         mirrored    |-> MapRunState(m.state),
         waitingOn   |-> waiting,
         currentStep |-> IF waiting # None THEN waiting
                         ELSE IF running # None THEN running
                         ELSE FirstIn(m, "failed"),
         stepStates  |-> [s \in Steps |-> m.steps[s].state]]
=============================================================================
