---------------------------- MODULE LongCommands ----------------------------
(***************************************************************************)
(* One process that resumes a run: the elevated cell waits for a child     *)
(* while the progress monitor's timer goes on.  Both live on one event     *)
(* loop and one clock, and only the loop of resumeWorkflow joins them: a   *)
(* step starts for both at once, and ends for the monitor as the cell has  *)
(* settled it.                                                             *)
(***************************************************************************)
EXTENDS ProgressMonitor, ElevatedCell

longVars == <<vars, cellVars>>

LongInit == Init /\ CellInit

\* dispatchStep of an elevated step
ElevatedStarts == StepStarted /\ \E r \in Request : RunElevatedCell(r)

ElevatedEnds ==
    /\ Answered
    /\ \/ outcome = "succeeded" /\ StepCompleted
       \/ outcome = "failed" /\ RunCompleted
       \/ outcome = "threw" /\ Throw

\* The loop itself, and steps of the other cells.
Ordinary ==
    /\ cell = "idle"
    /\ Start \/ ApprovalWait \/ StepStarted \/ StepCompleted \/ RunCompleted \/ Throw
    /\ UNCHANGED cellVars

LongNext ==
    \/ ElevatedStarts \/ ElevatedEnds \/ Ordinary
    \/ Tick /\ UNCHANGED cellVars
    \/ CellStep /\ UNCHANGED vars
    \/ TimePasses /\ CellMayWait /\ UNCHANGED cellVars

LongSpec == LongInit /\ [][LongNext]_longVars
=============================================================================
