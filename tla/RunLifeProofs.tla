----------------------------- MODULE RunLifeProofs -----------------------------
(***************************************************************************)
(* What the functions on manifests return, for every graph: the lemmas     *)
(* that the proofs about the run service, the TaskFlow mirror and the      *)
(* TaskFlow controller share.                                              *)
(***************************************************************************)
EXTENDS RunLife, NaturalsInduction, WellFoundedInduction, TLAPS

-----------------------------------------------------------------------------
(* One edit of a manifest.                                                 *)

LEMMA NewManifestType ==
    ASSUME NEW v \in RunStates
    PROVE  /\ NewManifest(v) \in Manifest
           /\ NewManifest(v).state = v
           /\ \A s \in Steps : NewManifest(v).steps[s] =
                [state |-> "pending", grant |-> None, receipt |-> None]
BY DEF NewManifest, Manifest, StepManifest, StepStates

LEMMA StepType ==
    ASSUME NEW m \in Manifest, NEW s \in Steps
    PROVE  /\ m.steps[s] \in StepManifest
           /\ m.steps[s].state \in StepStates
           /\ m.steps[s].grant \in Grants \cup {None}
           /\ m.steps[s].receipt \in Grants \cup {None}
BY DEF Manifest, StepManifest

LEMMA WithRunType ==
    ASSUME NEW m \in Manifest, NEW v \in RunStates
    PROVE  /\ WithRun(m, v) \in Manifest
           /\ WithRun(m, v).state = v
           /\ WithRun(m, v).steps = m.steps
BY DEF WithRun, Manifest

LEMMA WithStepType ==
    ASSUME NEW m \in Manifest, NEW s \in Steps, NEW v \in StepStates
    PROVE  /\ WithStep(m, s, v) \in Manifest
           /\ WithStep(m, s, v).state = m.state
           /\ WithStep(m, s, v).steps[s].state = v
           /\ WithStep(m, s, v).steps[s].grant = m.steps[s].grant
           /\ WithStep(m, s, v).steps[s].receipt = m.steps[s].receipt
           /\ \A t \in Steps \ {s} : WithStep(m, s, v).steps[t] = m.steps[t]
BY DEF WithStep, Manifest, StepManifest

LEMMA WithGrantType ==
    ASSUME NEW m \in Manifest, NEW s \in Steps, NEW g \in Grants
    PROVE  /\ WithGrant(m, s, g) \in Manifest
           /\ WithGrant(m, s, g).state = m.state
           /\ WithGrant(m, s, g).steps[s].state = "grant_issued"
           /\ WithGrant(m, s, g).steps[s].grant = g
           /\ WithGrant(m, s, g).steps[s].receipt = m.steps[s].receipt
           /\ \A t \in Steps \ {s} : WithGrant(m, s, g).steps[t] = m.steps[t]
BY DEF WithGrant, Manifest, StepManifest, StepStates

LEMMA ClearedType ==
    ASSUME NEW m \in Manifest, NEW s \in Steps
    PROVE  /\ ClearedForReplay(m, s) \in Manifest
           /\ ClearedForReplay(m, s).state = m.state
           /\ ClearedForReplay(m, s).steps[s].state = "pending"
           /\ ClearedForReplay(m, s).steps[s].grant = None
           /\ ClearedForReplay(m, s).steps[s].receipt = m.steps[s].receipt
           /\ \A t \in Steps \ {s} : ClearedForReplay(m, s).steps[t] = m.steps[t]
BY DEF ClearedForReplay, Manifest, StepManifest, StepStates

LEMMA CancelledType ==
    ASSUME NEW m \in Manifest
    PROVE  /\ Cancelled(m) \in Manifest
           /\ Cancelled(m).state = "cancelled"
           /\ \A s \in Steps :
                /\ Cancelled(m).steps[s].grant = m.steps[s].grant
                /\ Cancelled(m).steps[s].receipt = m.steps[s].receipt
                /\ Cancelled(m).steps[s].state \in {m.steps[s].state, "cancelled"}
BY DEF Cancelled, Manifest, StepManifest, StepStates, RunStates

LEMMA DerivedType ==
    ASSUME NEW m \in Manifest
    PROVE  /\ DeriveRunState(m) \in RunStates
           /\ FinalRunState(m) \in RunStates
BY DEF DeriveRunState, FinalRunState, Manifest, RunStates

-----------------------------------------------------------------------------
(* The manifests that a command may write next.                            *)

\* A run that awaits approval has a step that does.
Waits(m) == m.state = "awaiting_approval" => StepsIn(m, {"awaiting_approval"}) # {}

LEMMA NewManifestWaits == \A v \in {"ready", "rejected"} : Waits(NewManifest(v))
  BY DEF NewManifest, Waits

LEMMA StepsAreSteps == \A m, states : StepsIn(m, states) \subseteq Steps
  BY DEF StepsIn

LEMMA ResultsWait ==
    ASSUME NEW m \in Manifest, m.state = "running", NEW s \in Steps, NEW next \in Results(m, s)
    PROVE  next \in Manifest /\ Waits(next)
  <1>1. next = WithStep(m, s, "succeeded") \/ next = WithRun(WithStep(m, s, "failed"), "failed")
    BY DEF Results
  <1>2. "succeeded" \in StepStates /\ "failed" \in StepStates /\ "failed" \in RunStates
    BY DEF StepStates, RunStates
  <1> QED BY <1>1, <1>2, WithStepType, WithRunType DEF Waits

LEMMA StartsWait ==
    ASSUME NEW m \in Manifest, m.state = "running", NEW s \in Steps, NEW next \in Starts(m, s)
    PROVE  next \in Manifest /\ Waits(next)
  <1>1. \/ next = WithStep(m, s, "running")
        \/ next = WithRun(WithStep(m, s, "awaiting_approval"), "awaiting_approval")
    BY DEF Starts
  <1>2. /\ "running" \in StepStates /\ "awaiting_approval" \in StepStates
        /\ "awaiting_approval" \in RunStates
    BY DEF StepStates, RunStates
  <1>3. CASE next = WithStep(m, s, "running")
    BY <1>2, <1>3, WithStepType DEF Waits
  <1>4. CASE next = WithRun(WithStep(m, s, "awaiting_approval"), "awaiting_approval")
    <2>1. next \in Manifest /\ next.steps[s].state = "awaiting_approval"
      BY <1>2, <1>4, WithStepType, WithRunType
    <2> QED BY <2>1 DEF Waits, StepsIn
  <1> QED BY <1>1, <1>3, <1>4

LEMMA EngineWaits ==
    ASSUME NEW m \in Manifest, NEW next \in EngineMoves(m)
    PROVE  next \in Manifest /\ Waits(next)
  <1>1. CASE m.state # "running"
    <2>1. next = WithRun(m, "running") /\ "running" \in RunStates
      BY <1>1 DEF EngineMoves, RunStates
    <2> QED BY <2>1, WithRunType DEF Waits
  <1>2. CASE m.state = "running" /\ StepsIn(m, {"running"}) # {}
    <2>1. PICK s \in StepsIn(m, {"running"}) : next \in Results(m, s)
      BY <1>2 DEF EngineMoves
    <2> QED BY <1>2, <2>1, StepsAreSteps, ResultsWait
  <1>3. CASE m.state = "running" /\ StepsIn(m, {"running"}) = {} /\ Runnable(m) # {}
    <2>1. PICK s \in Runnable(m) : next \in Starts(m, s)
      BY <1>3 DEF EngineMoves
    <2>2. s \in Steps
      BY StepsAreSteps DEF Runnable
    <2> QED BY <1>3, <2>1, <2>2, StartsWait
  <1>4. CASE m.state = "running" /\ StepsIn(m, {"running"}) = {} /\ Runnable(m) = {}
    <2>1. next = WithRun(m, FinalRunState(m)) /\ FinalRunState(m) \in RunStates
      BY <1>4, DerivedType DEF EngineMoves
    <2>2. next \in Manifest /\ next.state = FinalRunState(m) /\ next.steps = m.steps
      BY <2>1, WithRunType
    <2> QED BY <2>2 DEF Waits, FinalRunState, StepsIn
  <1> QED BY <1>1, <1>2, <1>3, <1>4

LEMMA ApprovedWaits ==
    ASSUME NEW m \in Manifest, Waits(m), NEW s \in Steps
    PROVE  Approved(m, s) \in Manifest /\ Approved(m, s).state # "awaiting_approval"
  <1> DEFINE state == IF m.state = "awaiting_approval" THEN "ready" ELSE m.state
  <1>1. "pending" \in StepStates /\ state \in RunStates /\ state # "awaiting_approval"
    BY DEF StepStates, RunStates, Manifest
  <1>2. WithStep(m, s, "pending") \in Manifest
    BY <1>1, WithStepType
  <1> QED BY <1>1, <1>2, WithRunType DEF Approved

LEMMA RecoveriesWait ==
    ASSUME NEW m \in Manifest, Waits(m), NEW next \in Recoveries(m)
    PROVE  next \in Manifest /\ Waits(next)
  <1>1. PICK f \in [Steps -> StepStates] :
          /\ \A s \in Steps : f[s] \in SettledStates(m, s)
          /\ LET settled == [m EXCEPT !.steps = [s \in Steps |-> [m.steps[s] EXCEPT !.state = f[s]]]]
             IN  next = WithRun(settled, DeriveRunState(settled))
    BY DEF Recoveries
  <1> DEFINE steps == [s \in Steps |-> [m.steps[s] EXCEPT !.state = f[s]]]
             settled == [m EXCEPT !.steps = steps]
  <1>2. \A s \in Steps : steps[s] \in StepManifest /\ steps[s].state = f[s]
    BY StepType DEF StepManifest
  <1>3. steps \in [Steps -> StepManifest]
    BY <1>2
  <1>4. settled \in Manifest /\ settled.steps = steps /\ settled.state = m.state
    <2> HIDE DEF steps
    <2> QED BY <1>3 DEF Manifest
  <1> HIDE DEF steps, settled
  <1>5. DeriveRunState(settled) \in RunStates
    BY <1>4, DerivedType
  <1>6. next \in Manifest /\ next.state = DeriveRunState(settled) /\ next.steps = steps
    BY <1>1, <1>4, <1>5, WithRunType DEF settled, steps
  <1>7. CASE StepsIn(m, {"awaiting_approval"}) = {}
    <2>1. m.state # "awaiting_approval"
      BY <1>7 DEF Waits
    <2> QED BY <1>4, <1>6, <2>1 DEF Waits, DeriveRunState, StepsIn
  <1>8. CASE StepsIn(m, {"awaiting_approval"}) # {}
    <2>1. PICK s \in Steps : m.steps[s].state = "awaiting_approval"
      BY <1>8 DEF StepsIn
    <2>2. steps[s].state = "awaiting_approval"
      BY <1>1, <1>2, <2>1 DEF SettledStates, Settled
    <2> QED BY <1>6, <2>2 DEF Waits, StepsIn
  <1> QED BY <1>7, <1>8

LEMMA CommandWaits ==
    ASSUME NEW m \in Manifest, Waits(m), NEW next \in CommandMoves(m)
    PROVE  next \in Manifest /\ Waits(next)
  <1>1. CASE next \in EngineMoves(m)
    BY <1>1, EngineWaits
  <1>2. CASE next \in {Approved(m, s) : s \in Elevated}
    BY <1>2, ApprovedWaits, GraphAssumption DEF Waits
  <1>3. CASE next = Cancelled(m)
    BY <1>3, CancelledType DEF Waits
  <1>4. CASE next \in Recoveries(m)
    BY <1>4, RecoveriesWait
  <1> QED BY <1>1, <1>2, <1>3, <1>4 DEF CommandMoves

-----------------------------------------------------------------------------
(* The mirror record.                                                      *)

Below == OpToRel(<, Nat)

LEMMA BelowIsWellFounded == IsWellFoundedOn(Below, Nat)
  BY NatLessThanWellFounded DEF Below

LEMMA BelowIsLess == \A i, j \in Nat : i < j => <<i, j>> \in Below
  BY DEF Below, OpToRel

\* A set of natural numbers that is not empty has a least one.
LEMMA LeastNumber ==
    ASSUME NEW S \in SUBSET Nat, S # {}
    PROVE  \E i \in S : \A j \in S : i =< j
  <1>1. PICK i \in S : \A j \in S : ~(<<j, i>> \in Below)
    BY WFMin, BelowIsWellFounded
  <1>2. i \in Nat /\ \A j \in S : j \in Nat /\ ~(j < i)
    BY <1>1, BelowIsLess
  <1>3. \A j \in S : i =< j
    BY <1>2
  <1> QED BY <1>3

\* If there is a step in a state, the record finds the first one.
LEMMA FirstIsFound ==
    ASSUME NEW m, NEW state, StepsIn(m, {state}) # {}
    PROVE  FirstIn(m, state) \in StepsIn(m, {state})
  <1>1. StepsIn(m, {state}) \in SUBSET Nat
    BY GraphAssumption DEF StepsIn, Steps
  <1>2. \E s \in Steps : First(StepsIn(m, {state}), s)
    BY <1>1, LeastNumber, StepsAreSteps DEF First
  <1>3. First(StepsIn(m, {state}), FirstIn(m, state))
    BY <1>2 DEF FirstIn
  <1> QED BY <1>3 DEF First

LEMMA MapRunStateType == \A state \in RunStates : MapRunState(state) \in MirroredStates
  BY DEF MapRunState, RunStates, MirroredStates

\* A record that says "waiting" says for which step.
LEMMA WaitingIsNamed ==
    ASSUME NEW m \in Manifest, Waits(m), RecordOf(m).mirrored = "waiting"
    PROVE  RecordOf(m).waitingOn \in Steps
  <1>1. m.state \in RunStates /\ MapRunState(m.state) = "waiting"
    BY DEF RecordOf, Manifest
  <1>2. m.state = "awaiting_approval"
    BY <1>1 DEF MapRunState, RunStates
  <1> QED BY <1>2, FirstIsFound, StepsAreSteps DEF Waits, RecordOf
=============================================================================
