------------------------- MODULE LongCommandsProofs -------------------------
(***************************************************************************)
(* The progress monitor for every setting, default and timer period: its   *)
(* types, that a long run is never left unreported, and that nothing is    *)
(* reported of a run at rest.  Then a resume with elevated steps, for      *)
(* every timeout, allowlist and child: the monitor behaves as              *)
(* ProgressMonitor says, whatever the cell waits for; and the cell's       *)
(* promises about children, from an invariant that ties the timer, the     *)
(* signal and the child to the time that has gone by.                      *)
(***************************************************************************)
EXTENDS LongCommands, TLAPS

\* What bounds the silence is the timer: its next tick is never further away
\* than one period after the update that is due; and it is not kept back by the
\* threshold, which the first update has seen passed.
TimerInTime ==
    phase # "idle" /\ config.enabled =>
        /\ timer =< Period + IF longRunningStarted THEN lastLongRunningAt + Gap
                                                   ELSE AtLeast(since, Threshold)
        /\ longRunningStarted => Threshold =< lastLongRunningAt

ProgressInv == TypeOK /\ TimerInTime

\* The durations that settings resolve to are numbers, and the timer is never
\* slower than MaxTick.
LEMMA Durations ==
    ASSUME TypeOK
    PROVE  /\ Threshold \in Nat
           /\ Gap \in Nat
           /\ Period \in Nat
           /\ Period =< MaxTick
<1>1. ASSUME NEW setting \in Settings
      PROVE  Resolved(setting) \in Nat
  BY <1>1, ProgressAssumption DEF Resolved
<1>2. config.after \in Settings /\ config.every \in Settings
  BY DEF TypeOK
<1>3. Resolved(config.after) \in Nat /\ Resolved(config.every) \in Nat
  BY <1>1, <1>2
<1> QED
  BY <1>3, ProgressAssumption DEF Threshold, Gap, Period, AtLeast, AtMost

\* A step that leaves the settings alone leaves the durations alone.
LEMMA DurationsStay ==
    ASSUME UNCHANGED config
    PROVE  Threshold' = Threshold /\ Gap' = Gap /\ Period' = Period
BY DEF Threshold, Gap, Period, Resolved, AtLeast, AtMost

\* An update leaves the monitor's memory of it in order.
LEMMA UpdatedInv ==
    ASSUME TypeOK, NEW force \in BOOLEAN, Updated(force), UNCHANGED <<now, config>>
    PROVE  /\ longRunningStarted' \in BOOLEAN
           /\ lastLongRunningAt' \in 0..now
           /\ Update(force) \subseteq Events
           /\ config.enabled /\ (force \/ Due) => longRunningStarted' /\ lastLongRunningAt' = now
           /\ config.enabled /\ ~force /\ ~Due => /\ longRunningStarted' = longRunningStarted
                                                  /\ lastLongRunningAt' = lastLongRunningAt
<1>1. now \in Nat /\ lastLongRunningAt \in 0..now /\ longRunningStarted \in BOOLEAN
      /\ config.enabled \in BOOLEAN
  BY ProgressAssumption DEF TypeOK
<1>2. Due \in BOOLEAN
  BY DEF Due
<1> QED
  BY <1>1, <1>2 DEF Updated, Update, Events

LEMMA InitInv == Init => ProgressInv
<1> SUFFICES ASSUME Init
             PROVE  ProgressInv
  OBVIOUS
<1>1. now \in 0..MaxTime /\ done \in 0..Steps /\ lastLongRunningAt \in 0..now /\ since \in 0..now
  BY ProgressAssumption DEF Init
<1>2. TypeOK
  BY <1>1 DEF Init, TypeOK
<1> QED
  BY <1>2 DEF Init, ProgressInv, TimerInTime

\* The inductive step: one case for each action.
LEMMA NextInv == ProgressInv /\ [Next]_vars => ProgressInv'
<1> SUFFICES ASSUME ProgressInv, [Next]_vars
             PROVE  ProgressInv'
  OBVIOUS
<1> USE ProgressAssumption
<1>0. TypeOK /\ TimerInTime
  BY DEF ProgressInv
<1>1. /\ Threshold \in Nat /\ Gap \in Nat /\ Period \in Nat
  BY <1>0, Durations
<1>t. /\ now \in 0..MaxTime /\ now \in Nat /\ lastLongRunningAt \in 0..now /\ since \in 0..now
      /\ longRunningStarted \in BOOLEAN /\ config.enabled \in BOOLEAN
      /\ timer # None => timer \in now..(now + Period)
  BY <1>0 DEF TypeOK
<1>2. CASE Start
  <2>1. Threshold' = Threshold /\ Gap' = Gap /\ Period' = Period
    BY <1>2, DurationsStay DEF Start
  <2>2. TypeOK'
    <3>1. lastLongRunningAt' \in 0..now' /\ since' \in 0..now' /\ phase' = "loop"
      BY <1>2, <1>t DEF Start
    <3>2. timer' # None <=> config.enabled
      BY <1>1, <1>2, <1>t DEF Start
    <3>3. timer' # None => timer' \in now'..(now' + Period')
      <4>1. now' = now /\ (timer' # None => timer' = now + Period)
        BY <1>2 DEF Start
      <4>2. now + Period \in now..(now + Period)
        BY <1>1, <1>t
      <4> QED
        BY <2>1, <4>1, <4>2
    <3>4. emitted' \subseteq Events
      BY <1>2 DEF Start, Emit, Events
    <3> QED
      BY <1>0, <1>2, <3>1, <3>2, <3>3, <3>4 DEF TypeOK, Start
  <2>3. TimerInTime'
    BY <1>1, <1>2, <1>t, <2>1 DEF TimerInTime, Start, AtLeast
  <2> QED
    BY <2>2, <2>3 DEF ProgressInv
<1>3. CASE ApprovalWait
  <2>1. Updated(TRUE) /\ UNCHANGED <<now, config>>
    BY <1>3 DEF ApprovalWait
  <2>2. longRunningStarted' \in BOOLEAN /\ lastLongRunningAt' \in 0..now /\ Update(TRUE) \subseteq Events
    BY <1>0, <2>1, UpdatedInv
  <2>3. TypeOK'
    BY <1>0, <1>3, <2>2 DEF TypeOK, ApprovalWait, Emit, Events, Stop
  <2> QED
    BY <1>3, <2>3 DEF ProgressInv, TimerInTime, ApprovalWait
<1>4. CASE StepStarted \/ StepCompleted
  <2>1. Updated(FALSE) /\ UNCHANGED <<now, config, timer, since>> /\ phase # "idle" /\ phase' # "idle"
    BY <1>4 DEF StepStarted, StepCompleted
  <2>2. /\ longRunningStarted' \in BOOLEAN
        /\ lastLongRunningAt' \in 0..now
        /\ Update(FALSE) \subseteq Events
        /\ config.enabled /\ Due => longRunningStarted' /\ lastLongRunningAt' = now
        /\ config.enabled /\ ~Due => /\ longRunningStarted' = longRunningStarted
                                     /\ lastLongRunningAt' = lastLongRunningAt
    BY <1>0, <2>1, UpdatedInv
  <2>3. Threshold' = Threshold /\ Gap' = Gap /\ Period' = Period
    BY <2>1, DurationsStay
  <2>4. phase' \in {"loop", "step"} /\ done' \in 0..Steps /\ (phase' = "step" => done' < Steps)
    <3>1. done \in 0..Steps /\ (phase = "step" => done < Steps)
      BY <1>0 DEF TypeOK
    <3>2. CASE StepStarted
      BY <3>1, <3>2 DEF StepStarted
    <3>3. CASE StepCompleted
      BY <3>1, <3>3 DEF StepCompleted
    <3> QED
      BY <1>4, <3>2, <3>3
  <2>5. emitted' \subseteq Events
    BY <1>4, <2>2 DEF StepStarted, StepCompleted, Emit, Events
  <2>6. TypeOK'
    BY <1>0, <2>1, <2>2, <2>3, <2>4, <2>5 DEF TypeOK
  <2>7. TimerInTime'
    <3> SUFFICES ASSUME config.enabled
                 PROVE  TimerInTime'
      BY <2>1 DEF TimerInTime
    <3>1. timer \in now..(now + Period)
      BY <1>0, <1>t, <2>1 DEF TypeOK
    <3>2. CASE Due
      <4>1. timer =< Period + (now + Gap)
        BY <1>1, <1>t, <3>1
      <4>2. Threshold =< now
        BY <1>1, <1>t, <3>2 DEF Due
      <4> QED
        BY <2>1, <2>2, <2>3, <3>2, <4>1, <4>2 DEF TimerInTime
    <3>3. CASE ~Due
      BY <1>0, <2>1, <2>2, <2>3, <3>3 DEF TimerInTime, AtLeast
    <3> QED
      BY <3>2, <3>3
  <2> QED
    BY <2>6, <2>7 DEF ProgressInv
<1>5. CASE RunCompleted
  <2>1. TypeOK'
    BY <1>0, <1>5 DEF TypeOK, RunCompleted, Emit, Completed, Events, Stop
  <2> QED
    BY <1>5, <2>1 DEF ProgressInv, TimerInTime, RunCompleted
<1>6. CASE Throw
  <2>1. TypeOK'
    BY <1>0, <1>6 DEF TypeOK, Throw, Emit, Events, Stop
  <2> QED
    BY <1>6, <2>1 DEF ProgressInv, TimerInTime, Throw
<1>7. CASE Tick
  <2>1. Updated(FALSE) /\ UNCHANGED <<now, config, phase, done, since>> /\ timer = now /\ timer' = now + Period
    BY <1>7 DEF Tick
  <2>2. /\ longRunningStarted' \in BOOLEAN
        /\ lastLongRunningAt' \in 0..now
        /\ Update(FALSE) \subseteq Events
        /\ config.enabled /\ Due => longRunningStarted' /\ lastLongRunningAt' = now
        /\ config.enabled /\ ~Due => /\ longRunningStarted' = longRunningStarted
                                     /\ lastLongRunningAt' = lastLongRunningAt
    BY <1>0, <2>1, UpdatedInv
  <2>3. Threshold' = Threshold /\ Gap' = Gap /\ Period' = Period
    BY <2>1, DurationsStay
  <2>4. emitted' \subseteq Events
    BY <1>7, <2>2 DEF Tick, Emit
  <2>5. TypeOK'
    BY <1>0, <1>1, <1>t, <2>1, <2>2, <2>3, <2>4 DEF TypeOK
  <2>6. TimerInTime'
    <3> SUFFICES ASSUME config.enabled, phase # "idle"
                 PROVE  TimerInTime'
      BY <2>1 DEF TimerInTime
    <3>1. CASE Due
      BY <1>1, <1>t, <2>1, <2>2, <2>3, <3>1 DEF TimerInTime, Due
    <3>2. CASE ~Due /\ longRunningStarted
      <4>1. Threshold =< lastLongRunningAt
        BY <1>0, <3>2 DEF TimerInTime
      <4>2. now - lastLongRunningAt < Gap
        BY <1>1, <1>t, <3>2, <4>1 DEF Due
      <4> QED
        BY <1>1, <1>t, <2>1, <2>2, <2>3, <3>2, <4>1, <4>2 DEF TimerInTime
    <3>3. CASE ~Due /\ ~longRunningStarted
      BY <1>1, <1>t, <2>1, <2>2, <2>3, <3>3 DEF TimerInTime, Due, AtLeast
    <3> QED
      BY <3>1, <3>2, <3>3
  <2> QED
    BY <2>5, <2>6 DEF ProgressInv
<1>8. CASE TimePasses
  <2>1. Threshold' = Threshold /\ Gap' = Gap /\ Period' = Period
    BY <1>8, DurationsStay DEF TimePasses
  <2>2. now' \in 0..MaxTime /\ lastLongRunningAt \in 0..now' /\ since \in 0..now'
        /\ (timer # None => timer \in now'..(now' + Period))
    BY <1>1, <1>8, <1>t DEF TimePasses
  <2>3. TypeOK'
    BY <1>0, <1>8, <2>1, <2>2 DEF TypeOK, TimePasses, Emit, Events
  <2>4. TimerInTime'
    BY <1>0, <1>8, <2>1 DEF TimerInTime, TimePasses, AtLeast
  <2> QED
    BY <2>3, <2>4 DEF ProgressInv
<1>9. CASE UNCHANGED vars
  <2>1. Threshold' = Threshold /\ Gap' = Gap /\ Period' = Period
    BY <1>9, DurationsStay DEF vars
  <2> QED
    BY <1>0, <1>9, <2>1 DEF ProgressInv, TypeOK, TimerInTime, vars, AtLeast
<1> QED
  BY <1>2, <1>3, <1>4, <1>5, <1>6, <1>7, <1>8, <1>9 DEF Next

\* The timer bound gives the silence bound, since no tick that is due is missed.
LEMMA InvImpliesNoLongSilence == ProgressInv => NoLongSilence
<1> SUFFICES ASSUME ProgressInv, phase # "idle", config.enabled
             PROVE  NoLongSilence
  BY DEF NoLongSilence
<1>1. TypeOK /\ TimerInTime
  BY DEF ProgressInv
<1>2. Threshold \in Nat /\ Gap \in Nat /\ Period \in Nat /\ Period =< MaxTick
  BY <1>1, Durations
<1>3. timer \in now..(now + Period) /\ now \in Nat /\ lastLongRunningAt \in Nat /\ since \in Nat
  BY <1>1, ProgressAssumption DEF TypeOK
<1>4. timer =< Period + IF longRunningStarted THEN lastLongRunningAt + Gap
                                              ELSE AtLeast(since, Threshold)
  BY <1>1 DEF TimerInTime
<1> QED
  BY <1>2, <1>3, <1>4, ProgressAssumption DEF NoLongSilence, AtLeast

\* createRunProgressMonitor keeps its types and its timer for every setting.
THEOREM ProgressTypeCorrect == Spec => []TypeOK
<1>1. ProgressInv => TypeOK
  BY DEF ProgressInv
<1> QED
  BY <1>1, InitInv, NextInv, PTL DEF Spec

\* maybeEmitLongRunning, called by the timer and by every step, leaves no long
\* run unreported for longer than the interval and one period of the timer.
THEOREM SilencesAreBounded == Spec => []NoLongSilence
BY InitInv, NextInv, InvImpliesNoLongSilence, PTL DEF Spec

\* No timer of a resume that has returned or thrown reports anything: the finally
\* of resumeWorkflow has stopped it.
THEOREM RestIsSilent == Spec => SilentAtRest
<1>1. ASSUME TypeOK, Next, phase = "idle", phase' = "idle"
      PROVE  emitted' = {}
  <2>1. timer # now
    <3>1. timer = None /\ now \in Nat
      BY <1>1, ProgressAssumption DEF TypeOK
    <3> QED
      BY <3>1, ProgressAssumption
  <2>2. TimePasses
    <3>1. ~StepCompleted /\ ~RunCompleted /\ ~Throw /\ ~ApprovalWait
      BY <1>1 DEF StepCompleted, RunCompleted, Throw, ApprovalWait
    <3>2. ~Start /\ ~StepStarted /\ ~Tick
      BY <1>1, <2>1 DEF Start, StepStarted, Tick
    <3> QED
      BY <1>1, <3>1, <3>2 DEF Next
  <2> QED
    BY <2>2 DEF TimePasses, Emit
<1>2. TypeOK /\ [Next]_vars => [phase = "idle" /\ phase' = "idle" => emitted' = {}]_vars
  BY <1>1
<1> QED
  BY <1>2, ProgressTypeCorrect, PTL DEF Spec, SilentAtRest

-----------------------------------------------------------------------------
(* A resume with elevated steps.                                           *)

\* While the request waits: its timer is set to its limit, or has fired, and then
\* the child was signalled at the limit or had exited.
TimerOK ==
    cell = "waiting" =>
      /\ deadline # None => /\ deadline = spawnedAt + TimeLimit(request)
                            /\ now =< deadline
                            /\ signalled = None
      /\ deadline = None => Exited \/ signalled # None
      /\ signalled # None => signalled = spawnedAt + TimeLimit(request)

\* While the request waits, a prompt child is gone as soon as it has exited, and it has
\* within its limit or soon after the signal.
ChildOK ==
    cell = "waiting" /\ child.nature = "prompt" =>
      /\ Exited => Closed /\ now =< spawnedAt + TimeLimit(request) + Grace
      /\ ~Exited /\ signalled # None => now =< signalled + Grace

\* Only a patch is written before its child is started.
RestingOK ==
    /\ cell = "patching" => request.action = "apply_patch"
    /\ ResultIsEarned

CellInv == CellTypeOK /\ TimerOK /\ ChildOK /\ RestingOK /\ NoChildIsLeft

LongInv == ProgressInv /\ CellInv

-----------------------------------------------------------------------------
(* The monitor.                                                            *)

LEMMA LongStepIsMonitorStep == [LongNext]_longVars => [Next]_vars
BY DEF LongNext, longVars, ElevatedStarts, ElevatedEnds, Ordinary, Next

\* A process that runs commands under its steps is a monitored run: nothing the
\* cell does, hang included, is seen by the monitor but as a step that lasts.
THEOREM LongCommandsAreMonitored == LongSpec => Spec
<1>1. LongInit => Init
  BY DEF LongInit
<1>2. [LongNext]_longVars => [Next]_vars
  BY LongStepIsMonitorStep
<1> QED
  BY <1>1, <1>2, PTL DEF LongSpec, Spec

\* The updates of a long run go on while a command hangs.
THEOREM HangsAreReported == LongSpec => []NoLongSilence
BY LongCommandsAreMonitored, SilencesAreBounded, PTL

-----------------------------------------------------------------------------
(* The cell.                                                               *)

LEMMA Limits ==
    ASSUME NEW r \in Request
    PROVE  TimeLimit(r) \in Nat /\ TimeLimit(r) > 0
<1>1. ASSUME NEW t \in Int
      PROVE  Delay(t) \in Nat /\ Delay(t) > 0
  BY <1>1, CellAssumption DEF Delay
<1>2. r.timeout \in Timeouts \cup {None}
  BY DEF Request
<1>3. DefaultTime \in Int
  BY CellAssumption
<1>4. CASE r.timeout = None
  BY <1>1, <1>3, <1>4 DEF TimeLimit
<1>5. CASE r.timeout # None
  BY <1>1, <1>2, <1>5, CellAssumption DEF TimeLimit
<1> QED
  BY <1>4, <1>5

LEMMA NowIsNat ==
    ASSUME TypeOK
    PROVE  now \in Nat
BY ProgressAssumption DEF TypeOK

LEMMA CellInitInv == LongInit => CellInv
BY ProgressAssumption
DEF LongInit, Init, CellInit, CellInv, CellTypeOK, TimerOK, ChildOK, RestingOK, ResultIsEarned,
    NoChildIsLeft,
    NoRequest, NoChild, Request, Child, Natures, Exited

LEMMA SpawnInv ==
    ASSUME CellInv, now \in Nat, NEW r \in Request, Spawn(r), cell \in {"idle", "patching"},
           request' = r, UNCHANGED now,
           r.action = "exec_command" => r.binary \in Allowed
    PROVE  CellInv'
<1> USE ProgressAssumption
<1>1. CASE SpawnTimed(r)
  <2>1. PICK nature \in Natures :
          /\ cell' = "waiting"
          /\ child' = [nature |-> nature, status |-> "running", piped |-> TRUE, spared |-> FALSE]
          /\ deadline' = now + TimeLimit(r)
          /\ UNCHANGED outcome
    BY <1>1 DEF SpawnTimed
  <2>2. deadline' \in Nat /\ deadline' > now
    BY <2>1, Limits
  <2>3. CellTypeOK'
    BY <2>1, <2>2 DEF CellInv, CellTypeOK, Spawn, Child
  <2>4. ~Exited' /\ deadline' # None /\ TimeLimit(r)' = TimeLimit(r)
    BY <2>1, <2>2 DEF Exited
  <2>5. TimerOK'
    BY <2>1, <2>2, <2>4 DEF TimerOK, Spawn
  <2>6. ChildOK' /\ RestingOK' /\ NoChildIsLeft'
    BY <2>1, <2>4 DEF ChildOK, RestingOK, ResultIsEarned, NoChildIsLeft, Spawn
  <2> QED
    BY <2>3, <2>5, <2>6 DEF CellInv
<1>2. CASE Settle("threw") /\ UNCHANGED child
  BY <1>2 DEF Spawn, Settle, CellInv, CellTypeOK, TimerOK, ChildOK, RestingOK, ResultIsEarned,
              NoChildIsLeft, Exited
<1> QED
  BY <1>1, <1>2 DEF Spawn

LEMMA RunElevatedCellInv ==
    ASSUME CellInv, now \in Nat, NEW r \in Request, RunElevatedCell(r), UNCHANGED now
    PROVE  CellInv'
<1>1. CASE Decline(r)
  BY <1>1
  DEF RunElevatedCell, Decline, Settle, CellInv, CellTypeOK, TimerOK, ChildOK, RestingOK,
      ResultIsEarned,
      NoChildIsLeft, Exited
<1>2. CASE r.action = "exec_command" /\ r.binary \in Allowed /\ Spawn(r)
  BY <1>2, SpawnInv DEF RunElevatedCell
<1>3. CASE /\ r.action = "apply_patch"
           /\ cell' = "patching"
           /\ UNCHANGED <<outcome, child, deadline, spawnedAt, signalled>>
  BY <1>3
  DEF RunElevatedCell, CellInv, CellTypeOK, TimerOK, ChildOK, RestingOK, ResultIsEarned,
      NoChildIsLeft, Exited
<1> QED
  BY <1>1, <1>2, <1>3 DEF RunElevatedCell

LEMMA CellStepInv ==
    ASSUME CellInv, now \in Nat, CellStep, UNCHANGED now
    PROVE  CellInv'
<1> USE ProgressAssumption, CellAssumption
<1>0. request \in Request /\ child \in Child /\ TimeLimit(request) \in Nat
  BY Limits DEF CellInv, CellTypeOK
<1>1. CASE PatchWritten
  <2>1. CASE Spawn(request)
    <3>1. request' = request /\ cell = "patching" /\ request.action # "exec_command"
      BY <1>1 DEF PatchWritten, CellInv, RestingOK, ResultIsEarned
    <3> QED
      BY <1>0, <2>1, <3>1, SpawnInv
  <2>2. CASE Settle("threw") /\ UNCHANGED <<child, spawnedAt, signalled>>
    BY <1>1, <2>2
    DEF PatchWritten, Settle, CellInv, CellTypeOK, TimerOK, ChildOK, RestingOK, ResultIsEarned,
        NoChildIsLeft, Exited
  <2> QED
    BY <1>1, <2>1, <2>2 DEF PatchWritten
<1>2. CASE ChildExits
  <2>1. PICK status \in {"zero", "nonzero", "signal"},
             piped \in (IF child.nature = "lingering" THEN BOOLEAN ELSE {FALSE}) :
          child' = [child EXCEPT !.status = status, !.piped = piped]
    BY <1>2 DEF ChildExits
  <2>2. ~Exited /\ UNCHANGED <<cell, request, outcome, deadline, spawnedAt, signalled>>
    BY <1>2 DEF ChildExits
  <2>3. child' \in Child /\ child'.nature = child.nature /\ child'.status = status
        /\ child'.piped = piped
    BY <1>0, <2>1 DEF Child
  <2>4. Exited' /\ TimeLimit(request)' = TimeLimit(request)
    BY <2>2, <2>3 DEF Exited
  <2>5. child.nature = "prompt" => Closed'
    BY <2>1, <2>3, <2>4 DEF Closed
  <2>6. cell # "settled" \/ outcome # "succeeded"
    BY <2>2 DEF CellInv, RestingOK, ResultIsEarned, Exited
  <2>7. CellTypeOK' /\ TimerOK' /\ RestingOK' /\ NoChildIsLeft'
    BY <2>2, <2>3, <2>4, <2>6 DEF CellInv, CellTypeOK, TimerOK, RestingOK, ResultIsEarned,
                                  NoChildIsLeft
  <2>8. ASSUME cell = "waiting", child.nature = "prompt"
        PROVE  now =< spawnedAt + TimeLimit(request) + Grace
    <3>1. CASE deadline # None
      BY <1>0, <2>8, <3>1 DEF CellInv, CellTypeOK, TimerOK
    <3>2. CASE deadline = None
      BY <1>0, <2>2, <2>8, <3>2 DEF CellInv, CellTypeOK, TimerOK, ChildOK
    <3> QED
      BY <3>1, <3>2
  <2>9. ChildOK'
    BY <2>2, <2>3, <2>4, <2>5, <2>8 DEF CellInv, ChildOK
  <2> QED
    BY <2>7, <2>9 DEF CellInv
<1>3. CASE PipesClose
  <2>1. /\ child' \in Child /\ child'.nature = child.nature /\ child'.status = child.status
        /\ child'.spared = child.spared /\ ~child'.piped
    BY <1>0, <1>3 DEF PipesClose, Child
  <2>2. /\ Exited /\ Exited' /\ Closed'
        /\ UNCHANGED <<cell, request, outcome, deadline, spawnedAt, signalled>>
    BY <1>3, <2>1 DEF PipesClose, Exited, Closed
  <2>3. TimeLimit(request)' = TimeLimit(request)
    BY <2>2
  <2> QED
    BY <2>1, <2>2, <2>3
    DEF CellInv, CellTypeOK, TimerOK, ChildOK, RestingOK, ResultIsEarned, NoChildIsLeft
<1>4. CASE TimeIsUp
  <2>1. /\ cell = "waiting" /\ deadline = now /\ deadline' = None
        /\ signalled' = IF Exited THEN signalled ELSE now
        /\ UNCHANGED <<cell, request, outcome, child, spawnedAt>>
    BY <1>4 DEF TimeIsUp
  <2>2. TimeLimit(request)' = TimeLimit(request) /\ Exited' = Exited /\ Closed' = Closed
    BY <2>1 DEF Exited, Closed
  <2>3. deadline = spawnedAt + TimeLimit(request) /\ signalled = None
    BY <2>1 DEF CellInv, TimerOK
  <2>4. CellTypeOK'
    BY <2>1 DEF CellInv, CellTypeOK
  <2>5. TimerOK'
    BY <2>1, <2>2, <2>3 DEF TimerOK
  <2>6. ChildOK' /\ RestingOK' /\ NoChildIsLeft'
    BY <1>0, <2>1, <2>2, <2>3 DEF CellInv, CellTypeOK, ChildOK, RestingOK, ResultIsEarned,
                                  NoChildIsLeft
  <2> QED
    BY <2>4, <2>5, <2>6 DEF CellInv
<1>5. CASE KillRefused
  <2>1. child' \in Child /\ child'.spared
    BY <1>0, <1>5 DEF KillRefused, Child
  <2> QED
    BY <1>5, <2>1
    DEF KillRefused, Settle, CellInv, CellTypeOK, TimerOK, ChildOK, RestingOK, ResultIsEarned,
        NoChildIsLeft
<1>6. CASE Close
  <2>1. /\ cell = "waiting" /\ Closed
        /\ UNCHANGED <<request, child, spawnedAt, signalled>>
        /\ Settle(Result(child.status)) \/ Settle("threw")
    BY <1>6 DEF Close
  <2>2. Result(child.status) \in {"succeeded", "failed"}
        /\ (Result(child.status) = "succeeded" => child.status = "zero")
    BY DEF Result
  <2> QED
    BY <2>1, <2>2
    DEF Settle, Closed, Exited, CellInv, CellTypeOK, TimerOK, ChildOK, RestingOK, ResultIsEarned,
        NoChildIsLeft
<1> QED
  BY <1>1, <1>2, <1>3, <1>4, <1>5, <1>6 DEF CellStep

LEMMA AnsweredInv ==
    ASSUME CellInv, now \in Nat, Answered, UNCHANGED now
    PROVE  CellInv'
<1>1. NoChild \in Child /\ NoRequest \in Request /\ NoChild.status = "zero"
      /\ NoRequest.action # "exec_command"
  BY DEF NoChild, NoRequest, Child, Request, Natures
<1> QED
  BY <1>1
  DEF Answered, CellInv, CellTypeOK, TimerOK, ChildOK, RestingOK, ResultIsEarned, NoChildIsLeft,
      Exited

LEMMA WaitInv ==
    ASSUME CellInv, now \in Nat, CellMayWait, now' = now + 1, UNCHANGED cellVars
    PROVE  CellInv'
<1>0. request \in Request /\ child \in Child /\ TimeLimit(request) \in Nat
  BY Limits DEF CellInv, CellTypeOK
<1>1. /\ UNCHANGED <<cell, request, outcome, child, deadline, spawnedAt, signalled>>
      /\ TimeLimit(request)' = TimeLimit(request) /\ Exited' = Exited /\ Closed' = Closed
  BY DEF cellVars, Exited, Closed
<1>2. CellTypeOK'
  BY <1>1 DEF CellInv, CellTypeOK
<1>3. TimerOK'
  <2>1. cell = "waiting" /\ deadline # None => now + 1 =< deadline
    BY DEF CellInv, CellTypeOK, TimerOK, CellMayWait
  <2> QED
    BY <1>1, <2>1 DEF CellInv, TimerOK
<1>4. ChildOK'
  <2>1. ASSUME cell = "waiting", child.nature = "prompt"
        PROVE  ~Exited /\ (signalled # None => now + 1 =< signalled + Grace)
    <3>1. ~Exited
      BY <2>1 DEF CellInv, ChildOK, CellMayWait
    <3> QED
      BY <2>1, <3>1, CellAssumption DEF CellInv, CellTypeOK, CellMayWait
  <2> QED
    BY <1>1, <2>1 DEF CellInv, ChildOK
<1>5. RestingOK' /\ NoChildIsLeft'
  BY <1>1 DEF CellInv, RestingOK, ResultIsEarned, NoChildIsLeft
<1> QED
  BY <1>2, <1>3, <1>4, <1>5 DEF CellInv

LEMMA LongNextInv == LongInv /\ [LongNext]_longVars => LongInv'
<1> SUFFICES ASSUME LongInv, [LongNext]_longVars
             PROVE  LongInv'
  OBVIOUS
<1>1. ProgressInv'
  BY LongStepIsMonitorStep, NextInv DEF LongInv
<1>2. CellInv /\ now \in Nat
  BY NowIsNat DEF LongInv, ProgressInv
<1>3. CASE ElevatedStarts
  BY <1>1, <1>2, <1>3, RunElevatedCellInv DEF ElevatedStarts, StepStarted, LongInv, ProgressInv
<1>4. CASE ElevatedEnds
  BY <1>1, <1>2, <1>4, AnsweredInv
  DEF ElevatedEnds, StepCompleted, RunCompleted, Throw, LongInv
<1>5. CASE CellStep /\ UNCHANGED vars
  BY <1>1, <1>2, <1>5, CellStepInv DEF vars, LongInv
<1>6. CASE TimePasses /\ CellMayWait /\ UNCHANGED cellVars
  BY <1>1, <1>2, <1>6, WaitInv DEF TimePasses, LongInv
<1>7. CASE UNCHANGED cellVars /\ UNCHANGED now
  <2>1. CellInv'
    BY <1>2, <1>7
    DEF cellVars, CellInv, CellTypeOK, TimerOK, ChildOK, RestingOK, ResultIsEarned, NoChildIsLeft,
        Exited, Closed
  <2> QED
    BY <1>1, <2>1 DEF LongInv
<1>8. Ordinary \/ (Tick /\ UNCHANGED cellVars) \/ UNCHANGED longVars
      => UNCHANGED cellVars /\ UNCHANGED now
  BY DEF Ordinary, Start, ApprovalWait, StepStarted, StepCompleted, RunCompleted, Throw, Tick,
         longVars, vars
<1> QED
  BY <1>3, <1>4, <1>5, <1>6, <1>7, <1>8 DEF LongNext

LEMMA LongInvHolds == LongSpec => []LongInv
<1>1. LongInit => LongInv
  BY InitInv, CellInitInv DEF LongInit, LongInv
<1>2. LongInv /\ [LongNext]_longVars => LongInv'
  BY LongNextInv
<1> QED
  BY <1>1, <1>2, PTL DEF LongSpec

\* Success is exit code 0 with every pipe closed; a binary off the list is refused.
THEOREM ResultsAreEarned == LongSpec => []ResultIsEarned
<1>1. LongInv => ResultIsEarned
  BY DEF LongInv, CellInv, RestingOK, ResultIsEarned
<1> QED
  BY <1>1, LongInvHolds, PTL

\* Only a refused kill leaves a child behind.
THEOREM ChildrenEnd == LongSpec => []NoChildIsLeft
<1>1. LongInv => NoChildIsLeft
  BY DEF LongInv, CellInv
<1> QED
  BY <1>1, LongInvHolds, PTL

\* A command that obeys is over within its limit and the grace.
THEOREM CommandTimesAreBounded == LongSpec => []CommandTimeIsBounded
<1>1. LongInv => CommandTimeIsBounded
  <2> SUFFICES ASSUME LongInv, cell = "waiting"
               PROVE  /\ child.nature = "prompt" => now =< spawnedAt + TimeLimit(request) + Grace
                      /\ signalled # None => signalled >= spawnedAt + TimeLimit(request)
    BY DEF CommandTimeIsBounded
  <2>1. /\ now \in Nat /\ spawnedAt \in Nat /\ TimeLimit(request) \in Nat /\ Grace \in Nat
        /\ signalled \in Nat \cup {None}
    BY NowIsNat, Limits, CellAssumption DEF LongInv, ProgressInv, CellInv, CellTypeOK
  <2> QED
    BY <2>1 DEF LongInv, CellInv, TimerOK, ChildOK
<1> QED
  BY <1>1, LongInvHolds, PTL
=============================================================================
