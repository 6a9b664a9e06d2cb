---------------------------- MODULE ProgressMonitor ----------------------------
(***************************************************************************)
(* The progress events of a run: what resumeWorkflow tells the monitor,    *)
(* the timer of the monitor, and what the monitor passes on to the         *)
(* reporter.                                                               *)
(***************************************************************************)
EXTENDS Clock

CONSTANTS
    Steps,     \* number of steps in the workflow
    Settings,  \* what an operator may set a duration to: a number, Unset or Invalid
    Unset, Invalid,
    Default,   \* DEFAULT_CONFIG, both durations
    MinGap,    \* least time between two updates (1 s)
    MinTick, MaxTick   \* least and greatest period of the timer (30 s and 60 s)

ASSUME ProgressAssumption ==
    /\ Steps \in Nat
    /\ Unset \notin Nat /\ Invalid \notin Nat /\ None \notin Nat
    /\ Settings \subseteq Nat \cup {Unset, Invalid}
    /\ Default \in Nat /\ MaxTime \in Nat
    /\ MinGap \in Nat /\ MinTick \in Nat /\ MaxTick \in Nat

VARIABLES
    config,             \* enabled, and the two durations as they were set
    phase,              \* where resumeWorkflow is
    done,               \* steps that have been executed
    timer,              \* when the interval fires next
    longRunningStarted,
    lastLongRunningAt,
    since,              \* when this resume started
    emitted             \* the events of the last action

vars == <<config, now, phase, done, timer, longRunningStarted, lastLongRunningAt, since, emitted>>

\* resolveConfig: a variable that is not set reads as the number of "", which is 0.
Resolved(setting) ==
    CASE setting = Unset   -> 0
      [] setting = Invalid -> Default
      [] OTHER             -> setting

AtLeast(x, y) == IF x < y THEN y ELSE x
AtMost(x, y) == IF x < y THEN x ELSE y

Threshold == Resolved(config.after)
Gap == AtLeast(Resolved(config.every), MinGap)
\* Mutant: the timer is not capped.
PeriodOfInterval == AtLeast(Resolved(config.every), MinTick)

Period == AtMost(AtLeast(Resolved(config.every), MinTick), MaxTick)

Init ==
    /\ config \in [enabled : BOOLEAN, after : Settings, every : Settings]
    /\ now = 0
    /\ phase = "idle"
    /\ done = 0
    /\ timer = None
    /\ longRunningStarted = FALSE
    /\ lastLongRunningAt = 0
    /\ since = 0
    /\ emitted = {}

-----------------------------------------------------------------------------
Emit(types) == emitted' = IF config.enabled THEN types ELSE {}

\* maybeEmitLongRunning, when nothing forces it
Due ==
    /\ now >= Threshold
    /\ longRunningStarted => now - lastLongRunningAt >= Gap

Updated(force) ==
    /\ longRunningStarted' = (config.enabled /\ (longRunningStarted \/ force \/ Due))
    /\ lastLongRunningAt' = IF config.enabled /\ (force \/ Due) THEN now ELSE lastLongRunningAt

Update(force) == IF force \/ Due THEN {"long_running"} ELSE {}

\* Mutant: the timer goes on.
StopNothing == UNCHANGED timer

\* stop, in the finally of resumeWorkflow
Stop == timer' = None

\* createRunProgressMonitor and start; every resume has a monitor of its own.
Start ==
    /\ phase = "idle"
    /\ phase' = "loop"
    /\ timer' = IF config.enabled THEN now + Period ELSE None
    /\ longRunningStarted' = FALSE
    /\ lastLongRunningAt' = 0
    /\ since' = now
    /\ Emit({"run_started"})
    /\ UNCHANGED <<config, now, done>>

\* A step that needs an approval: the loop returns.
ApprovalWait ==
    /\ phase = "loop" /\ done < Steps
    /\ phase' = "idle"
    /\ Updated(TRUE)
    /\ Emit(Update(TRUE) \cup {"approval_wait"})
    /\ Stop
    /\ UNCHANGED <<config, now, done, since>>

StepStarted ==
    /\ phase = "loop" /\ done < Steps
    /\ phase' = "step"
    /\ Updated(FALSE)
    /\ Emit(Update(FALSE) \cup IF longRunningStarted' THEN {"step_started"} ELSE {})
    /\ UNCHANGED <<config, now, done, timer, since>>

StepCompleted ==
    /\ phase = "step"
    /\ phase' = "loop"
    /\ done' = done + 1
    /\ Updated(FALSE)
    /\ Emit(Update(FALSE) \cup IF longRunningStarted' THEN {"step_completed"} ELSE {})
    /\ UNCHANGED <<config, now, timer, since>>

\* onRunCompleted
Completed == IF longRunningStarted \/ now >= Threshold THEN {"run_completed"} ELSE {}

\* A failed step, or the end of the loop
RunCompleted ==
    /\ phase = "step" \/ phase = "loop"
    /\ phase' = "idle"
    /\ done' = IF phase = "step" THEN done + 1 ELSE done
    /\ Emit(Completed)
    /\ Stop
    /\ UNCHANGED <<config, now, longRunningStarted, lastLongRunningAt, since>>

\* dispatchStep or a file access throws: only the finally is executed.
Throw ==
    /\ phase # "idle"
    /\ phase' = "idle"
    /\ Emit({})
    /\ Stop
    /\ UNCHANGED <<config, now, done, longRunningStarted, lastLongRunningAt, since>>

\* The timer fires.
Tick ==
    /\ timer = now
    /\ timer' = now + Period
    /\ Updated(FALSE)
    /\ Emit(Update(FALSE))
    /\ UNCHANGED <<config, now, phase, done, since>>

TimePasses ==
    /\ now < MaxTime
    /\ timer # now
    /\ now' = now + 1
    /\ Emit({})
    /\ UNCHANGED <<config, phase, done, timer, longRunningStarted, lastLongRunningAt, since>>

Next ==
    \/ Start \/ ApprovalWait \/ StepStarted \/ StepCompleted
    \/ RunCompleted \/ Throw \/ Tick \/ TimePasses

Spec == Init /\ [][Next]_vars

-----------------------------------------------------------------------------
Events == {"run_started", "long_running", "step_started", "step_completed",
           "approval_wait", "run_completed"}

\* The monitor's variables stay within their types, and its timer is set to a
\* time not yet past exactly while a resume is under way that reports.
TypeOK ==
    /\ config \in [enabled : BOOLEAN, after : Settings, every : Settings]
    /\ now \in 0..MaxTime
    /\ phase \in {"idle", "loop", "step"}
    /\ done \in 0..Steps
    /\ phase = "step" => done < Steps
    /\ timer # None <=> phase # "idle" /\ config.enabled
    /\ timer # None => timer \in now..(now + Period)
    /\ longRunningStarted \in BOOLEAN
    /\ lastLongRunningAt \in 0..now
    /\ since \in 0..now
    /\ emitted \subseteq Events

\* While a run that is over its threshold is under way, an update comes at
\* least as often as it was asked for, give or take one period of a timer that
\* is never slower than MaxTick: whatever steps start and end in between.
NoLongSilence ==
    phase # "idle" /\ config.enabled =>
        now =< MaxTick + IF longRunningStarted THEN lastLongRunningAt + Gap
                                               ELSE AtLeast(since, Threshold)

\* Nothing is reported of a run that no command works on.
SilentAtRest == [][phase = "idle" /\ phase' = "idle" => emitted' = {}]_vars
=============================================================================
