---------------------------- MODULE ElevatedCell ----------------------------
(***************************************************************************)
(* The elevated cell: one request that runs a child process, the timer on  *)
(* it, and the two events ('error' and 'close') that settle the request.   *)
(*                                                                         *)
(* The child is the environment.  It may exit by itself at any time.       *)
(* SIGTERM ends a prompt child, with every pipe to it, within Grace; a     *)
(* lingering one leaves a descendant with the pipes; a stubborn one goes   *)
(* on.  What it prints and the working directory are left out.             *)
(***************************************************************************)
EXTENDS Clock

CONSTANTS
    Binaries,      \* what a command may name, one that cannot be run included
    Allowed,       \* TOOLFLOW_ELEVATED_ALLOW, as the process was started with
    Timeouts,      \* the timeoutMs that a payload may give
    DefaultTime,   \* without one, and for git apply (10 s)
    LongestDelay,  \* the longest that setTimeout can wait (2^31 - 1 ms)
    Grace          \* how long a prompt child takes to obey

ASSUME CellAssumption ==
    /\ Timeouts \subseteq Int
    /\ DefaultTime \in 1..LongestDelay
    /\ LongestDelay \in Nat /\ Grace \in Nat

VARIABLES
    cell,      \* where runElevatedCell is
    request,
    outcome,   \* what came of it
    child,     \* the child of the last request that had one
    deadline,  \* when the timer on the child fires
    spawnedAt, \* when the child was started
    signalled  \* when SIGTERM was sent to it

cellVars == <<cell, request, outcome, child, deadline, spawnedAt, signalled>>

\* binary and timeout: those of a command; verify: whether there is a verifyFile.
Request ==
    [action : {"exec_command"}, binary : Binaries, timeout : Timeouts \cup {None}, verify : {FALSE}]
      \cup [action : {"apply_patch"}, binary : {None}, timeout : {None}, verify : BOOLEAN]
      \cup [action : {"other"}, binary : {None}, timeout : {None}, verify : {FALSE}]

Natures == {"prompt", "lingering", "stubborn"}

\* status: "zero", "nonzero" and "signal" are ways to have exited; piped: some
\* process still holds its output; spared: a kill of it was refused.
Child == [nature : Natures, status : {"running", "zero", "nonzero", "signal"},
          piped : BOOLEAN, spared : BOOLEAN]

NoChild == [nature |-> "prompt", status |-> "zero", piped |-> FALSE, spared |-> FALSE]

NoRequest == [action |-> "other", binary |-> None, timeout |-> None, verify |-> FALSE]

CellInit ==
    /\ cell = "idle"
    /\ request = NoRequest
    /\ outcome = None
    /\ child = NoChild
    /\ deadline = None
    /\ spawnedAt = 0
    /\ signalled = None

-----------------------------------------------------------------------------
(* The request.                                                            *)

\* setTimeout waits one unit when it is asked for less, or for more than it can.
Delay(t) == IF t \in 1..LongestDelay THEN t ELSE 1

\* Only exec_command takes its timeout from the payload.
TimeLimit(r) == Delay(IF r.timeout = None THEN DefaultTime ELSE r.timeout)

Settle(result) == cell' = "settled" /\ outcome' = result /\ deadline' = None

\* Mutant: the timer is not set.
SpawnUntimed(r) ==
    \E nature \in Natures :
      /\ cell' = "waiting"
      /\ child' = [nature |-> nature, status |-> "running", piped |-> TRUE, spared |-> FALSE]
      /\ deadline' = None
      /\ UNCHANGED outcome

\* spawnCapture; a binary that cannot be started is an 'error' event.
SpawnTimed(r) ==
    \E nature \in Natures :
      /\ cell' = "waiting"
      /\ child' = [nature |-> nature, status |-> "running", piped |-> TRUE, spared |-> FALSE]
      /\ deadline' = now + TimeLimit(r)
      /\ UNCHANGED outcome

Spawn(r) ==
    /\ spawnedAt' = now
    /\ signalled' = None
    /\ SpawnTimed(r) \/ (Settle("threw") /\ UNCHANGED child)

\* An action of another name is answered; a missing argument throws, and so does
\* a command that is not on the allowlist.  No child is started.
Decline(r) ==
    /\ \/ r.action = "other" /\ Settle("failed")
       \/ r.action = "exec_command" /\ r.binary \notin Allowed /\ Settle("threw")
       \/ r.action = "apply_patch" /\ Settle("threw")
    /\ UNCHANGED <<child, spawnedAt, signalled>>

\* runElevatedCell, up to the first await: exec_command spawns at once.
RunElevatedCell(r) ==
    /\ cell = "idle"
    /\ request' = r
    /\ \/ Decline(r)
       \/ r.action = "exec_command" /\ r.binary \in Allowed /\ Spawn(r)
       \/ /\ r.action = "apply_patch"
          /\ cell' = "patching"
          /\ UNCHANGED <<outcome, child, deadline, spawnedAt, signalled>>

\* The patch is in a file of its own, or could not be put there.
PatchWritten ==
    /\ cell = "patching"
    /\ Spawn(request) \/ (Settle("threw") /\ UNCHANGED <<child, spawnedAt, signalled>>)
    /\ UNCHANGED request

-----------------------------------------------------------------------------
(* The child and the events.                                               *)

Exited == child.status # "running"

\* It exits by itself or because of the signal.
ChildExits ==
    /\ ~Exited
    /\ \E status \in {"zero", "nonzero"} \cup (IF signalled = None THEN {} ELSE {"signal"}),
          piped \in (IF child.nature = "lingering" THEN BOOLEAN ELSE {FALSE}) :
         child' = [child EXCEPT !.status = status, !.piped = piped]
    /\ UNCHANGED <<cell, request, outcome, deadline, spawnedAt, signalled>>

\* The descendant of a lingering child ends, if ever.
PipesClose ==
    /\ Exited /\ child.piped
    /\ child' = [child EXCEPT !.piped = FALSE]
    /\ UNCHANGED <<cell, request, outcome, deadline, spawnedAt, signalled>>

\* Mutant: the timer settles the request and leaves the child alone.
TimeIsUpSettles ==
    /\ cell = "waiting" /\ deadline = now
    /\ Settle("failed")
    /\ UNCHANGED <<request, child, spawnedAt, signalled>>

\* The timer: one SIGTERM, which is lost on a child that has exited.
TimeIsUp ==
    /\ cell = "waiting" /\ deadline = now
    /\ deadline' = None
    /\ signalled' = IF Exited THEN signalled ELSE now
    /\ UNCHANGED <<cell, request, outcome, child, spawnedAt>>

\* The kill is refused (the child runs as somebody else): an 'error' event, which
\* settles the request while the child goes on.
KillRefused ==
    /\ cell = "waiting" /\ deadline = now
    /\ ~Exited
    /\ Settle("threw")
    /\ child' = [child EXCEPT !.spared = TRUE]
    /\ UNCHANGED <<request, spawnedAt, signalled>>

\* Mutant: an exit without a code is taken for code 0.
ResultOfSignal(status) == IF status \in {"zero", "signal"} THEN "succeeded" ELSE "failed"

\* A child that died of a signal has no exit code.
Result(status) == IF status = "zero" THEN "succeeded" ELSE "failed"

Closed == Exited /\ ~child.piped

\* The 'close' event.  runApplyPatch then reads the file it is to verify, which
\* may fail although the patch is applied.
Close ==
    /\ cell = "waiting" /\ Closed
    /\ \/ Settle(Result(child.status))
       \/ /\ request.action = "apply_patch" /\ request.verify /\ child.status = "zero"
          /\ Settle("threw")
    /\ UNCHANGED <<request, child, spawnedAt, signalled>>

\* The bridge gets its answer, and the locals of the request are gone.  Of its
\* child only one that goes on is left.
Answered ==
    /\ cell = "settled"
    /\ cell' = "idle"
    /\ request' = NoRequest
    /\ outcome' = None
    /\ child' = IF Exited THEN NoChild ELSE child
    /\ spawnedAt' = 0
    /\ signalled' = None
    /\ UNCHANGED deadline

CellStep == PatchWritten \/ ChildExits \/ PipesClose \/ TimeIsUp \/ KillRefused \/ Close

\* What has to happen before time goes on: callbacks that are due, and the end
\* of a prompt child.
CellMayWait ==
    /\ cell # "settled"
    /\ cell = "waiting" => deadline # now /\ ~Closed
    /\ child.nature = "prompt" /\ ~Exited /\ signalled # None => now < signalled + Grace

-----------------------------------------------------------------------------
CellTypeOK ==
    /\ cell \in {"idle", "patching", "waiting", "settled"}
    /\ request \in Request
    /\ outcome \in {None, "succeeded", "failed", "threw"}
    /\ child \in Child
    /\ deadline \in Nat \cup {None}
    /\ spawnedAt \in 0..now
    /\ signalled \in (0..now) \cup {None}

\* A request has succeeded only if its child exited with code 0 and nobody can
\* add to its output any more, whether it was signalled, lingered or was spared;
\* and a request for a binary that is not on the list is refused: it never waits
\* for a child, and never succeeds or fails.
ResultIsEarned ==
    /\ cell = "settled" /\ outcome = "succeeded" => child.status = "zero" /\ ~child.piped
    /\ request.action = "exec_command" /\ request.binary \notin Allowed =>
         cell = "settled" /\ outcome = "threw"

\* No child outlives its request, unless a kill of it was refused.
NoChildIsLeft == cell # "waiting" => Exited \/ child.spared

\* A command whose child obeys SIGTERM takes no longer than its time limit and
\* what the child needs to obey; and no child is signalled before its time.
CommandTimeIsBounded ==
    cell = "waiting" =>
      /\ child.nature = "prompt" => now =< spawnedAt + TimeLimit(request) + Grace
      /\ signalled # None => signalled >= spawnedAt + TimeLimit(request)
=============================================================================
