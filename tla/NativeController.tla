--------------------------- MODULE NativeController ---------------------------
(***************************************************************************)
(* The prototype of a controller for native TaskFlow flows.  The flow is   *)
(* kept by a service that checks revisions; a wake hands the controller a  *)
(* snapshot of it, and every call the controller makes to the service or   *)
(* to ToolFlow is awaited, so wakes overlap each other and the runs.       *)
(***************************************************************************)
EXTENDS Integers, Sequences, SequencesExt

CONSTANTS
    Runs,         \* run ids
    Wakes,        \* calls of onWake that may be under way
    Statuses,     \* bound: the statuses of LinkedRunStatus that runs take
    MaxRevision,  \* bound: mutations of the flow
    None          \* absent

VARIABLES
    flow,  \* the flow as the service keeps it
    runs,  \* run |-> its state
    wake,  \* wake |-> program counter and local variables of that onWake
    lost   \* history: runs whose wake ended without a mutation that was applied

vars == <<flow, runs, wake, lost>>

LinkedRunStatus == {"ready", "running", "awaiting_approval", "succeeded", "failed",
                    "quarantined", "cancelled", "rejected"}

ASSUME NativeAssumption ==
    /\ None \notin Runs \cup LinkedRunStatus
    /\ Statuses \subseteq LinkedRunStatus
    /\ MaxRevision \in Nat

\* ControllerFlowStatus, of a decision
ControllerFlowStatus == {"running", "waiting", "blocked", "done", "failed", "cancelled"}

\* mapToolflowToController
MapToolflow(status) ==
    CASE status \in {"ready", "running", "succeeded"}                    -> "running"
      [] status = "awaiting_approval"                                    -> "waiting"
      [] status \in {"failed", "quarantined", "rejected", "cancelled"}   -> "blocked"

NoLaunch == [status |-> None, launch |-> FALSE]

Idle == [pc |-> "idle", revision |-> 0, links |-> <<>>, next |-> 1, decision |-> NoLaunch]

\* create
Init ==
    /\ flow = [revision |-> 0, status |-> "running", wait |-> None, links |-> <<>>]
    /\ runs = [r \in Runs |-> None]
    /\ wake = [w \in Wakes |-> Idle]
    /\ lost = {}

-----------------------------------------------------------------------------
At(w, pc) == wake[w].pc = pc

\* Mutations of a flow that is over are refused by the service.
Open == flow.status \in {"running", "waiting"}

\* onWake is called with what the flow was when the wake was dispatched.
StartWake(w) ==
    /\ At(w, "idle")
    /\ Open
    /\ wake' = [wake EXCEPT ![w] = [Idle EXCEPT !.pc = "reconcile", !.revision = flow.revision,
                                                !.links = flow.links]]
    /\ UNCHANGED <<flow, runs, lost>>

\* reconcileLinkedRuns, one awaited getRunStatus after the other
Reconcile(w) ==
    LET i == wake[w].next
    IN  /\ At(w, "reconcile")
        /\ i =< Len(wake[w].links)
        /\ wake' = [wake EXCEPT ![w].links[i].status = runs[wake[w].links[i].run],
                                ![w].next = i + 1]
        /\ UNCHANGED <<flow, runs, lost>>

Needs(links, mapped) == {i \in DOMAIN links : MapToolflow(links[i].status) \in mapped}

\* Mutant: only the run linked last is looked at.
LastNeed(links) ==
    IF links # <<>> /\ MapToolflow(Last(links).status) # "running" THEN Len(links) ELSE 0

\* The first run in the list that waits or is blocked decides.
FirstNeed(links) ==
    LET needs == Needs(links, {"waiting", "blocked"})
    IN  IF needs = {} THEN 0 ELSE CHOOSE i \in needs : \A j \in needs : i =< j

\* The loop of onWake over the reconciled runs
Review(w) ==
    LET links == wake[w].links
        i == FirstNeed(links)
    IN  /\ At(w, "reconcile")
        /\ wake[w].next > Len(links)
        /\ IF i = 0
           THEN wake' = [wake EXCEPT ![w].pc = "decide"]
           ELSE wake' = [wake EXCEPT ![w].pc = "mutate",
                                     ![w].decision.status = MapToolflow(links[i].status)]
        /\ UNCHANGED <<flow, runs, lost>>

\* decideNext is the caller's; advance launches a run only if the decision names one.
Decide(w) ==
    /\ At(w, "decide")
    /\ \E status \in ControllerFlowStatus, launch \in BOOLEAN :
         wake' = [wake EXCEPT ![w].pc = IF launch THEN "launch" ELSE "mutate",
                              ![w].decision = [status |-> status, launch |-> launch]]
    /\ UNCHANGED <<flow, runs, lost>>

\* Mutant: the link is forgotten.
LinkForgotten(links, r, status) == links

\* Mutant: the link is put down twice.
LinkTwice(links, r, status) == Append(Append(links, [run |-> r, status |-> status]),
                                      [run |-> r, status |-> status])

Link(links, r, status) == Append(links, [run |-> r, status |-> status])

\* startRun, and the link in the controller's copy of the state
Launch(w) ==
    /\ At(w, "launch")
    /\ \E r \in Runs, status \in Statuses :
         /\ runs[r] = None
         /\ runs' = [runs EXCEPT ![r] = status]
         /\ wake' = [wake EXCEPT ![w].pc = "mutate", ![w].links = Link(@, r, status)]
    /\ UNCHANGED <<flow, lost>>

LaunchThrows(w) ==
    /\ At(w, "launch")
    /\ wake' = [wake EXCEPT ![w] = Idle]
    /\ UNCHANGED <<flow, runs, lost>>

RunsIn(links) == {links[i].run : i \in DOMAIN links}

\* What only this wake knows of.
Unrecorded(w) == RunsIn(wake[w].links) \ RunsIn(flow.links)

\* advance has no mutation for a decision that says "cancelled".
Unsupported(w) ==
    /\ At(w, "mutate")
    /\ wake[w].decision.status = "cancelled"
    /\ wake' = [wake EXCEPT ![w] = Idle]
    /\ lost' = lost \cup Unrecorded(w)
    /\ UNCHANGED <<flow, runs>>

\* resume, setWaiting, finish and fail: the decision's "blocked" fails the flow.
Outcome(status) == IF status = "blocked" THEN "failed" ELSE status

\* Mutant: the mutation takes the revision the flow has now.
ExpectsLatest(w) == flow.revision

Expects(w) == wake[w].revision

\* The service applies a mutation only to the revision it expects; the
\* controller does nothing about one that is not applied.
Mutate(w) ==
    LET outcome == Outcome(wake[w].decision.status)
    IN  /\ At(w, "mutate")
        /\ outcome # "cancelled"
        /\ IF Open /\ Expects(w) = flow.revision
           THEN /\ flow.revision < MaxRevision
                /\ flow' = [revision |-> flow.revision + 1, status |-> outcome,
                            wait |-> IF outcome = "waiting" THEN "wait" ELSE None,
                            links |-> wake[w].links]
                /\ UNCHANGED lost
           ELSE /\ lost' = lost \cup Unrecorded(w)
                /\ UNCHANGED flow
        /\ wake' = [wake EXCEPT ![w] = Idle]
        /\ UNCHANGED runs

\* A run goes on.
RunMoves ==
    /\ \E r \in Runs, status \in Statuses :
         /\ runs[r] # None
         /\ runs' = [runs EXCEPT ![r] = status]
    /\ UNCHANGED <<flow, wake, lost>>

Next ==
    \/ \E w \in Wakes :
         \/ StartWake(w) \/ Reconcile(w) \/ Review(w) \/ Decide(w)
         \/ Launch(w) \/ LaunchThrows(w) \/ Unsupported(w) \/ Mutate(w)
    \/ RunMoves

Spec == Init /\ [][Next]_vars

-----------------------------------------------------------------------------
\* A run that a flow references is never dropped from it, however wakes overlap.
LinksAreNeverLost == [][RunsIn(flow.links) \subseteq RunsIn(flow'.links)]_vars

\* No two links of a flow name the same run, and every link names one that exists.
LinksNameRuns ==
    /\ \A i, j \in DOMAIN flow.links : flow.links[i].run = flow.links[j].run => i = j
    /\ \A r \in RunsIn(flow.links) : runs[r] # None

\* A flow is declared done only by a wake that has seen none of the runs linked
\* before it waiting or blocked.
DoneIsReviewed ==
    [][flow'.status = "done" /\ flow.status # "done" =>
         Needs(SubSeq(flow'.links, 1, Len(flow.links)), {"waiting", "blocked"}) = {}]_vars

Working(r) == \E w \in Wakes : r \in RunsIn(wake[w].links)

\* A run that was launched for the flow is referenced by it once the wake that
\* launched it is over, unless that wake's one mutation was not applied.
EveryRunIsReferenced ==
    \A r \in Runs : runs[r] # None /\ ~Working(r) /\ r \notin lost => r \in RunsIn(flow.links)
=============================================================================
