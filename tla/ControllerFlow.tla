---------------------------- MODULE ControllerFlow ----------------------------
(***************************************************************************)
(* The TaskFlow controller of the plugin: records of flows that launch     *)
(* ToolFlow runs and follow them through their mirror records.  All of it  *)
(* runs in the plugin's process, where only a launch waits for something;  *)
(* runs are also worked on by commands of other processes.  The manifest   *)
(* of a run and its mirror record change together here: TaskflowMirror     *)
(* looks at the moments between the two.                                   *)
(***************************************************************************)
EXTENDS RunLife, Sequences, SequencesExt

CONSTANTS
    Flows,      \* flow ids
    Runs,       \* run ids
    Launches,   \* calls of launchControllerWorkflow that may be under way
    MaxOutside  \* bound: updates of flows, and moves of runs by other processes

Statuses == {"running", "waiting", "blocked", "done", "failed", "cancelled"}

Links == [run : Runs, runState : RunStates, mirrored : MirroredStates]

FlowRecord == [status : Statuses, wait : Steps \cup {None}, links : Seq(Links)]

ASSUME ControllerAssumption ==
    /\ None \notin Flows \cup Runs \cup Manifest \cup FlowRecord
    /\ MaxOutside \in Nat

VARIABLES
    runs,    \* run |-> its manifest
    flows,   \* flow |-> its record
    saving,  \* the flow that is being saved, or None
    torn,    \* flows whose file a crash has left empty
    index,   \* flow |-> its status in index.json; an index that cannot be parsed is
             \* read as one without entries
    stale,   \* history: flows of which the entry was lost or not written in a crash
    launch,  \* launch |-> the local variables of that call
    loop,    \* the local variables of the reconciliation that is under way
    owner,   \* run |-> the flow it was launched for; in no file
    dropped, \* runs that no record has a link of, through a launch that threw, died or
             \* overtook another; in no file
    careless,\* history: flows that an update has left waiting for nothing; in no file
    outside  \* updates and outside moves so far

listed == <<torn, index, stale>>

vars == <<runs, flows, saving, listed, launch, loop, owner, dropped, careless, outside>>

NoLaunch == [flow |-> None, run |-> None, copy |-> None, manifest |-> None]

NoLoop == [flow |-> None, copy |-> None, next |-> 0]

Init ==
    /\ runs = [r \in Runs |-> None]
    /\ flows = [f \in Flows |-> None]
    /\ saving = None
    /\ torn = {}
    /\ index = [f \in Flows |-> None]
    /\ stale = {}
    /\ launch = [t \in Launches |-> NoLaunch]
    /\ loop = NoLoop
    /\ owner = [r \in Runs |-> None]
    /\ dropped = {}
    /\ careless = {}
    /\ outside = 0

\* The plugin's one thread is neither in a reconciliation nor in a save.
Free == loop = NoLoop /\ saving = None

Readable(f) == flows[f] # None /\ f \notin torn

\* saveFlow up to upsertIndex
SaveFlow(f, flow) ==
    /\ flows' = [flows EXCEPT ![f] = flow]
    /\ saving' = f
    /\ UNCHANGED listed

\* Mutant: the index keeps the first entry of a flow.
UpsertIndexOnce ==
    /\ saving # None
    /\ index' = [index EXCEPT ![saving] = IF @ = None THEN flows[saving].status ELSE @]
    /\ stale' = stale \ {saving}
    /\ saving' = None
    /\ UNCHANGED <<runs, flows, torn, launch, loop, owner, dropped, careless, outside>>

UpsertIndex ==
    /\ saving # None
    /\ index' = [index EXCEPT ![saving] = flows[saving].status]
    /\ stale' = stale \ {saving}
    /\ saving' = None
    /\ UNCHANGED <<runs, flows, torn, launch, loop, owner, dropped, careless, outside>>

-----------------------------------------------------------------------------
\* createControllerFlow
Create(f) ==
    /\ Free
    /\ flows[f] = None
    /\ SaveFlow(f, [status |-> "running", wait |-> None, links |-> <<>>])
    /\ UNCHANGED <<runs, launch, loop, owner, dropped, careless, outside>>

\* A flow that waits, and does not say for what.
WaitsForNoStep(flow) == flow.status = "waiting" /\ flow.wait = None

\* updateControllerFlow assigns whatever the caller gives it, of the status and of what is
\* waited for; a field that the caller leaves out stays as it is, which is one of the choices.
Update(f) ==
    /\ Free
    /\ outside < MaxOutside
    /\ outside' = outside + 1
    /\ Readable(f)
    /\ \E status \in Statuses, wait \in Steps \cup {None} :
         LET flow == [flows[f] EXCEPT !.status = status, !.wait = wait]
         IN  /\ SaveFlow(f, flow)
             /\ careless' = IF WaitsForNoStep(flow) THEN careless \cup {f} ELSE careless
    /\ UNCHANGED <<runs, launch, loop, owner, dropped>>

\* launchControllerWorkflow up to the first wait: the flow is read, the run prepared.
StartLaunch(t) ==
    /\ Free
    /\ launch[t] = NoLaunch
    /\ \E f \in Flows, r \in Runs, verdict \in {"ready", "rejected"} :
         LET m == NewManifest(verdict)
         IN  /\ Readable(f)
             /\ runs[r] = None
             /\ launch' = [launch EXCEPT ![t] =
                             [flow |-> f, run |-> r, copy |-> flows[f], manifest |-> m]]
             /\ runs' = [runs EXCEPT ![r] = m]
             /\ owner' = [owner EXCEPT ![r] = f]
    /\ UNCHANGED <<flows, saving, listed, loop, dropped, careless, outside>>

Executed(m) == Returned(m) \/ ~Resumable(m)

\* The engine of runWorkflow works on its own copy of the manifest.
Engine(t) ==
    LET l == launch[t]
    IN  /\ Free
        /\ l # NoLaunch
        /\ ~Executed(l.manifest)
        /\ \E m \in EngineMoves(l.manifest) :
             /\ launch' = [launch EXCEPT ![t].manifest = m]
             /\ runs' = [runs EXCEPT ![l.run] = m]
        /\ UNCHANGED <<flows, saving, listed, loop, owner, dropped, careless, outside>>

Link(r, m) == [run |-> r, runState |-> m.state, mirrored |-> MapRunState(m.state)]

\* Mutant: the linked runs are replaced instead of added to.
LinkedAlone(flow, r, returned) ==
    [flow EXCEPT !.links = <<[Link(r, runs[r]) EXCEPT !.runState = returned.state]>>]

\* The link has the run state runWorkflow returned and the one the mirror has now.
Linked(flow, r, returned) ==
    [flow EXCEPT !.links = Append(@, [Link(r, runs[r]) EXCEPT !.runState = returned.state])]

RunsOf(flow) == {flow.links[i].run : i \in DOMAIN flow.links}

\* The rest of launchControllerWorkflow: the copy of the flow that was read at
\* the start is saved with the link, over what other launches have linked since.
Attach(t) ==
    LET l == launch[t]
    IN  /\ Free
        /\ l # NoLaunch
        /\ Executed(l.manifest)
        /\ SaveFlow(l.flow, Linked(l.copy, l.run, l.manifest))
        /\ launch' = [launch EXCEPT ![t] = NoLaunch]
        /\ dropped' = dropped \cup (RunsOf(flows[l.flow]) \ RunsOf(l.copy))
        /\ UNCHANGED <<runs, loop, owner, careless, outside>>

\* runWorkflow throws.
LaunchThrows(t) ==
    LET l == launch[t]
    IN  /\ Free
        /\ l # NoLaunch
        /\ StepsIn(l.manifest, {"running"}) # {}
        /\ launch' = [launch EXCEPT ![t] = NoLaunch]
        /\ dropped' = dropped \cup {l.run}
        /\ UNCHANGED <<runs, flows, saving, listed, loop, owner, careless, outside>>

\* What a crash in the middle of a save leaves: a flow that is not listed as it
\* is, an empty index, or an empty flow.
CutSave ==
    \/ /\ stale' = stale \cup {saving}
       /\ UNCHANGED <<torn, index>>
    \/ /\ index' = [f \in Flows |-> None]
       /\ stale' = {f \in Flows : flows[f] # None}
       /\ UNCHANGED torn
    \/ /\ torn' = torn \cup {saving}
       /\ UNCHANGED <<index, stale>>

\* The process of the plugin is killed.
PluginDies ==
    LET open == {t \in Launches : launch[t] # NoLaunch}
    IN  /\ open # {} \/ ~Free
        /\ launch' = [t \in Launches |-> NoLaunch]
        /\ loop' = NoLoop
        /\ dropped' = dropped \cup {launch[t].run : t \in open}
        /\ saving' = None
        /\ IF saving = None THEN UNCHANGED listed ELSE CutSave
        /\ UNCHANGED <<runs, flows, owner, careless, outside>>

-----------------------------------------------------------------------------
(***************************************************************************)
(* reconcileControllerFlow reads the mirror of one linked run after the    *)
(* other; other processes may go on in between.                            *)
(***************************************************************************)
StartReconcile(f) ==
    /\ Free
    /\ Readable(f)
    /\ loop' = [flow |-> f, copy |-> flows[f], next |-> 1]
    /\ UNCHANGED <<runs, flows, saving, listed, launch, owner, dropped, careless, outside>>

\* Mutant: a done run does not change the status.
DoneChangesNothing(flow, mirrored, waitingOn) ==
    CASE mirrored = "waiting"   -> [flow EXCEPT !.status = "waiting", !.wait = waitingOn]
      [] mirrored = "blocked"   -> [flow EXCEPT !.status = "blocked"]
      [] mirrored = "done"      -> flow
      [] mirrored = "cancelled" -> [flow EXCEPT !.status = "cancelled"]
      [] mirrored = "running"   -> flow

\* Mutant: what is waited for is not recorded.
WaitsForNothing(flow, mirrored, waitingOn) ==
    CASE mirrored = "waiting"   -> [flow EXCEPT !.status = "waiting"]
      [] mirrored = "blocked"   -> [flow EXCEPT !.status = "blocked"]
      [] mirrored = "done"      -> [flow EXCEPT !.status = "running", !.wait = None]
      [] mirrored = "cancelled" -> [flow EXCEPT !.status = "cancelled"]
      [] mirrored = "running"   -> flow

\* What one mirror record does to the flow.
Mapped(flow, mirrored, waitingOn) ==
    CASE mirrored = "waiting"   -> [flow EXCEPT !.status = "waiting", !.wait = waitingOn]
      [] mirrored = "blocked"   -> [flow EXCEPT !.status = "blocked"]
      [] mirrored = "done"      -> [flow EXCEPT !.status = "running", !.wait = None]
      [] mirrored = "cancelled" -> [flow EXCEPT !.status = "cancelled"]
      [] mirrored = "running"   -> flow

ReconcileLink ==
    /\ loop # NoLoop
    /\ loop.next =< Len(loop.copy.links)
    /\ LET r == loop.copy.links[loop.next].run
           record == RecordOf(runs[r])
       IN  loop' = [loop EXCEPT !.copy = Mapped([@ EXCEPT !.links[loop.next] = Link(r, runs[r])],
                                                record.mirrored, record.waitingOn),
                                !.next = @ + 1]
    /\ UNCHANGED <<runs, flows, saving, listed, launch, owner, dropped, careless, outside>>

EndReconcile ==
    /\ loop # NoLoop
    /\ loop.next > Len(loop.copy.links)
    /\ SaveFlow(loop.flow, loop.copy)
    /\ loop' = NoLoop
    /\ UNCHANGED <<runs, launch, owner, dropped, careless, outside>>

\* A command of another process works on a run.
Command(r) ==
    /\ outside < MaxOutside
    /\ outside' = outside + 1
    /\ runs[r] # None
    /\ \E m \in CommandMoves(runs[r]) : runs' = [runs EXCEPT ![r] = m]
    /\ UNCHANGED <<flows, saving, listed, launch, loop, owner, dropped, careless>>

Next ==
    \/ \E f \in Flows : Create(f) \/ Update(f) \/ StartReconcile(f)
    \/ \E t \in Launches : StartLaunch(t) \/ Engine(t) \/ Attach(t) \/ LaunchThrows(t)
    \/ UpsertIndex
    \/ ReconcileLink
    \/ EndReconcile
    \/ PluginDies
    \/ \E r \in Runs : Command(r)

Spec == Init /\ [][Next]_vars

-----------------------------------------------------------------------------
\* The index lists every flow with the status of its record, unless a crash cut
\* a save short: then it is wrong about the flow that was being saved, or about
\* every flow that was not saved since.
IndexIsTrue ==
    \A f \in Flows : Readable(f) /\ f \notin stale /\ saving # f => index[f] = flows[f].status

Launching(r) == \E t \in Launches : launch[t].run = r

Linkable(r) == owner[r] # None /\ owner[r] \notin torn /\ ~Launching(r) /\ r \notin dropped

\* A run that was launched for a flow is linked to it, and no reconciliation,
\* update, later launch or crash in a save loses the link.  Excepted are a run
\* whose launch threw or died, one whose link another launch of the flow, begun
\* before it was made, has overwritten, and a flow whose file a crash has emptied.
LinksAreKept ==
    \A r \in Runs : Linkable(r) => r \in RunsOf(flows[owner[r]])

\* A flow waits for nothing only after an update has made it do so: no launch,
\* reconciliation or crash does, because a run that awaits approval has a step that
\* does whichever command wrote its manifest, and because a reconciliation takes away
\* what is waited for only together with the status.
WaitsAreNamed ==
    \A f \in Flows : flows[f] # None /\ WaitsForNoStep(flows[f]) => f \in careless

\* The status each mirrored state calls for.
Calls == [waiting |-> "waiting", blocked |-> "blocked", done |-> "running",
          cancelled |-> "cancelled"]

AtWork(link) == link.mirrored = "running"

\* Of the first n links, i is the last one whose run is not at work.
LastStop(links, n, i) == ~AtWork(links[i]) /\ \A j \in (i + 1)..n : AtWork(links[j])

\* The status that the first n links call for; "status", if their runs are all at work.
CalledFor(links, n, status, called) ==
    /\ (\A i \in 1..n : AtWork(links[i])) => called = status
    /\ \A i \in 1..n : LastStop(links, n, i) => called = Calls[links[i].mirrored]

\* The reconciliation gives the flow the status that the last of its runs that
\* is not at work calls for, and leaves it alone if all are at work; that a run
\* moves on while its neighbours are read makes no difference.
LastStopDecides ==
    [][\A f \in Flows :
         loop.flow = f /\ flows'[f] # flows[f] =>
           CalledFor(flows'[f].links, Len(flows'[f].links), flows[f].status, flows'[f].status)]_vars
=============================================================================
