-------------------------- MODULE ControllerFlowProofs --------------------------
(***************************************************************************)
(* Proofs about the TaskFlow controller, for every graph and any number of *)
(* flows, runs and launches that overlap and die.                          *)
(***************************************************************************)
EXTENDS ControllerFlow, RunLifeProofs, SequenceTheorems

\* The manifests that commands write.
Fit == {m \in Manifest : Waits(m)}

LaunchRecord == [flow : Flows, run : Runs, copy : FlowRecord, manifest : Fit]

LoopRecord == [flow : Flows, copy : FlowRecord, next : Nat \ {0}]

TypeOK ==
    /\ runs \in [Runs -> Fit \cup {None}]
    /\ flows \in [Flows -> FlowRecord \cup {None}]
    /\ saving \in Flows \cup {None}
    /\ torn \subseteq Flows
    /\ index \in [Flows -> Statuses \cup {None}]
    /\ stale \subseteq Flows
    /\ launch \in [Launches -> LaunchRecord \cup {NoLaunch}]
    /\ loop \in LoopRecord \cup {NoLoop}
    /\ owner \in [Runs -> Flows \cup {None}]
    /\ dropped \subseteq Runs
    /\ careless \subseteq Flows
    /\ outside \in Nat

Prepared == {r \in Runs : runs[r] # None}

\* Every link names a run that was prepared.
LinksOK ==
    /\ \A f \in Flows : flows[f] # None => RunsOf(flows[f]) \subseteq Prepared
    /\ \A t \in Launches : launch[t] # NoLaunch => RunsOf(launch[t].copy) \subseteq Prepared

\* A run has an owner from the moment it is prepared, and a launch is of a run of its flow.
OwnersOK ==
    /\ \A r \in Runs : owner[r] # None => r \in Prepared /\ flows[owner[r]] # None
    /\ \A t \in Launches : launch[t] # NoLaunch => owner[launch[t].run] = launch[t].flow

\* The reconciliation holds the flow as it is, but for what it has read of its
\* runs, and has given it the status that those call for.
LoopOK ==
    loop # NoLoop =>
      /\ saving = None
      /\ flows[loop.flow] # None
      /\ RunsOf(loop.copy) = RunsOf(flows[loop.flow])
      /\ loop.next =< Len(loop.copy.links) + 1
      /\ CalledFor(loop.copy.links, loop.next - 1, flows[loop.flow].status, loop.copy.status)

\* Flow f, as it is or in a copy, waits for nothing only if an update made it do so.
Named(f, flow) == WaitsForNoStep(flow) => f \in careless

\* So do the flows and the copies of them that launches and the reconciliation are to save.
NamedOK ==
    /\ WaitsAreNamed
    /\ \A t \in Launches : launch[t] # NoLaunch => Named(launch[t].flow, launch[t].copy)
    /\ loop # NoLoop => Named(loop.flow, loop.copy)

SavedOK == saving # None => flows[saving] # None

ControllerInv ==
    /\ TypeOK
    /\ LinksOK
    /\ OwnersOK
    /\ LoopOK
    /\ NamedOK
    /\ SavedOK
    /\ IndexIsTrue
    /\ LinksAreKept

-----------------------------------------------------------------------------
(* Records of flows.                                                       *)

LEMMA NewIsFit == \A v \in {"ready", "rejected"} : NewManifest(v) \in Fit
  BY NewManifestType, NewManifestWaits DEF Fit, RunStates

LEMMA NothingIsNoRecord == NoLaunch \notin LaunchRecord /\ NoLoop \notin LoopRecord
                           /\ NoLaunch.run = None /\ NoLoop.flow = None
  BY ControllerAssumption DEF NoLaunch, LaunchRecord, NoLoop, LoopRecord

LEMMA FlowFields ==
    ASSUME NEW flow \in FlowRecord
    PROVE  /\ flow \in FlowRecord /\ flow.status \in Statuses /\ flow.wait \in Steps \cup {None}
           /\ flow.links \in Seq(Links) /\ flow # None
           /\ Len(flow.links) \in Nat /\ DOMAIN flow.links = 1..Len(flow.links)
           /\ RunsOf(flow) \subseteq Runs
  <1>1. /\ flow \in FlowRecord /\ flow.status \in Statuses /\ flow.wait \in Steps \cup {None}
        /\ flow.links \in Seq(Links)
    BY DEF FlowRecord
  <1>2. \A i \in DOMAIN flow.links : flow.links[i].run \in Runs
    <2>1. \A i \in DOMAIN flow.links : flow.links[i] \in Links
      BY <1>1
    <2> QED BY <2>1 DEF Links
  <1> QED BY <1>1, <1>2, ControllerAssumption DEF RunsOf

\* A new flow does not wait and has no links.
LEMMA NewFlow ==
    LET flow == [status |-> "running", wait |-> None, links |-> <<>>]
    IN  flow \in FlowRecord /\ RunsOf(flow) = {} /\ ~WaitsForNoStep(flow)
  BY EmptySeq DEF FlowRecord, WaitsForNoStep, Statuses, RunsOf

\* An update leaves a flow with the links it has.
LEMMA UpdatedFlow ==
    ASSUME NEW flow \in FlowRecord, NEW status \in Statuses, NEW wait \in Steps \cup {None}
    PROVE  LET updated == [flow EXCEPT !.status = status, !.wait = wait]
           IN  updated \in FlowRecord /\ RunsOf(updated) = RunsOf(flow)
  BY DEF FlowRecord, RunsOf

\* The link to a run has the state that its manifest has.
LEMMA LinkType ==
    ASSUME NEW r \in Runs, NEW m \in Fit
    PROVE  Link(r, m) \in Links /\ Link(r, m).run = r /\ Link(r, m).mirrored = MapRunState(m.state)
  <1>1. m.state \in RunStates
    BY DEF Fit, Manifest
  <1> QED BY <1>1, MapRunStateType DEF Link, Links

LEMMA LinkedFlow ==
    ASSUME NEW flow \in FlowRecord, NEW r \in Runs, NEW returned \in Fit, runs[r] \in Fit
    PROVE  /\ Linked(flow, r, returned) \in FlowRecord
           /\ RunsOf(Linked(flow, r, returned)) = RunsOf(flow) \cup {r}
           /\ WaitsForNoStep(Linked(flow, r, returned)) => WaitsForNoStep(flow)
  <1> DEFINE link == [Link(r, runs[r]) EXCEPT !.runState = returned.state]
             all == Append(flow.links, link)
             d == Linked(flow, r, returned)
  <1>1. Link(r, runs[r]) \in Links /\ Link(r, runs[r]).run = r /\ returned.state \in RunStates
    BY LinkType DEF Fit, Manifest
  <1>2. link \in Links /\ link.run = r
    BY <1>1 DEF Links
  <1> HIDE DEF link
  <1>3. flow.links \in Seq(Links) /\ Len(flow.links) \in Nat
        /\ DOMAIN flow.links = 1..Len(flow.links)
    BY FlowFields
  <1>4. /\ all \in Seq(Links) /\ Len(all) = Len(flow.links) + 1
        /\ \A i \in 1..Len(flow.links) : all[i] = flow.links[i]
        /\ all[Len(flow.links) + 1] = link
    BY <1>2, <1>3, AppendProperties
  <1>5. DOMAIN all = DOMAIN flow.links \cup {Len(flow.links) + 1}
    <2>1. DOMAIN all = 1..(Len(flow.links) + 1)
      BY <1>3, <1>4
    <2> QED BY <1>3, <2>1
  <1>6. d = [flow EXCEPT !.links = all]
    BY DEF Linked, link
  <1> HIDE DEF d, all
  <1>7. d \in FlowRecord /\ d.links = all /\ d.status = flow.status /\ d.wait = flow.wait
    BY <1>4, <1>6, FlowFields DEF FlowRecord
  <1>8. WaitsForNoStep(d) => WaitsForNoStep(flow)
    BY <1>7 DEF WaitsForNoStep
  <1>9. RunsOf(d) = RunsOf(flow) \cup {r}
    BY <1>2, <1>3, <1>4, <1>5, <1>7 DEF RunsOf
  <1> QED BY <1>7, <1>8, <1>9 DEF d

\* What one mirror record does to a flow
LEMMA MappedFlow ==
    ASSUME NEW flow \in FlowRecord, NEW mirrored \in MirroredStates, NEW waitingOn,
           mirrored = "waiting" => waitingOn \in Steps
    PROVE  /\ Mapped(flow, mirrored, waitingOn) \in FlowRecord
           /\ Mapped(flow, mirrored, waitingOn).links = flow.links
           /\ Mapped(flow, mirrored, waitingOn).status =
                IF mirrored = "running" THEN flow.status ELSE Calls[mirrored]
           /\ WaitsForNoStep(Mapped(flow, mirrored, waitingOn)) => WaitsForNoStep(flow)
  <1>1. flow \in FlowRecord
    OBVIOUS
  <1>2. CASE mirrored = "waiting"
    <2> DEFINE d == [flow EXCEPT !.status = "waiting", !.wait = waitingOn]
    <2>1. Mapped(flow, mirrored, waitingOn) = d
      BY <1>2 DEF Mapped
    <2>2. d \in FlowRecord /\ d.links = flow.links /\ d.status = "waiting" /\ d.wait = waitingOn
      BY <1>1, <1>2 DEF FlowRecord, Statuses
    <2> HIDE DEF d
    <2>3. ~WaitsForNoStep(d)
      BY <1>2, <2>2, StepAssumption DEF WaitsForNoStep
    <2> QED BY <1>2, <2>1, <2>2, <2>3 DEF Calls
  <1>3. CASE mirrored = "blocked"
    <2> DEFINE d == [flow EXCEPT !.status = "blocked"]
    <2>1. Mapped(flow, mirrored, waitingOn) = d
      BY <1>3 DEF Mapped
    <2>2. d \in FlowRecord /\ d.links = flow.links /\ d.status = "blocked"
      BY <1>1 DEF FlowRecord, Statuses
    <2> HIDE DEF d
    <2> QED BY <1>3, <2>1, <2>2 DEF Calls, WaitsForNoStep
  <1>4. CASE mirrored = "done"
    <2> DEFINE d == [flow EXCEPT !.status = "running", !.wait = None]
    <2>1. Mapped(flow, mirrored, waitingOn) = d
      BY <1>4 DEF Mapped
    <2>2. d \in FlowRecord /\ d.links = flow.links /\ d.status = "running"
      BY <1>1 DEF FlowRecord, Statuses
    <2> HIDE DEF d
    <2> QED BY <1>4, <2>1, <2>2 DEF Calls, WaitsForNoStep
  <1>5. CASE mirrored = "cancelled"
    <2> DEFINE d == [flow EXCEPT !.status = "cancelled"]
    <2>1. Mapped(flow, mirrored, waitingOn) = d
      BY <1>5 DEF Mapped
    <2>2. d \in FlowRecord /\ d.links = flow.links /\ d.status = "cancelled"
      BY <1>1 DEF FlowRecord, Statuses
    <2> HIDE DEF d
    <2> QED BY <1>5, <2>1, <2>2 DEF Calls, WaitsForNoStep
  <1>6. CASE mirrored = "running"
    BY <1>6 DEF Mapped
  <1> QED BY <1>2, <1>3, <1>4, <1>5, <1>6 DEF MirroredStates

\* The status that the links call for, after one link more has been read
LEMMA CalledNext ==
    ASSUME NEW links \in Seq(Links), NEW n \in Nat, n + 1 =< Len(links), NEW link \in Links,
           NEW status, NEW called, CalledFor(links, n, status, called)
    PROVE  CalledFor([links EXCEPT ![n + 1] = link], n + 1, status,
                     IF AtWork(link) THEN called ELSE Calls[link.mirrored])
  <1> DEFINE all == [links EXCEPT ![n + 1] = link]
             now == IF AtWork(link) THEN called ELSE Calls[link.mirrored]
  <1>1. n + 1 \in 1..Len(links) /\ 1..(n + 1) = (1..n) \cup {n + 1} /\ 1..Len(links) = DOMAIN links
    OBVIOUS
  <1>2. all[n + 1] = link /\ \A i \in 1..n : all[i] = links[i]
    BY <1>1
  <1> HIDE DEF all
  <1>3. ASSUME \A i \in 1..(n + 1) : AtWork(all[i]) PROVE now = status
    <2>1. AtWork(link) /\ \A i \in 1..n : AtWork(links[i])
      BY <1>1, <1>2, <1>3
    <2> QED BY <2>1 DEF CalledFor
  <1>4. ASSUME NEW i \in 1..(n + 1), LastStop(all, n + 1, i) PROVE now = Calls[all[i].mirrored]
    <2>1. CASE i = n + 1
      BY <1>2, <1>4, <2>1 DEF LastStop
    <2>2. CASE i # n + 1
      <3>1. i \in 1..n /\ n + 1 \in (i + 1)..(n + 1) /\ all[i] = links[i]
            /\ \A j \in (i + 1)..n : j \in 1..n /\ j \in (i + 1)..(n + 1)
        BY <1>2, <2>2
      <3>2. AtWork(link) /\ LastStop(links, n, i)
        BY <1>2, <1>4, <3>1 DEF LastStop
      <3> QED BY <3>1, <3>2 DEF CalledFor
    <2> QED BY <2>1, <2>2
  <1> QED BY <1>3, <1>4 DEF CalledFor, all

LEMMA CalledFirst == \A links, status : CalledFor(links, 0, status, status)
  BY DEF CalledFor

-----------------------------------------------------------------------------
(* Steps that leave some of the invariant alone.                           *)

LEMMA LoopStays ==
    ASSUME LoopOK, UNCHANGED <<loop, flows, saving>>
    PROVE  LoopOK'
  BY DEF LoopOK

LEMMA FreeLoop ==
    ASSUME Free, UNCHANGED loop
    PROVE  LoopOK'
  BY DEF Free, LoopOK, NoLoop

LEMMA IndexStays ==
    ASSUME IndexIsTrue, SavedOK, UNCHANGED <<flows, saving, listed>>
    PROVE  IndexIsTrue' /\ SavedOK'
  BY DEF IndexIsTrue, Readable, SavedOK, listed

LEMMA LinksStay ==
    ASSUME LinksOK, UNCHANGED flows, Prepared \subseteq Prepared',
           \A t \in Launches : launch'[t] # NoLaunch =>
             RunsOf(launch'[t].copy) \subseteq Prepared'
    PROVE  LinksOK'
  BY DEF LinksOK, RunsOf, Prepared

\* What the flows and the copies of them wait for does not change.
LEMMA NamedStays ==
    ASSUME NamedOK, UNCHANGED <<flows, careless>>,
           \A t \in Launches : launch'[t] # NoLaunch => Named(launch'[t].flow, launch'[t].copy),
           loop' # NoLoop => Named(loop'.flow, loop'.copy)
    PROVE  NamedOK'
  BY DEF NamedOK, WaitsAreNamed, Named, WaitsForNoStep

\* A run is prepared once and for all.
LEMMA PreparedGrows ==
    ASSUME NEW r \in Runs, NEW m \in Fit, TypeOK, runs' = [runs EXCEPT ![r] = m]
    PROVE  runs' \in [Runs -> Fit \cup {None}] /\ Prepared' = Prepared \cup {r}
  <1>1. m # None
    BY ControllerAssumption DEF Fit
  <1> QED BY <1>1 DEF TypeOK, Prepared

\* A run stays linked while the flows stay as they are.
LEMMA KeptStays ==
    ASSUME LinksAreKept, UNCHANGED flows, torn \subseteq torn', dropped \subseteq dropped',
           \A r \in Runs :
             owner'[r] # None /\ r \notin dropped' /\ (\A t \in Launches : launch'[t].run # r) =>
               owner[r] = owner'[r] /\ \A t \in Launches : launch[t].run # r
    PROVE  LinksAreKept'
  BY DEF LinksAreKept, Linkable, Launching

\* A flow is saved: with its links, and with those of its runs that are to be kept.
LEMMA SaveKeeps ==
    ASSUME ControllerInv, saving = None, NEW f \in Flows, NEW flow \in FlowRecord, SaveFlow(f, flow),
           RunsOf(flow) \subseteq Prepared, UNCHANGED <<runs, owner>>, outside' \in Nat,
           launch' \in [Launches -> LaunchRecord \cup {NoLaunch}],
           \A t \in Launches : launch'[t] # NoLaunch => launch'[t] = launch[t],
           loop' = NoLoop, dropped' \subseteq Runs, dropped \subseteq dropped',
           careless' \subseteq Flows, careless \subseteq careless',
           WaitsForNoStep(flow) => f \in careless',
           \A r \in Runs :
             owner[r] # None /\ r \notin dropped' /\ (\A t \in Launches : launch'[t].run # r) =>
               \/ owner[r] = f /\ r \in RunsOf(flow)
               \/ /\ \A t \in Launches : launch[t].run # r
                  /\ owner[r] = f => r \notin RunsOf(flows[f])
    PROVE  ControllerInv'
  <1>1. /\ flows' = [flows EXCEPT ![f] = flow] /\ saving' = f /\ UNCHANGED <<torn, index, stale>>
        /\ TypeOK /\ flow # None
    BY FlowFields DEF SaveFlow, listed, ControllerInv
  <1>2. flows'[f] = flow /\ \A g \in Flows \ {f} : flows'[g] = flows[g]
    BY <1>1 DEF TypeOK
  <1>3. TypeOK'
    BY <1>1 DEF TypeOK
  <1>4. LinksOK'
    <2>1. Prepared' = Prepared
      BY DEF Prepared
    <2>2. \A g \in Flows : flows'[g] # None => RunsOf(flows'[g]) \subseteq Prepared'
      BY <1>2, <2>1 DEF ControllerInv, LinksOK
    <2>3. \A t \in Launches : launch'[t] # NoLaunch => RunsOf(launch'[t].copy) \subseteq Prepared'
      BY <2>1 DEF ControllerInv, LinksOK
    <2> QED BY <2>2, <2>3 DEF LinksOK, RunsOf
  <1>5. OwnersOK'
    <2>1. \A r \in Runs : owner[r] # None => r \in Prepared' /\ owner[r] \in Flows
                                            /\ flows'[owner[r]] # None
      BY <1>1, <1>2 DEF ControllerInv, OwnersOK, Prepared, TypeOK
    <2>2. \A t \in Launches : launch'[t] # NoLaunch => owner[launch'[t].run] = launch'[t].flow
      BY DEF ControllerInv, OwnersOK
    <2> QED BY <2>1, <2>2 DEF OwnersOK
  <1>6. LoopOK' /\ SavedOK'
    BY <1>1, <1>2 DEF LoopOK, SavedOK
  <1>7. IndexIsTrue'
    BY <1>1, <1>2, ControllerAssumption DEF ControllerInv, IndexIsTrue, Readable
  <1>8. LinksAreKept'
    <2> SUFFICES ASSUME NEW r \in Runs, owner[r] # None, owner[r] \notin torn,
                        \A t \in Launches : launch'[t].run # r, r \notin dropped'
                 PROVE  r \in RunsOf(flows'[owner[r]])
      BY <1>1 DEF LinksAreKept, Linkable, Launching, RunsOf
    <2>1. owner[r] \in Flows /\ r # None
      BY <1>1, ControllerAssumption DEF TypeOK
    <2>2. CASE owner[r] = f /\ r \in RunsOf(flow)
      BY <1>2, <2>1, <2>2
    <2>3. CASE /\ \A t \in Launches : launch[t].run # r
               /\ owner[r] = f => r \notin RunsOf(flows[f])
      <3>1. r \in RunsOf(flows[owner[r]])
        BY <2>3 DEF ControllerInv, LinksAreKept, Linkable, Launching
      <3> QED BY <1>2, <2>1, <2>3, <3>1
    <2> QED BY <2>2, <2>3
  <1>9. NamedOK'
    <2>1. WaitsAreNamed'
      BY <1>2 DEF ControllerInv, NamedOK, WaitsAreNamed, WaitsForNoStep
    <2>2. \A t \in Launches : launch'[t] # NoLaunch =>
            (WaitsForNoStep(launch'[t].copy) => launch'[t].flow \in careless')
      BY DEF ControllerInv, NamedOK, Named
    <2> QED BY <2>1, <2>2 DEF NamedOK, Named, WaitsForNoStep
  <1> QED BY <1>3, <1>4, <1>5, <1>6, <1>7, <1>8, <1>9 DEF ControllerInv

-----------------------------------------------------------------------------
(* The actions.                                                            *)

\* A free plugin is not in the middle of a save or of a reconciliation.
LEMMA FreeMeans == Free => saving = None /\ loop = NoLoop
  BY DEF Free

LEMMA CreateKeeps ==
    ASSUME ControllerInv, NEW f \in Flows, Create(f)
    PROVE  ControllerInv'
  <1> DEFINE flow == [status |-> "running", wait |-> None, links |-> <<>>]
  <1>1. flow \in FlowRecord /\ RunsOf(flow) = {} /\ ~WaitsForNoStep(flow)
    BY NewFlow
  <1>2. saving = None /\ loop = NoLoop /\ flows[f] = None /\ SaveFlow(f, flow)
        /\ UNCHANGED <<runs, launch, loop, owner, dropped, careless, outside>>
    BY DEF Create, Free
  <1> HIDE DEF flow
  <1>3. \A r \in Runs : owner[r] # None => owner[r] # f
    BY <1>2 DEF ControllerInv, OwnersOK
  <1>4. TypeOK
    BY DEF ControllerInv
  <1> QED BY <1>1, <1>2, <1>3, <1>4, SaveKeeps DEF TypeOK

LEMMA UpdateKeeps ==
    ASSUME ControllerInv, NEW f \in Flows, Update(f)
    PROVE  ControllerInv'
  <1>1. PICK status \in Statuses, wait \in Steps \cup {None} :
          LET flow == [flows[f] EXCEPT !.status = status, !.wait = wait]
          IN  /\ SaveFlow(f, flow)
              /\ careless' = IF WaitsForNoStep(flow) THEN careless \cup {f} ELSE careless
    BY DEF Update
  <1> DEFINE flow == [flows[f] EXCEPT !.status = status, !.wait = wait]
  <1>2. /\ TypeOK /\ flows[f] \in FlowRecord /\ flows[f] # None
        /\ RunsOf(flows[f]) \subseteq Prepared
    BY DEF ControllerInv, TypeOK, Update, Readable, LinksOK
  <1>3. flow \in FlowRecord /\ RunsOf(flow) = RunsOf(flows[f])
    BY <1>2, UpdatedFlow
  <1>4. /\ saving = None /\ loop = NoLoop /\ UNCHANGED <<runs, launch, loop, owner, dropped>>
        /\ outside' = outside + 1
    BY DEF Update, Free
  <1>5. SaveFlow(f, flow) /\ careless' = IF WaitsForNoStep(flow) THEN careless \cup {f} ELSE careless
    BY <1>1
  <1> HIDE DEF flow
  <1>6. /\ outside' \in Nat /\ dropped \subseteq Runs
        /\ launch \in [Launches -> LaunchRecord \cup {NoLaunch}]
        /\ careless' \subseteq Flows /\ careless \subseteq careless'
        /\ WaitsForNoStep(flow) => f \in careless'
    BY <1>2, <1>4, <1>5 DEF TypeOK
  <1> QED BY <1>2, <1>3, <1>4, <1>5, <1>6, SaveKeeps

\* A launch that is under way has the flow and the run it started with.
LEMMA LaunchFacts ==
    ASSUME ControllerInv, NEW t \in Launches, launch[t] # NoLaunch
    PROVE  /\ launch[t] \in LaunchRecord /\ launch[t].flow \in Flows /\ launch[t].run \in Runs
           /\ launch[t].copy \in FlowRecord /\ launch[t].manifest \in Fit
           /\ owner[launch[t].run] = launch[t].flow
           /\ launch[t].run \in Prepared /\ runs[launch[t].run] \in Fit
           /\ flows[launch[t].flow] \in FlowRecord /\ flows[launch[t].flow] # None
           /\ RunsOf(launch[t].copy) \subseteq Prepared
           /\ RunsOf(flows[launch[t].flow]) \subseteq Runs
           /\ WaitsForNoStep(launch[t].copy) => launch[t].flow \in careless
  <1>1. /\ launch[t] \in LaunchRecord /\ launch[t].flow \in Flows /\ launch[t].run \in Runs
        /\ launch[t].copy \in FlowRecord /\ launch[t].manifest \in Fit
    BY DEF ControllerInv, TypeOK, LaunchRecord
  <1>2. owner[launch[t].run] = launch[t].flow /\ owner[launch[t].run] # None
    BY <1>1, ControllerAssumption DEF ControllerInv, OwnersOK
  <1>3. launch[t].run \in Prepared /\ flows[launch[t].flow] # None
    BY <1>1, <1>2 DEF ControllerInv, OwnersOK
  <1>4. flows[launch[t].flow] \in FlowRecord /\ runs[launch[t].run] \in Fit
    BY <1>1, <1>3 DEF ControllerInv, TypeOK, Prepared
  <1> QED BY <1>1, <1>2, <1>3, <1>4, FlowFields DEF ControllerInv, LinksOK, NamedOK, Named

LEMMA AttachKeeps ==
    ASSUME ControllerInv, NEW t \in Launches, Attach(t)
    PROVE  ControllerInv'
  <1> DEFINE l == launch[t]
             flow == Linked(l.copy, l.run, l.manifest)
  <1>1. /\ l # NoLaunch /\ saving = None /\ loop = NoLoop /\ SaveFlow(l.flow, flow)
        /\ launch' = [launch EXCEPT ![t] = NoLaunch]
        /\ dropped' = dropped \cup (RunsOf(flows[l.flow]) \ RunsOf(l.copy))
        /\ UNCHANGED <<runs, loop, owner, careless, outside>>
        /\ TypeOK
    BY DEF Attach, Free, ControllerInv
  <1>2. /\ l.flow \in Flows /\ l.run \in Runs /\ owner[l.run] = l.flow
        /\ flow \in FlowRecord /\ RunsOf(flow) = RunsOf(l.copy) \cup {l.run}
        /\ RunsOf(flow) \subseteq Prepared /\ RunsOf(flows[l.flow]) \subseteq Runs
        /\ WaitsForNoStep(flow) => l.flow \in careless
    BY <1>1, LaunchFacts, LinkedFlow
  <1> HIDE DEF flow
  <1>3. /\ launch' \in [Launches -> LaunchRecord \cup {NoLaunch}] /\ dropped' \subseteq Runs
        /\ dropped \subseteq dropped' /\ outside' \in Nat /\ careless' = careless
        /\ careless \subseteq Flows
        /\ \A u \in Launches : launch'[u] # NoLaunch => launch'[u] = launch[u]
        /\ launch'[t] = NoLaunch /\ \A u \in Launches \ {t} : launch'[u] = launch[u]
    BY <1>1, <1>2 DEF TypeOK
  <1>4. ASSUME NEW r \in Runs, owner[r] # None, r \notin dropped',
               \A u \in Launches : launch'[u].run # r
        PROVE  \/ owner[r] = l.flow /\ r \in RunsOf(flow)
               \/ /\ \A u \in Launches : launch[u].run # r
                  /\ owner[r] = l.flow => r \notin RunsOf(flows[l.flow])
    <2>1. CASE r = l.run
      BY <1>2, <2>1
    <2>2. CASE r # l.run
      BY <1>1, <1>2, <1>3, <1>4, <2>2
    <2> QED BY <2>1, <2>2
  <1> HIDE DEF l
  <1> QED BY <1>1, <1>2, <1>3, <1>4, SaveKeeps

LEMMA EndReconcileKeeps ==
    ASSUME ControllerInv, EndReconcile
    PROVE  ControllerInv'
  <1>1. /\ loop # NoLoop /\ SaveFlow(loop.flow, loop.copy) /\ loop' = NoLoop /\ TypeOK
        /\ UNCHANGED <<runs, launch, owner, dropped, careless, outside>>
    BY DEF EndReconcile, ControllerInv
  <1>2. /\ loop.flow \in Flows /\ loop.copy \in FlowRecord /\ saving = None
        /\ RunsOf(loop.copy) = RunsOf(flows[loop.flow])
        /\ RunsOf(loop.copy) \subseteq Prepared
        /\ WaitsForNoStep(loop.copy) => loop.flow \in careless
    BY <1>1 DEF ControllerInv, TypeOK, LoopRecord, LoopOK, LinksOK, NamedOK, Named
  <1> QED BY <1>1, <1>2, SaveKeeps DEF TypeOK

LEMMA UpsertIndexKeeps ==
    ASSUME ControllerInv, UpsertIndex
    PROVE  ControllerInv'
  <1>1. /\ saving # None /\ saving \in Flows /\ flows[saving] \in FlowRecord /\ TypeOK
        /\ index' = [index EXCEPT ![saving] = flows[saving].status]
        /\ stale' = stale \ {saving} /\ saving' = None
        /\ UNCHANGED <<runs, flows, torn, launch, loop, owner, dropped, careless, outside>>
    BY DEF UpsertIndex, ControllerInv, TypeOK, SavedOK
  <1>2. /\ index' \in [Flows -> Statuses \cup {None}] /\ index'[saving] = flows[saving].status
        /\ \A g \in Flows \ {saving} : index'[g] = index[g]
    BY <1>1, FlowFields DEF TypeOK
  <1>3. TypeOK'
    BY <1>1, <1>2 DEF TypeOK
  <1>4. LinksOK'
    BY <1>1, LinksStay DEF ControllerInv, LinksOK, Prepared
  <1>5. OwnersOK'
    BY <1>1 DEF ControllerInv, OwnersOK, Prepared
  <1>6. loop = NoLoop
    BY <1>1 DEF ControllerInv, LoopOK
  <1>7. LoopOK' /\ SavedOK'
    BY <1>1, <1>6 DEF LoopOK, SavedOK
  <1>8. IndexIsTrue'
    BY <1>1, <1>2 DEF ControllerInv, IndexIsTrue, Readable
  <1>9. LinksAreKept' /\ NamedOK'
    BY <1>1, KeptStays, NamedStays DEF ControllerInv, NamedOK
  <1> QED BY <1>3, <1>4, <1>5, <1>7, <1>8, <1>9 DEF ControllerInv

\* A launch prepares a run that nobody knows of, for a flow that it reads.
LEMMA StartLaunchKeeps ==
    ASSUME ControllerInv, NEW t \in Launches, StartLaunch(t)
    PROVE  ControllerInv'
  <1>1. PICK f \in Flows, r \in Runs, verdict \in {"ready", "rejected"} :
          /\ Readable(f)
          /\ runs[r] = None
          /\ launch' = [launch EXCEPT ![t] = [flow |-> f, run |-> r, copy |-> flows[f],
                                              manifest |-> NewManifest(verdict)]]
          /\ runs' = [runs EXCEPT ![r] = NewManifest(verdict)]
          /\ owner' = [owner EXCEPT ![r] = f]
    BY DEF StartLaunch
  <1> DEFINE m == NewManifest(verdict)
             l == [flow |-> f, run |-> r, copy |-> flows[f], manifest |-> m]
  <1>2. /\ TypeOK /\ m \in Fit /\ flows[f] \in FlowRecord /\ flows[f] # None
        /\ RunsOf(flows[f]) \subseteq Prepared
    BY <1>1, NewIsFit DEF ControllerInv, TypeOK, Readable, LinksOK
  <1> HIDE DEF m
  <1>3. l \in LaunchRecord /\ l.run = r /\ l.flow = f /\ l.copy = flows[f] /\ l # NoLaunch
    BY <1>2, NothingIsNoRecord DEF LaunchRecord
  <1>4. launch' = [launch EXCEPT ![t] = l] /\ runs' = [runs EXCEPT ![r] = m]
    BY <1>1 DEF m
  <1> HIDE DEF l
  <1>5. /\ saving = None /\ loop = NoLoop /\ launch[t] = NoLaunch
        /\ UNCHANGED <<flows, saving, torn, index, stale, loop, dropped, careless, outside>>
    BY DEF StartLaunch, Free, listed
  <1>6. runs' \in [Runs -> Fit \cup {None}] /\ Prepared' = Prepared \cup {r}
    BY <1>2, <1>4, PreparedGrows
  <1>7. /\ launch'[t] = l /\ \A u \in Launches \ {t} : launch'[u] = launch[u]
        /\ launch' \in [Launches -> LaunchRecord \cup {NoLaunch}]
        /\ owner'[r] = f /\ \A s \in Runs \ {r} : owner'[s] = owner[s]
        /\ owner' \in [Runs -> Flows \cup {None}]
    BY <1>1, <1>2, <1>3, <1>4 DEF TypeOK
  <1>8. TypeOK'
    BY <1>2, <1>5, <1>6, <1>7 DEF TypeOK
  <1>9. LinksOK'
    BY <1>2, <1>3, <1>5, <1>6, <1>7, LinksStay DEF ControllerInv, LinksOK
  <1>10. r \notin Prepared
    BY <1>1 DEF Prepared
  <1>11. OwnersOK'
    <2>1. \A s \in Runs : owner'[s] # None => s \in Prepared' /\ flows'[owner'[s]] # None
      BY <1>2, <1>5, <1>6, <1>7 DEF ControllerInv, OwnersOK
    <2>2. ASSUME NEW u \in Launches, launch'[u] # NoLaunch
          PROVE  owner'[launch'[u].run] = launch'[u].flow
      <3>1. CASE u = t
        BY <1>3, <1>7, <3>1
      <3>2. CASE u # t
        <4>1. launch[u].run \in Prepared /\ owner[launch[u].run] = launch[u].flow
              /\ launch[u].run \in Runs
          BY <1>7, <2>2, <3>2, LaunchFacts
        <4> QED BY <1>7, <1>10, <3>2, <4>1
      <3> QED BY <3>1, <3>2
    <2> QED BY <2>1, <2>2 DEF OwnersOK
  <1>12. LoopOK' /\ IndexIsTrue' /\ SavedOK'
    BY <1>5, IndexStays DEF ControllerInv, LoopOK, listed
  <1>13. NamedOK'
    <2>1. Named(f, flows[f])
      BY <1>2 DEF ControllerInv, NamedOK, WaitsAreNamed, Named
    <2>2. \A u \in Launches : launch'[u] # NoLaunch => Named(launch'[u].flow, launch'[u].copy)
      BY <1>3, <1>7, <2>1 DEF ControllerInv, NamedOK
    <2> QED BY <1>5, <2>2, NamedStays DEF StartLaunch, ControllerInv, NamedOK
  <1>14. LinksAreKept'
    <2>1. ASSUME NEW s \in Runs, \A u \in Launches : launch'[u].run # s
          PROVE  s # r /\ \A u \in Launches : launch[u].run # s
      <3>1. s # r
        BY <1>3, <1>7, <2>1
      <3>2. NoLaunch.run # s
        BY NothingIsNoRecord, ControllerAssumption
      <3> QED BY <1>5, <1>7, <2>1, <3>1, <3>2
    <2> QED BY <1>5, <1>7, <2>1, KeptStays DEF ControllerInv
  <1> QED BY <1>8, <1>9, <1>11, <1>12, <1>13, <1>14 DEF ControllerInv

\* runWorkflow writes on; its launch knows the manifest that it has written.
LEMMA EngineKeeps ==
    ASSUME ControllerInv, NEW t \in Launches, Engine(t)
    PROVE  ControllerInv'
  <1> DEFINE l == launch[t]
  <1>1. /\ l # NoLaunch /\ Free /\ TypeOK
        /\ UNCHANGED <<flows, saving, listed, loop, owner, dropped, careless, outside>>
    BY DEF Engine, ControllerInv
  <1>2. PICK m \in EngineMoves(l.manifest) : /\ launch' = [launch EXCEPT ![t].manifest = m]
                                             /\ runs' = [runs EXCEPT ![l.run] = m]
    BY DEF Engine
  <1> DEFINE d == [l EXCEPT !.manifest = m]
  <1>3. /\ l \in LaunchRecord /\ l.run \in Runs /\ l.run \in Prepared /\ l.manifest \in Fit
        /\ owner[l.run] = l.flow
    BY <1>1, LaunchFacts
  <1>4. m \in Fit
    BY <1>2, <1>3, EngineWaits DEF Fit
  <1>5. launch' = [launch EXCEPT ![t] = d]
    BY <1>2
  <1>6. d \in LaunchRecord /\ d.run = l.run /\ d.flow = l.flow /\ d.copy = l.copy
    BY <1>3, <1>4 DEF LaunchRecord
  <1> HIDE DEF d
  <1>7. /\ launch'[t] = d /\ \A u \in Launches \ {t} : launch'[u] = launch[u]
        /\ launch' \in [Launches -> LaunchRecord \cup {NoLaunch}]
    BY <1>1, <1>5, <1>6 DEF TypeOK
  <1>8. runs' \in [Runs -> Fit \cup {None}] /\ Prepared' = Prepared
    <2> DEFINE r == l.run
    <2>1. r \in Runs /\ r \in Prepared /\ runs' = [runs EXCEPT ![r] = m]
      BY <1>2, <1>3
    <2> HIDE DEF r
    <2>2. runs' \in [Runs -> Fit \cup {None}] /\ Prepared' = Prepared \cup {r}
      BY <1>1, <1>4, <2>1, PreparedGrows
    <2> QED BY <2>1, <2>2
  <1>9. TypeOK'
    BY <1>1, <1>7, <1>8 DEF TypeOK, listed
  <1>10. \A u \in Launches : launch'[u].run = launch[u].run /\ launch'[u].flow = launch[u].flow
                             /\ launch'[u].copy = launch[u].copy
                             /\ (launch'[u] # NoLaunch => launch[u] # NoLaunch)
    BY <1>1, <1>6, <1>7
  <1> HIDE DEF l
  <1>11. LinksOK'
    BY <1>1, <1>8, <1>10, LinksStay DEF ControllerInv, LinksOK
  <1>12. OwnersOK'
    BY <1>1, <1>8, <1>10 DEF ControllerInv, OwnersOK
  <1>13. LoopOK' /\ IndexIsTrue' /\ SavedOK'
    BY <1>1, FreeLoop, IndexStays DEF ControllerInv
  <1>14. LinksAreKept' /\ NamedOK'
    BY <1>1, <1>10, KeptStays, NamedStays DEF ControllerInv, NamedOK, listed
  <1> QED BY <1>9, <1>11, <1>12, <1>13, <1>14 DEF ControllerInv

\* Launches end without a link; what they leave is a run that is dropped.
LEMMA LaunchesEnd ==
    ASSUME ControllerInv, NEW ended \in SUBSET Launches,
           \A t \in ended : launch[t] # NoLaunch,
           launch' = [t \in Launches |-> IF t \in ended THEN NoLaunch ELSE launch[t]],
           dropped' = dropped \cup {launch[t].run : t \in ended},
           UNCHANGED <<runs, flows, owner, careless, outside>>, torn \subseteq torn',
           loop' = NoLoop
    PROVE  /\ launch' \in [Launches -> LaunchRecord \cup {NoLaunch}] /\ dropped' \subseteq Runs
           /\ LinksOK' /\ OwnersOK' /\ LinksAreKept' /\ NamedOK'
  <1>1. TypeOK /\ \A t \in ended : launch[t].run \in Runs
    BY LaunchFacts DEF ControllerInv
  <1>2. launch' \in [Launches -> LaunchRecord \cup {NoLaunch}] /\ dropped' \subseteq Runs
    BY <1>1 DEF TypeOK
  <1>3. \A t \in Launches : launch'[t] # NoLaunch => launch'[t] = launch[t]
    OBVIOUS
  <1>4. LinksOK'
    <2>1. Prepared' = Prepared
      BY DEF Prepared
    <2> QED BY <1>3, <2>1, LinksStay DEF ControllerInv, LinksOK
  <1>5. OwnersOK'
    BY <1>3 DEF ControllerInv, OwnersOK, Prepared
  <1>6. LinksAreKept'
    <2>1. ASSUME NEW r \in Runs, r \notin dropped', \A t \in Launches : launch'[t].run # r,
                 NEW t \in Launches
          PROVE  launch[t].run # r
      BY <2>1
    <2> QED BY <2>1, KeptStays DEF ControllerInv
  <1>7. NamedOK'
    BY <1>3, NamedStays DEF ControllerInv, NamedOK
  <1> QED BY <1>2, <1>4, <1>5, <1>6, <1>7

LEMMA LaunchThrowsKeeps ==
    ASSUME ControllerInv, NEW t \in Launches, LaunchThrows(t)
    PROVE  ControllerInv'
  <1>1. /\ launch[t] # NoLaunch /\ Free /\ TypeOK
        /\ launch' = [launch EXCEPT ![t] = NoLaunch] /\ dropped' = dropped \cup {launch[t].run}
        /\ UNCHANGED <<runs, flows, saving, listed, loop, owner, careless, outside>>
    BY DEF LaunchThrows, ControllerInv
  <1>2. launch' = [u \in Launches |-> IF u \in {t} THEN NoLaunch ELSE launch[u]]
    BY <1>1 DEF TypeOK
  <1>3. /\ launch' \in [Launches -> LaunchRecord \cup {NoLaunch}] /\ dropped' \subseteq Runs
        /\ LinksOK' /\ OwnersOK' /\ LinksAreKept' /\ NamedOK'
    <2>1. /\ dropped' = dropped \cup {launch[u].run : u \in {t}} /\ torn \subseteq torn'
          /\ loop' = NoLoop
      BY <1>1 DEF listed, Free
    <2> QED BY <1>1, <1>2, <2>1, LaunchesEnd
  <1>4. LoopOK' /\ IndexIsTrue' /\ SavedOK'
    BY <1>1, FreeLoop, IndexStays DEF ControllerInv
  <1>5. TypeOK'
    BY <1>1, <1>3 DEF TypeOK, listed
  <1> QED BY <1>3, <1>4, <1>5 DEF ControllerInv

\* Killed in a save, the plugin may leave the index wrong about flows that are stale from then on.
LEMMA CutKeeps ==
    ASSUME TypeOK, IndexIsTrue, saving # None, CutSave, UNCHANGED flows, saving' = None
    PROVE  /\ torn' \subseteq Flows /\ torn \subseteq torn' /\ stale' \subseteq Flows
           /\ index' \in [Flows -> Statuses \cup {None}] /\ IndexIsTrue'
  <1>1. saving \in Flows
    BY DEF TypeOK
  <1>2. CASE stale' = stale \cup {saving} /\ UNCHANGED <<torn, index>>
    BY <1>1, <1>2 DEF TypeOK, IndexIsTrue, Readable
  <1>3. CASE /\ index' = [f \in Flows |-> None] /\ stale' = {f \in Flows : flows[f] # None}
             /\ UNCHANGED torn
    BY <1>3 DEF TypeOK, IndexIsTrue, Readable
  <1>4. CASE torn' = torn \cup {saving} /\ UNCHANGED <<index, stale>>
    BY <1>1, <1>4 DEF TypeOK, IndexIsTrue, Readable
  <1> QED BY <1>2, <1>3, <1>4 DEF CutSave

LEMMA PluginDiesKeeps ==
    ASSUME ControllerInv, PluginDies
    PROVE  ControllerInv'
  <1> DEFINE open == {t \in Launches : launch[t] # NoLaunch}
  <1>1. /\ launch' = [t \in Launches |-> NoLaunch] /\ loop' = NoLoop
        /\ dropped' = dropped \cup {launch[t].run : t \in open} /\ saving' = None
        /\ IF saving = None THEN UNCHANGED listed ELSE CutSave
        /\ UNCHANGED <<runs, flows, owner, careless, outside>>
        /\ TypeOK
    BY DEF PluginDies, ControllerInv
  <1>2. /\ torn' \subseteq Flows /\ torn \subseteq torn' /\ stale' \subseteq Flows
        /\ index' \in [Flows -> Statuses \cup {None}] /\ IndexIsTrue'
    <2>1. CASE saving = None
      BY <1>1, <2>1 DEF listed, TypeOK, ControllerInv, IndexIsTrue, Readable
    <2>2. CASE saving # None
      BY <1>1, <2>2, CutKeeps DEF ControllerInv
    <2> QED BY <2>1, <2>2
  <1>3. launch' = [t \in Launches |-> IF t \in open THEN NoLaunch ELSE launch[t]]
    BY <1>1
  <1>4. open \in SUBSET Launches /\ \A t \in open : launch[t] # NoLaunch
    OBVIOUS
  <1> HIDE DEF open
  <1>5. /\ launch' \in [Launches -> LaunchRecord \cup {NoLaunch}] /\ dropped' \subseteq Runs
        /\ LinksOK' /\ OwnersOK' /\ LinksAreKept' /\ NamedOK'
    BY <1>1, <1>2, <1>3, <1>4, LaunchesEnd
  <1>6. LoopOK' /\ SavedOK'
    BY <1>1 DEF LoopOK, SavedOK
  <1>7. TypeOK'
    BY <1>1, <1>2, <1>5 DEF TypeOK
  <1> QED BY <1>2, <1>5, <1>6, <1>7 DEF ControllerInv

\* A reconciliation starts with a flow as it is.
LEMMA StartReconcileKeeps ==
    ASSUME ControllerInv, NEW f \in Flows, StartReconcile(f)
    PROVE  ControllerInv'
  <1>1. /\ saving = None /\ flows[f] # None /\ TypeOK
        /\ loop' = [flow |-> f, copy |-> flows[f], next |-> 1]
        /\ UNCHANGED <<runs, flows, saving, listed, launch, owner, dropped, careless, outside>>
    BY DEF StartReconcile, Free, Readable, ControllerInv
  <1>2. flows[f] \in FlowRecord /\ Len(flows[f].links) \in Nat
    BY <1>1, FlowFields DEF TypeOK
  <1>3. loop' \in LoopRecord /\ loop'.flow = f /\ loop'.copy = flows[f] /\ loop'.next = 1
    BY <1>1, <1>2 DEF LoopRecord
  <1>4. TypeOK'
    BY <1>1, <1>3 DEF TypeOK, listed
  <1>5. LinksOK'
    BY <1>1, LinksStay DEF ControllerInv, LinksOK, Prepared
  <1>6. OwnersOK'
    BY <1>1 DEF ControllerInv, OwnersOK, Prepared
  <1>7. LoopOK'
    <2>1. CalledFor(flows[f].links, 1 - 1, flows[f].status, flows[f].status)
      BY CalledFirst
    <2>2. 1 =< Len(flows[f].links) + 1
      BY <1>2
    <2> QED BY <1>1, <1>3, <2>1, <2>2 DEF LoopOK, RunsOf
  <1>8. IndexIsTrue' /\ SavedOK'
    BY <1>1, IndexStays DEF ControllerInv
  <1>9. LinksAreKept'
    BY <1>1, KeptStays DEF ControllerInv, listed
  <1>10. NamedOK'
    <2>1. Named(loop'.flow, loop'.copy)
      BY <1>1, <1>3 DEF ControllerInv, NamedOK, WaitsAreNamed, Named
    <2> QED BY <1>1, <2>1, NamedStays DEF ControllerInv, NamedOK
  <1> QED BY <1>4, <1>5, <1>6, <1>7, <1>8, <1>9, <1>10 DEF ControllerInv

\* One link is read again, and what its run asks for is done to the flow.
LEMMA LinkRead ==
    ASSUME NEW flow \in FlowRecord, NEW i \in 1..Len(flow.links), NEW m \in Fit, NEW status,
           CalledFor(flow.links, i - 1, status, flow.status)
    PROVE  LET r == flow.links[i].run
               read == [flow EXCEPT !.links[i] = Link(r, m)]
               next == Mapped(read, RecordOf(m).mirrored, RecordOf(m).waitingOn)
           IN  /\ next \in FlowRecord
               /\ RunsOf(next) = RunsOf(flow)
               /\ Len(next.links) = Len(flow.links)
               /\ CalledFor(next.links, i, status, next.status)
               /\ WaitsForNoStep(next) => WaitsForNoStep(flow)
  <1> DEFINE r == flow.links[i].run
             link == Link(r, m)
             links == [flow.links EXCEPT ![i] = link]
             read == [flow EXCEPT !.links[i] = Link(r, m)]
             next == Mapped(read, RecordOf(m).mirrored, RecordOf(m).waitingOn)
  <1>1. /\ flow \in FlowRecord /\ flow.links \in Seq(Links) /\ Len(flow.links) \in Nat
        /\ DOMAIN flow.links = 1..Len(flow.links)
    BY FlowFields
  <1>2. r \in Runs
    <2>1. flow.links[i] \in Links
      BY <1>1
    <2> QED BY <2>1 DEF Links
  <1> HIDE DEF r
  <1>3. /\ link \in Links /\ link.run = r /\ link.mirrored = RecordOf(m).mirrored
        /\ m \in Manifest /\ Waits(m)
    BY <1>2, LinkType DEF RecordOf, Fit
  <1>4. read = [flow EXCEPT !.links = links]
    OBVIOUS
  <1> HIDE DEF link
  <1>5. /\ links \in Seq(Links) /\ Len(links) = Len(flow.links)
        /\ \A j \in 1..Len(flow.links) : links[j] = IF j = i THEN link ELSE flow.links[j]
    BY <1>1, <1>3, ExceptSeq
  <1>6. DOMAIN links = DOMAIN flow.links /\ \A j \in DOMAIN links : links[j].run = flow.links[j].run
    BY <1>1, <1>3, <1>5 DEF r
  <1>7. CalledFor(links, i, status, IF AtWork(link) THEN flow.status ELSE Calls[link.mirrored])
    <2>1. i - 1 \in Nat /\ (i - 1) + 1 = i /\ i =< Len(flow.links)
      BY <1>1
    <2> DEFINE n == i - 1
    <2>2. n \in Nat /\ n + 1 =< Len(flow.links) /\ CalledFor(flow.links, n, status, flow.status)
      BY <2>1
    <2> HIDE DEF n
    <2>3. CalledFor([flow.links EXCEPT ![n + 1] = link], n + 1, status,
                    IF AtWork(link) THEN flow.status ELSE Calls[link.mirrored])
      BY <1>1, <1>3, <2>2, CalledNext
    <2>4. n + 1 = i
      BY <2>1 DEF n
    <2> QED BY <2>3, <2>4
  <1>8. read \in FlowRecord /\ read.links = links /\ read.status = flow.status
        /\ read.wait = flow.wait
    <2> HIDE DEF links, read
    <2> QED BY <1>1, <1>4, <1>5 DEF FlowRecord
  <1>9. WaitsForNoStep(read) => WaitsForNoStep(flow)
    BY <1>8 DEF WaitsForNoStep
  <1> HIDE DEF read, links
  <1>10. RecordOf(m).mirrored \in MirroredStates
    BY <1>3, MapRunStateType DEF RecordOf, Manifest
  <1>11. /\ next \in FlowRecord /\ next.links = links
         /\ next.status = IF RecordOf(m).mirrored = "running" THEN flow.status
                          ELSE Calls[RecordOf(m).mirrored]
         /\ WaitsForNoStep(next) => WaitsForNoStep(read)
    BY <1>3, <1>8, <1>9, <1>10, WaitingIsNamed, MappedFlow
  <1>12. next.status = IF AtWork(link) THEN flow.status ELSE Calls[link.mirrored]
    BY <1>3, <1>11 DEF AtWork
  <1> HIDE DEF next
  <1>13. RunsOf(next) = RunsOf(flow)
    BY <1>6, <1>11 DEF RunsOf
  <1>14. /\ next \in FlowRecord /\ RunsOf(next) = RunsOf(flow) /\ Len(next.links) = Len(flow.links)
         /\ CalledFor(next.links, i, status, next.status)
         /\ WaitsForNoStep(next) => WaitsForNoStep(flow)
    BY <1>5, <1>7, <1>9, <1>11, <1>12, <1>13
  <1> QED BY <1>14 DEF next, read, r

LEMMA ReconcileLinkKeeps ==
    ASSUME ControllerInv, ReconcileLink
    PROVE  ControllerInv'
  <1> DEFINE c == loop.copy
             i == loop.next
             r == c.links[i].run
             m == runs[r]
             d == Mapped([c EXCEPT !.links[i] = Link(r, m)],
                         RecordOf(m).mirrored, RecordOf(m).waitingOn)
  <1>1. /\ loop # NoLoop /\ i =< Len(c.links) /\ TypeOK
        /\ loop' = [loop EXCEPT !.copy = d, !.next = i + 1]
        /\ UNCHANGED <<runs, flows, saving, listed, launch, owner, dropped, careless, outside>>
    BY DEF ReconcileLink, ControllerInv
  <1>2. /\ loop \in LoopRecord /\ loop.flow \in Flows /\ c \in FlowRecord /\ i \in Nat \ {0}
        /\ saving = None /\ flows[loop.flow] # None /\ RunsOf(c) = RunsOf(flows[loop.flow])
        /\ CalledFor(c.links, i - 1, flows[loop.flow].status, c.status)
    BY <1>1 DEF ControllerInv, TypeOK, LoopOK, LoopRecord
  <1>3. i \in 1..Len(c.links) /\ DOMAIN c.links = 1..Len(c.links)
    BY <1>1, <1>2, FlowFields
  <1>4. m \in Fit
    <2>1. r \in RunsOf(c)
      BY <1>3 DEF RunsOf
    <2>2. r \in Prepared
      BY <1>2, <2>1 DEF ControllerInv, LinksOK
    <2> QED BY <1>1, <2>2 DEF Prepared, TypeOK
  <1>5. /\ d \in FlowRecord /\ RunsOf(d) = RunsOf(c) /\ Len(d.links) = Len(c.links)
        /\ CalledFor(d.links, i, flows[loop.flow].status, d.status)
        /\ WaitsForNoStep(d) => WaitsForNoStep(c)
    BY <1>2, <1>3, <1>4, LinkRead
  <1> HIDE DEF d, c, i, r, m
  <1>6. loop' \in LoopRecord /\ loop'.flow = loop.flow /\ loop'.copy = d /\ loop'.next = i + 1
    <2>1. i + 1 \in Nat \ {0}
      BY <1>2
    <2> DEFINE n == i + 1
    <2>2. n \in Nat \ {0} /\ loop' = [loop EXCEPT !.copy = d, !.next = n]
      BY <1>1, <2>1
    <2> HIDE DEF n
    <2>3. loop' \in LoopRecord /\ loop'.flow = loop.flow /\ loop'.copy = d /\ loop'.next = n
      BY <1>2, <1>5, <2>2 DEF LoopRecord
    <2> QED BY <2>3 DEF n
  <1>7. TypeOK'
    BY <1>1, <1>6 DEF TypeOK, listed
  <1>8. LinksOK'
    BY <1>1, LinksStay DEF ControllerInv, LinksOK, Prepared
  <1>9. OwnersOK'
    BY <1>1 DEF ControllerInv, OwnersOK, Prepared
  <1>10. LoopOK'
    <2>1. CalledFor(d.links, (i + 1) - 1, flows[loop.flow].status, d.status)
      <3>1. (i + 1) - 1 = i
        BY <1>2
      <3> QED BY <1>5, <3>1
    <2>2. i + 1 =< Len(d.links) + 1
      BY <1>3, <1>5
    <2>3. /\ loop'.flow = loop.flow /\ loop'.copy = d /\ loop'.next = i + 1
          /\ saving' = None /\ flows' = flows /\ flows[loop.flow] # None
          /\ RunsOf(d) = RunsOf(flows[loop.flow])
      BY <1>1, <1>2, <1>5, <1>6
    <2> QED BY <2>1, <2>2, <2>3 DEF LoopOK
  <1>11. IndexIsTrue' /\ SavedOK'
    BY <1>1, IndexStays DEF ControllerInv
  <1>12. LinksAreKept'
    BY <1>1, KeptStays DEF ControllerInv, listed
  <1>13. NamedOK'
    <2>1. Named(loop.flow, c)
      BY <1>1 DEF ControllerInv, NamedOK, c
    <2>2. Named(loop'.flow, loop'.copy)
      BY <1>5, <1>6, <2>1 DEF Named
    <2> QED BY <1>1, <2>2, NamedStays DEF ControllerInv, NamedOK
  <1> QED BY <1>7, <1>8, <1>9, <1>10, <1>11, <1>12, <1>13 DEF ControllerInv

LEMMA CommandKeeps ==
    ASSUME ControllerInv, NEW r \in Runs, Command(r)
    PROVE  ControllerInv'
  <1>1. /\ runs[r] # None /\ outside' = outside + 1 /\ TypeOK
        /\ UNCHANGED <<flows, saving, listed, launch, loop, owner, dropped, careless>>
    BY DEF Command, ControllerInv
  <1>2. PICK m \in CommandMoves(runs[r]) : runs' = [runs EXCEPT ![r] = m]
    BY DEF Command
  <1>3. m \in Fit /\ r \in Prepared
    BY <1>1, <1>2, CommandWaits DEF TypeOK, Fit, Prepared
  <1>4. runs' \in [Runs -> Fit \cup {None}] /\ Prepared' = Prepared
    <2>1. runs' \in [Runs -> Fit \cup {None}] /\ Prepared' = Prepared \cup {r}
      BY <1>1, <1>2, <1>3, PreparedGrows
    <2> QED BY <1>3, <2>1
  <1>5. TypeOK'
    BY <1>1, <1>4 DEF TypeOK, listed
  <1>6. LinksOK'
    BY <1>1, <1>4, LinksStay DEF ControllerInv, LinksOK
  <1>7. OwnersOK'
    BY <1>1, <1>4 DEF ControllerInv, OwnersOK
  <1>8. LoopOK' /\ IndexIsTrue' /\ SavedOK'
    BY <1>1, LoopStays, IndexStays DEF ControllerInv
  <1>9. LinksAreKept' /\ NamedOK'
    BY <1>1, KeptStays, NamedStays DEF ControllerInv, NamedOK, listed
  <1> QED BY <1>5, <1>6, <1>7, <1>8, <1>9 DEF ControllerInv

LEMMA StutterKeeps ==
    ASSUME ControllerInv, UNCHANGED vars
    PROVE  ControllerInv'
  <1>1. /\ UNCHANGED <<runs, flows, saving, launch, loop, owner, dropped, careless, outside>>
        /\ UNCHANGED <<torn, index, stale>>
    BY DEF vars, listed
  <1>2. TypeOK'
    BY <1>1 DEF ControllerInv, TypeOK
  <1>3. LinksOK' /\ OwnersOK'
    BY <1>1 DEF ControllerInv, LinksOK, OwnersOK, Prepared, RunsOf
  <1>4. LoopOK' /\ IndexIsTrue' /\ SavedOK'
    BY <1>1, LoopStays, IndexStays DEF ControllerInv, listed
  <1>5. LinksAreKept' /\ NamedOK'
    BY <1>1, KeptStays, NamedStays DEF ControllerInv, NamedOK
  <1> QED BY <1>2, <1>3, <1>4, <1>5 DEF ControllerInv

-----------------------------------------------------------------------------
LEMMA InitOK == Init => ControllerInv
  <1> SUFFICES ASSUME Init PROVE ControllerInv
    OBVIOUS
  <1>1. TypeOK
    BY ControllerAssumption DEF Init, TypeOK
  <1>2. LinksOK /\ OwnersOK /\ LoopOK /\ NamedOK /\ SavedOK
    BY DEF Init, LinksOK, OwnersOK, LoopOK, NamedOK, WaitsAreNamed, SavedOK
  <1>3. IndexIsTrue /\ LinksAreKept
    BY DEF Init, IndexIsTrue, Readable, LinksAreKept, Linkable
  <1> QED BY <1>1, <1>2, <1>3 DEF ControllerInv

LEMMA NextKeeps == ControllerInv /\ [Next]_vars => ControllerInv'
  <1> SUFFICES ASSUME ControllerInv, [Next]_vars
               PROVE  ControllerInv'
    OBVIOUS
  <1>1. CASE \E f \in Flows : Create(f) \/ Update(f) \/ StartReconcile(f)
    BY <1>1, CreateKeeps, UpdateKeeps, StartReconcileKeeps
  <1>2. CASE \E t \in Launches : StartLaunch(t) \/ Engine(t) \/ Attach(t) \/ LaunchThrows(t)
    BY <1>2, StartLaunchKeeps, EngineKeeps, AttachKeeps, LaunchThrowsKeeps
  <1>3. CASE UpsertIndex
    BY <1>3, UpsertIndexKeeps
  <1>4. CASE ReconcileLink
    BY <1>4, ReconcileLinkKeeps
  <1>5. CASE EndReconcile
    BY <1>5, EndReconcileKeeps
  <1>6. CASE PluginDies
    BY <1>6, PluginDiesKeeps
  <1>7. CASE \E r \in Runs : Command(r)
    BY <1>7, CommandKeeps
  <1>8. CASE UNCHANGED vars
    BY <1>8, StutterKeeps
  <1> QED BY <1>1, <1>2, <1>3, <1>4, <1>5, <1>6, <1>7, <1>8 DEF Next

\* Every link is to a run that was prepared, every run that was launched has its
\* flow, and a reconciliation has given its copy of the flow the status that the
\* runs read so far call for.
THEOREM ControllerInvariant == Spec => []ControllerInv
  BY InitOK, NextKeeps, PTL DEF Spec

\* The index lists every flow with the status of its record, but for those that a
\* crash in a save has made stale.
THEOREM IndexAlwaysTrue == Spec => []IndexIsTrue
  <1>1. ControllerInv => IndexIsTrue
    BY DEF ControllerInv
  <1> QED BY <1>1, ControllerInvariant, PTL

\* A run that was launched for a flow stays linked to it, whatever launches of the
\* flow overlap with its own, if none of them overtakes it.
THEOREM LinksAreAlwaysKept == Spec => []LinksAreKept
  <1>1. ControllerInv => LinksAreKept
    BY DEF ControllerInv
  <1> QED BY <1>1, ControllerInvariant, PTL

\* No launch, reconciliation or crash leaves a flow waiting for nothing, however old the
\* copy of the flow is that it saves: only an update does.
THEOREM WaitsAreAlwaysNamed == Spec => []WaitsAreNamed
  <1>1. ControllerInv => WaitsAreNamed
    BY DEF ControllerInv, NamedOK
  <1> QED BY <1>1, ControllerInvariant, PTL

\* The last linked run that is not at work decides the status a reconciliation
\* saves, though the runs move on while the mirror records are read.
THEOREM LastStopAlwaysDecides == Spec => LastStopDecides
  <1>1. ASSUME ControllerInv, [Next]_vars, NEW f \in Flows, loop.flow = f, flows'[f] # flows[f]
        PROVE  CalledFor(flows'[f].links, Len(flows'[f].links), flows[f].status, flows'[f].status)
    <2>1. loop # NoLoop
      BY <1>1, NothingIsNoRecord, ControllerAssumption
    <2>2. EndReconcile
      BY <1>1, <2>1 DEF Next, vars, Free, Create, Update, StartReconcile, StartLaunch, Engine,
         Attach, LaunchThrows, UpsertIndex, ReconcileLink, PluginDies, Command
    <2>3. /\ loop.copy \in FlowRecord /\ loop.next \in Nat /\ loop.next > Len(loop.copy.links)
          /\ loop.next =< Len(loop.copy.links) + 1
          /\ CalledFor(loop.copy.links, loop.next - 1, flows[f].status, loop.copy.status)
          /\ flows \in [Flows -> FlowRecord \cup {None}] /\ flows' = [flows EXCEPT ![f] = loop.copy]
      BY <1>1, <2>1, <2>2
         DEF EndReconcile, SaveFlow, ControllerInv, TypeOK, LoopRecord, LoopOK
    <2>4. loop.next - 1 = Len(loop.copy.links)
      BY <2>3, FlowFields
    <2> QED BY <2>3, <2>4
  <1>2. ControllerInv /\ [Next]_vars =>
          [\A f \in Flows :
             loop.flow = f /\ flows'[f] # flows[f] =>
               CalledFor(flows'[f].links, Len(flows'[f].links), flows[f].status,
                         flows'[f].status)]_vars
    BY <1>1
  <1> QED BY <1>2, ControllerInvariant, PTL DEF Spec, LastStopDecides
=============================================================================
