----------------------- MODULE NativeControllerProofs -----------------------
(***************************************************************************)
(* Proofs about the native controller, for any number of runs and of wakes *)
(* that overlap.                                                           *)
(***************************************************************************)
EXTENDS NativeController, SequenceTheorems, NaturalsInduction, WellFoundedInduction, TLAPS

LinkRecord == [run : Runs, status : Statuses]

FlowRecord == [revision : Nat, status : ControllerFlowStatus, wait : {None, "wait"},
               links : Seq(LinkRecord)]

WakeRecord == [pc : {"idle", "reconcile", "decide", "launch", "mutate"}, revision : Nat,
               links : Seq(LinkRecord), next : Nat \ {0},
               decision : [status : ControllerFlowStatus \cup {None}, launch : BOOLEAN]]

TypeOK ==
    /\ flow \in FlowRecord
    /\ runs \in [Runs -> Statuses \cup {None}]
    /\ wake \in [Wakes -> WakeRecord]
    /\ lost \subseteq Runs

Stops == {"waiting", "blocked"}

Distinct(links) == \A i, j \in DOMAIN links : links[i].run = links[j].run => i = j

Started == {r \in Runs : runs[r] # None}

\* A list of links that names each of its runs once, and only runs that exist.
Sound(links) == Distinct(links) /\ RunsIn(links) \subseteq Started

\* "links" begins with links of the flow's runs, in the flow's order.
GoesOn(links) ==
    /\ Len(flow.links) =< Len(links)
    /\ \A i \in DOMAIN flow.links : links[i].run = flow.links[i].run

\* What wake w has in hand before it launches a run is no more than the flow has
\* references to.
Before(w) == wake[w].pc \in {"reconcile", "decide", "launch"}

OnlyKnown(w) == Before(w) => RunsIn(wake[w].links) \subseteq RunsIn(flow.links)

\* None of the flow's runs waited or was blocked when wake w looked, unless its
\* decision says so.
Reviewed(w) ==
    \/ wake[w].pc \in {"idle", "reconcile"}
    \/ wake[w].pc = "mutate" /\ wake[w].decision.status \in Stops
    \/ \A i \in DOMAIN flow.links : MapToolflow(wake[w].links[i].status) \notin Stops

\* A wake that no mutation has overtaken.
Current(w) == wake[w].pc # "idle" /\ wake[w].revision = flow.revision

\* Every wake that is about to act has a decision.
Decided(w) ==
    wake[w].pc \in {"launch", "mutate"} => wake[w].decision.status \in ControllerFlowStatus

WakeOK(w) ==
    /\ Sound(wake[w].links)
    /\ Decided(w)
    /\ wake[w].pc = "idle" => wake[w].links = <<>>
    /\ wake[w].revision =< flow.revision
    /\ OnlyKnown(w)
    /\ Current(w) => GoesOn(wake[w].links) /\ Reviewed(w)
    /\ Current(w) /\ Before(w) => Len(wake[w].links) = Len(flow.links)

FlowInv ==
    /\ TypeOK
    /\ Sound(flow.links)
    /\ \A w \in Wakes : WakeOK(w)

NativeInv == FlowInv /\ EveryRunIsReferenced

-----------------------------------------------------------------------------
(* Lists of links.                                                         *)

\* A link that is added names a run that is new to the list.
LEMMA LinkAppends ==
    ASSUME NEW links \in Seq(LinkRecord), NEW r \in Runs, NEW status \in Statuses
    PROVE  /\ Link(links, r, status) \in Seq(LinkRecord)
           /\ Len(Link(links, r, status)) = Len(links) + 1
           /\ \A i \in DOMAIN links : Link(links, r, status)[i] = links[i]
           /\ RunsIn(Link(links, r, status)) = RunsIn(links) \cup {r}
           /\ Distinct(links) /\ r \notin RunsIn(links) => Distinct(Link(links, r, status))
  <1> DEFINE e == [run |-> r, status |-> status]
             all == Link(links, r, status)
  <1>1. /\ all \in Seq(LinkRecord)
        /\ Len(all) = Len(links) + 1
        /\ \A i \in 1..Len(links) : all[i] = links[i]
        /\ all[Len(links) + 1] = e
    BY AppendProperties DEF Link, LinkRecord
  <1>2. DOMAIN links = 1..Len(links) /\ DOMAIN all = 1..(Len(links) + 1) /\ Len(links) \in Nat
    BY <1>1
  <1>3. DOMAIN all = DOMAIN links \cup {Len(links) + 1}
    BY <1>2
  <1> HIDE DEF all
  <1>4. RunsIn(all) = RunsIn(links) \cup {r}
    BY <1>1, <1>2, <1>3 DEF RunsIn
  <1>5. Distinct(links) /\ r \notin RunsIn(links) => Distinct(all)
    BY <1>1, <1>2, <1>3 DEF Distinct, RunsIn
  <1> QED BY <1>1, <1>2, <1>4, <1>5 DEF all

\* A status that is read again leaves the runs of a list as they are.
LEMMA StatusChanges ==
    ASSUME NEW links \in Seq(LinkRecord), NEW i \in DOMAIN links, NEW status \in Statuses
    PROVE  LET read == [links EXCEPT ![i].status = status]
           IN  /\ read \in Seq(LinkRecord)
               /\ Len(read) = Len(links)
               /\ DOMAIN read = DOMAIN links
               /\ \A j \in DOMAIN links : read[j].run = links[j].run
  <1> DEFINE read == [links EXCEPT ![i].status = status]
             e == [links[i] EXCEPT !.status = status]
  <1>1. i \in 1..Len(links) /\ links[i] \in LinkRecord
    OBVIOUS
  <1>2. e \in LinkRecord /\ e.run = links[i].run
    BY <1>1 DEF LinkRecord
  <1>3. read = [links EXCEPT ![i] = e]
    OBVIOUS
  <1> HIDE DEF e
  <1>4. /\ read \in Seq(LinkRecord)
        /\ Len(read) = Len(links)
        /\ \A j \in 1..Len(links) : read[j] = IF j = i THEN e ELSE links[j]
    BY <1>1, <1>2, <1>3, ExceptSeq
  <1> QED BY <1>2, <1>4

LEMMA SameRuns ==
    ASSUME NEW links, NEW read, DOMAIN read = DOMAIN links,
           \A j \in DOMAIN links : read[j].run = links[j].run
    PROVE  RunsIn(read) = RunsIn(links) /\ (Distinct(links) => Distinct(read))
  BY DEF RunsIn, Distinct

Below == OpToRel(<, Nat)

LEMMA BelowIsWellFounded == IsWellFoundedOn(Below, Nat)
  BY NatLessThanWellFounded DEF Below

LEMMA BelowIsLess == \A i, j \in Nat : i < j => <<i, j>> \in Below
  BY DEF Below, OpToRel

\* A set of natural numbers that is not empty has a least one.
LEMMA LeastNumber ==
    ASSUME NEW S \in SUBSET Nat, S # {}
    PROVE  \E i \in S : \A j \in S : i =< j
  <1>1. PICK i \in S : \A j \in S : ~(<<j, i>> \in Below)
    BY WFMin, BelowIsWellFounded
  <1>2. i \in Nat /\ \A j \in S : j \in Nat /\ ~(j < i)
    BY <1>1, BelowIsLess
  <1>3. \A j \in S : i =< j
    BY <1>2
  <1> QED BY <1>3

\* The first run that waits or is blocked is one that does.
LEMMA FirstNeedIsOne ==
    ASSUME NEW links \in Seq(LinkRecord)
    PROVE  /\ FirstNeed(links) = 0 => Needs(links, Stops) = {}
           /\ FirstNeed(links) # 0 => FirstNeed(links) \in Needs(links, Stops)
  <1> DEFINE needs == Needs(links, Stops)
  <1>1. needs \subseteq Nat \ {0}
    BY DEF Needs
  <1>2. CASE needs = {}
    BY <1>2 DEF FirstNeed, Stops
  <1>3. CASE needs # {}
    <2>2. \E i \in needs : \A j \in needs : i =< j
      BY <1>1, <1>3, LeastNumber
    <2>3. FirstNeed(links) \in needs
      BY <1>3, <2>2 DEF FirstNeed, Stops
    <2> QED BY <1>1, <1>3, <2>3
  <1> QED BY <1>2, <1>3

\* What a run that waits or is blocked is mapped to.
LEMMA StopsAreMapped ==
    \A status \in LinkedRunStatus :
      MapToolflow(status) \in {"running", "waiting", "blocked"}
  BY DEF MapToolflow, LinkedRunStatus

-----------------------------------------------------------------------------
(* What the actions do to a wake.                                          *)

\* What wake w has in hand it keeps, and a run that starts is in its hands.
Kept(w) ==
    /\ RunsIn(wake[w].links) \subseteq RunsIn(wake'[w].links)
    /\ Started' \subseteq Started \cup RunsIn(wake'[w].links)
    /\ \A v \in Wakes \ {w} : wake'[v] = wake[v]
    /\ UNCHANGED <<flow, lost>>

\* A step of wake w that leaves the flow alone only has wake w to answer for.
LEMMA OneWake ==
    ASSUME FlowInv, NEW w \in Wakes, NEW d \in WakeRecord, flow' = flow,
           runs' \in [Runs -> Statuses \cup {None}], Started \subseteq Started', lost' \subseteq Runs,
           wake' = [wake EXCEPT ![w] = d], WakeOK(w)'
    PROVE  FlowInv'
  <1>1. /\ wake'[w] = d /\ wake' \in [Wakes -> WakeRecord]
        /\ \A v \in Wakes \ {w} : wake'[v] = wake[v]
    BY DEF FlowInv, TypeOK
  <1>2. TypeOK'
    BY <1>1 DEF FlowInv, TypeOK
  <1>3. ASSUME NEW links, Sound(links) PROVE Sound(links)'
    BY <1>3 DEF Sound, Distinct, RunsIn
  <1>4. Sound(flow.links)'
    BY <1>3 DEF FlowInv
  <1>5. ASSUME NEW v \in Wakes \ {w} PROVE WakeOK(v)'
    <2>1. WakeOK(v) /\ wake'[v] = wake[v]
      BY <1>1 DEF FlowInv
    <2>2. Sound(wake[v].links)'
      BY <2>1, <1>3 DEF WakeOK
    <2> QED BY <2>1, <2>2 DEF WakeOK, Current, Before, OnlyKnown, GoesOn, Reviewed, Decided
  <1> QED BY <1>2, <1>4, <1>5 DEF FlowInv

LEMMA IdleIsTyped == Idle \in WakeRecord
  BY EmptySeq DEF Idle, WakeRecord, NoLaunch

\* A wake that is over has nothing to answer for.
LEMMA IdleIsOK ==
    ASSUME FlowInv, NEW w \in Wakes, flow' = flow, wake'[w] = Idle
    PROVE  WakeOK(w)'
  <1>2. /\ wake'[w].links = <<>> /\ wake'[w].pc = "idle" /\ wake'[w].revision = 0
        /\ RunsIn(wake'[w].links) = {}
    BY DEF Idle, RunsIn
  <1>3. Sound(wake[w].links)'
    BY <1>2 DEF Sound, Distinct, RunsIn
  <1>4. flow.revision \in Nat
    BY DEF FlowInv, TypeOK, FlowRecord
  <1>5. ~Before(w)' /\ ~Current(w)' /\ Decided(w)'
    BY <1>2 DEF Before, Current, Decided
  <1> QED BY <1>2, <1>3, <1>4, <1>5 DEF WakeOK, OnlyKnown

LEMMA StartWakeKeeps ==
    ASSUME FlowInv, NEW w \in Wakes, StartWake(w)
    PROVE  FlowInv' /\ Kept(w)
  <1> DEFINE d == [Idle EXCEPT !.pc = "reconcile", !.revision = flow.revision, !.links = flow.links]
  <1>1. flow \in FlowRecord /\ wake \in [Wakes -> WakeRecord] /\ Sound(flow.links)
    BY DEF FlowInv, TypeOK
  <1>2. /\ d.pc = "reconcile" /\ d.revision = flow.revision /\ d.links = flow.links
        /\ d \in WakeRecord
    <2>1. flow.revision \in Nat /\ flow.links \in Seq(LinkRecord)
      BY <1>1 DEF FlowRecord
    <2> QED BY <2>1, IdleIsTyped DEF WakeRecord
  <1>3. wake' = [wake EXCEPT ![w] = d] /\ UNCHANGED <<flow, runs, lost>>
    BY DEF StartWake
  <1>4. wake'[w] = d
    BY <1>1, <1>3
  <1> HIDE DEF d
  <1>5. Sound(wake[w].links)'
    BY <1>1, <1>2, <1>3, <1>4 DEF Sound, Distinct, Started, RunsIn
  <1>6. GoesOn(wake[w].links)' /\ flow.revision \in Nat /\ Len(flow.links) \in Nat
    BY <1>1, <1>2, <1>3, <1>4 DEF GoesOn, FlowRecord
  <1>7. WakeOK(w)'
    BY <1>2, <1>3, <1>4, <1>5, <1>6 DEF WakeOK, Current, Before, OnlyKnown, Reviewed, Decided
  <1>8. Kept(w)
    <2>1. wake[w].links = <<>> /\ \A v \in Wakes \ {w} : wake'[v] = wake[v]
      BY <1>1, <1>3 DEF StartWake, At, FlowInv, WakeOK
    <2> QED BY <1>3, <2>1 DEF Kept, RunsIn, Started
  <1> QED BY <1>2, <1>3, <1>7, <1>8, OneWake DEF FlowInv, TypeOK, Started

\* A wake that reads its runs' statuses keeps the runs it has.
LEMMA ReconcileKeeps ==
    ASSUME FlowInv, NEW w \in Wakes, Reconcile(w)
    PROVE  FlowInv' /\ Kept(w)
  <1> DEFINE c == wake[w]
             i == c.next
             status == runs[c.links[i].run]
             read == [c.links EXCEPT ![i].status = status]
             d == [c EXCEPT !.links[i].status = status, !.next = i + 1]
  <1>1. c \in WakeRecord /\ c.links \in Seq(LinkRecord) /\ i \in DOMAIN c.links
    BY DEF FlowInv, TypeOK, WakeRecord, Reconcile
  <1>2. status \in Statuses
    BY <1>1 DEF FlowInv, TypeOK, WakeOK, Sound, RunsIn, Started
  <1>3. /\ read \in Seq(LinkRecord) /\ Len(read) = Len(c.links)
        /\ DOMAIN read = DOMAIN c.links
        /\ \A j \in DOMAIN c.links : read[j].run = c.links[j].run
    BY <1>1, <1>2, StatusChanges
  <1>4. RunsIn(read) = RunsIn(c.links) /\ (Distinct(c.links) => Distinct(read))
    <2> HIDE DEF read
    <2> QED BY <1>3, SameRuns
  <1>5. /\ d.pc = c.pc /\ d.revision = c.revision /\ d.links = read /\ d \in WakeRecord
    <2>1. d = [c EXCEPT !.links = read, !.next = i + 1]
      OBVIOUS
    <2>2. i + 1 \in Nat \ {0}
      BY <1>1 DEF WakeRecord
    <2> HIDE DEF d, read, c, i
    <2> QED BY <1>1, <1>3, <2>1, <2>2 DEF WakeRecord
  <1>6. wake' = [wake EXCEPT ![w] = d] /\ UNCHANGED <<flow, runs, lost>> /\ c.pc = "reconcile"
    BY DEF Reconcile, At
  <1>7. wake'[w] = d
    BY <1>6 DEF FlowInv, TypeOK
  <1> HIDE DEF d, read
  <1>8. Sound(wake[w].links)'
    <2>1. Sound(c.links)
      BY DEF FlowInv, WakeOK
    <2>2. Sound(read)
      BY <1>4, <2>1 DEF Sound
    <2>3. wake'[w].links = read
      BY <1>5, <1>7
    <2>4. Started' = Started
      BY <1>6 DEF Started
    <2> QED BY <2>2, <2>3, <2>4 DEF Sound, Distinct, RunsIn
  <1>9. Current(w)' => Current(w)
    BY <1>5, <1>6, <1>7 DEF Current
  <1>10. Current(w) => GoesOn(wake[w].links)'
    <2>1. Len(c.links) \in Nat /\ Len(flow.links) \in Nat /\ DOMAIN flow.links = 1..Len(flow.links)
          /\ DOMAIN c.links = 1..Len(c.links)
      BY <1>1 DEF FlowInv, TypeOK, FlowRecord
    <2> QED BY <1>3, <1>5, <1>6, <1>7, <2>1 DEF FlowInv, WakeOK, GoesOn
  <1>11. WakeOK(w)'
    BY <1>3, <1>4, <1>5, <1>6, <1>7, <1>8, <1>9, <1>10
    DEF FlowInv, WakeOK, Current, Before, OnlyKnown, Reviewed, Decided
  <1>12. Kept(w)
    <2>1. \A v \in Wakes \ {w} : wake'[v] = wake[v]
      BY <1>6 DEF FlowInv, TypeOK
    <2> QED BY <1>4, <1>5, <1>6, <1>7, <2>1 DEF Kept, Started
  <1> QED BY <1>5, <1>6, <1>11, <1>12, OneWake DEF FlowInv, TypeOK, Started

\* A wake that has read all its runs goes on, or decides what they tell it.
LEMMA ReviewKeeps ==
    ASSUME FlowInv, NEW w \in Wakes, Review(w)
    PROVE  FlowInv' /\ Kept(w)
  <1> DEFINE c == wake[w]
             i == FirstNeed(c.links)
             mapped == MapToolflow(c.links[i].status)
             on == [c EXCEPT !.pc = "decide"]
             off == [c EXCEPT !.pc = "mutate", !.decision.status = mapped]
  <1>1. /\ c \in WakeRecord /\ c.links \in Seq(LinkRecord) /\ WakeOK(w) /\ flow \in FlowRecord
        /\ c.pc = "reconcile" /\ UNCHANGED <<flow, runs, lost>> /\ Sound(c.links)
        /\ wake \in [Wakes -> WakeRecord]
    BY DEF FlowInv, TypeOK, WakeRecord, Review, At, WakeOK
  <1>2. ASSUME NEW d \in WakeRecord, wake' = [wake EXCEPT ![w] = d], d.revision = c.revision,
               d.links = c.links, d.pc \in {"decide", "mutate"},
               Current(w) => Reviewed(w)', Decided(w)'
        PROVE  FlowInv' /\ Kept(w)
    <2>1. wake'[w] = d
      BY <1>1, <1>2
    <2>2. Sound(wake[w].links)'
      BY <1>1, <1>2, <2>1 DEF Sound, Distinct, RunsIn, Started
    <2>3. /\ Current(w)' <=> Current(w)
          /\ Before(w)
          /\ GoesOn(wake[w].links) => GoesOn(wake[w].links)'
      BY <1>1, <1>2, <2>1 DEF Current, Before, GoesOn
    <2>4. WakeOK(w)'
      BY <1>1, <1>2, <2>1, <2>2, <2>3 DEF WakeOK, OnlyKnown
    <2>5. Kept(w)
      <3>1. \A v \in Wakes \ {w} : wake'[v] = wake[v]
        BY <1>1, <1>2
      <3> QED BY <1>1, <1>2, <2>1, <3>1 DEF Kept, Started
    <2> QED BY <1>1, <1>2, <2>4, <2>5, OneWake DEF FlowInv, TypeOK, Started
  <1>3. CASE i = 0
    <2>1. /\ wake' = [wake EXCEPT ![w] = on] /\ on \in WakeRecord
          /\ on.pc = "decide" /\ on.revision = c.revision /\ on.links = c.links
      BY <1>1, <1>3 DEF Review, WakeRecord
    <2>2. wake'[w] = on
      BY <1>1, <2>1
    <2>3. ASSUME Current(w), NEW j \in DOMAIN flow.links
          PROVE  MapToolflow(c.links[j].status) \notin Stops
      <3>1. j \in DOMAIN c.links
        <4>1. Len(flow.links) =< Len(c.links) /\ Len(c.links) \in Nat /\ Len(flow.links) \in Nat
              /\ DOMAIN flow.links = 1..Len(flow.links) /\ DOMAIN c.links = 1..Len(c.links)
          BY <1>1, <2>3 DEF WakeOK, GoesOn, FlowRecord
        <4> QED BY <2>3, <4>1
      <3>2. Needs(c.links, Stops) = {}
        BY <1>1, <1>3, FirstNeedIsOne
      <3> QED BY <3>1, <3>2 DEF Needs
    <2>4. Current(w) => Reviewed(w)'
      <3> HIDE DEF on
      <3> QED BY <1>1, <2>1, <2>2, <2>3 DEF Reviewed
    <2>5. Decided(w)'
      <3> HIDE DEF on
      <3> QED BY <2>1, <2>2 DEF Decided
    <2> HIDE DEF on
    <2> QED BY <1>2, <2>1, <2>4, <2>5
  <1>4. CASE i # 0
    <2>1. i \in DOMAIN c.links /\ mapped \in Stops
      BY <1>1, <1>4, FirstNeedIsOne DEF Needs
    <2>2. /\ wake' = [wake EXCEPT ![w] = off]
      BY <1>1, <1>4 DEF Review
    <2>3. c.decision \in [status : ControllerFlowStatus \cup {None}, launch : BOOLEAN]
      BY <1>1 DEF WakeRecord
    <2> HIDE DEF i, mapped
    <2>4. [c.decision EXCEPT !.status = mapped]
             \in [status : ControllerFlowStatus \cup {None}, launch : BOOLEAN]
          /\ [c.decision EXCEPT !.status = mapped].status = mapped
      BY <2>1, <2>3 DEF Stops, ControllerFlowStatus
    <2>5. off = [c EXCEPT !.pc = "mutate", !.decision = [c.decision EXCEPT !.status = mapped]]
      OBVIOUS
    <2>6. /\ off \in WakeRecord /\ off.decision.status = mapped
          /\ off.pc = "mutate" /\ off.revision = c.revision /\ off.links = c.links
      <3> DEFINE decided == [c.decision EXCEPT !.status = mapped]
      <3> HIDE DEF decided, off
      <3> QED BY <1>1, <2>4, <2>5 DEF WakeRecord, decided
    <2>7. wake'[w] = off
      BY <1>1, <2>2
    <2> HIDE DEF off
    <2>8. Reviewed(w)' /\ Decided(w)'
      BY <2>1, <2>6, <2>7 DEF Reviewed, Decided, Stops, ControllerFlowStatus
    <2> QED BY <1>2, <2>2, <2>6, <2>8
  <1> QED BY <1>3, <1>4

\* What the caller decides of a wake that none of the runs has stopped
LEMMA DecideKeeps ==
    ASSUME FlowInv, NEW w \in Wakes, Decide(w)
    PROVE  FlowInv' /\ Kept(w)
  <1> DEFINE c == wake[w]
  <1>1. /\ c \in WakeRecord /\ WakeOK(w) /\ wake \in [Wakes -> WakeRecord]
        /\ c.pc = "decide" /\ UNCHANGED <<flow, runs, lost>>
    BY DEF FlowInv, TypeOK, Decide, At
  <1>2. PICK status \in ControllerFlowStatus, launch \in BOOLEAN :
          wake' = [wake EXCEPT ![w].pc = IF launch THEN "launch" ELSE "mutate",
                               ![w].decision = [status |-> status, launch |-> launch]]
    BY DEF Decide
  <1> DEFINE pc == IF launch THEN "launch" ELSE "mutate"
             decision == [status |-> status, launch |-> launch]
             d == [c EXCEPT !.pc = pc, !.decision = decision]
  <1>3. wake' = [wake EXCEPT ![w] = d]
    BY <1>2
  <1>4. decision \in [status : ControllerFlowStatus \cup {None}, launch : BOOLEAN]
        /\ pc \in {"launch", "mutate"}
    OBVIOUS
  <1>5. /\ d \in WakeRecord /\ d.links = c.links /\ d.revision = c.revision
        /\ d.pc \in {"launch", "mutate"} /\ d.decision = decision
    <2> HIDE DEF pc, decision
    <2> QED BY <1>1, <1>4 DEF WakeRecord
  <1> HIDE DEF d
  <1>6. wake'[w] = d
    BY <1>1, <1>3
  <1>7. Sound(wake[w].links)'
    BY <1>1, <1>5, <1>6 DEF WakeOK, Sound, Distinct, RunsIn, Started
  <1>8. /\ Current(w)' <=> Current(w)
        /\ Before(w)
        /\ GoesOn(wake[w].links) => GoesOn(wake[w].links)'
        /\ Reviewed(w) => Reviewed(w)'
        /\ Decided(w)'
    BY <1>1, <1>5, <1>6 DEF Current, Before, GoesOn, Reviewed, Decided
  <1>9. WakeOK(w)'
    BY <1>1, <1>5, <1>6, <1>7, <1>8 DEF WakeOK, OnlyKnown
  <1>10. Kept(w)
    <2>1. \A v \in Wakes \ {w} : wake'[v] = wake[v]
      BY <1>1, <1>3
    <2> QED BY <1>1, <1>5, <1>6, <2>1 DEF Kept, Started
  <1> QED BY <1>1, <1>3, <1>5, <1>9, <1>10, OneWake DEF FlowInv, TypeOK, Started

\* A run is launched that no flow and no wake had heard of.
LEMMA LaunchKeeps ==
    ASSUME FlowInv, NEW w \in Wakes, Launch(w)
    PROVE  FlowInv' /\ Kept(w)
  <1> DEFINE c == wake[w]
  <1>1. /\ c \in WakeRecord /\ c.links \in Seq(LinkRecord) /\ WakeOK(w)
        /\ wake \in [Wakes -> WakeRecord] /\ runs \in [Runs -> Statuses \cup {None}]
        /\ flow \in FlowRecord /\ c.pc = "launch" /\ UNCHANGED <<flow, lost>>
    BY DEF FlowInv, TypeOK, WakeRecord, Launch, At
  <1>2. PICK r \in Runs, status \in Statuses :
          /\ runs[r] = None
          /\ runs' = [runs EXCEPT ![r] = status]
          /\ wake' = [wake EXCEPT ![w].pc = "mutate", ![w].links = Link(@, r, status)]
    BY DEF Launch
  <1> DEFINE all == Link(c.links, r, status)
             d == [c EXCEPT !.pc = "mutate", !.links = all]
  <1>3. wake' = [wake EXCEPT ![w] = d]
    BY <1>2
  <1>4. /\ all \in Seq(LinkRecord) /\ Len(all) = Len(c.links) + 1
        /\ \A i \in DOMAIN c.links : all[i] = c.links[i]
        /\ RunsIn(all) = RunsIn(c.links) \cup {r}
        /\ Distinct(c.links) /\ r \notin RunsIn(c.links) => Distinct(all)
    BY <1>1, LinkAppends
  <1> HIDE DEF all
  <1>5. /\ d \in WakeRecord /\ d.links = all /\ d.revision = c.revision /\ d.pc = "mutate"
        /\ d.decision = c.decision
    BY <1>1, <1>4 DEF WakeRecord
  <1>6. wake'[w] = d
    BY <1>1, <1>3
  <1> HIDE DEF d
  <1>7. Started' = Started \cup {r} /\ r \notin Started
    BY <1>1, <1>2, NativeAssumption DEF Started
  <1>8. Sound(wake[w].links)'
    <2>1. Distinct(c.links) /\ RunsIn(c.links) \subseteq Started
      BY <1>1 DEF WakeOK, Sound
    <2>2. Distinct(all) /\ RunsIn(all) \subseteq Started'
      BY <1>4, <1>7, <2>1
    <2>3. wake'[w].links = all
      BY <1>5, <1>6
    <2> QED BY <2>2, <2>3 DEF Sound, Distinct, RunsIn
  <1>9. Len(c.links) \in Nat /\ Len(flow.links) \in Nat /\ flow.revision \in Nat
        /\ DOMAIN flow.links = 1..Len(flow.links) /\ DOMAIN c.links = 1..Len(c.links)
    BY <1>1 DEF FlowRecord
  <1>10. Current(w)' => Current(w) /\ GoesOn(c.links) /\ Reviewed(w) /\ ~Before(w)'
    BY <1>1, <1>5, <1>6 DEF Current, WakeOK, Before
  <1>11. GoesOn(c.links) =>
           /\ GoesOn(wake[w].links)'
           /\ DOMAIN flow.links \subseteq DOMAIN c.links
    BY <1>1, <1>4, <1>5, <1>6, <1>9 DEF GoesOn
  <1>12. (Current(w)' => Reviewed(w)') /\ Decided(w)'
    BY <1>1, <1>4, <1>5, <1>6, <1>10, <1>11 DEF Reviewed, Decided, WakeOK
  <1>13. WakeOK(w)'
    BY <1>1, <1>5, <1>6, <1>8, <1>10, <1>11, <1>12 DEF WakeOK, OnlyKnown, Before
  <1>14. runs' \in [Runs -> Statuses \cup {None}] /\ Started \subseteq Started'
    BY <1>1, <1>2, <1>7
  <1>15. Kept(w)
    <2>1. \A v \in Wakes \ {w} : wake'[v] = wake[v]
      BY <1>1, <1>3
    <2> QED BY <1>1, <1>4, <1>5, <1>6, <1>7, <2>1 DEF Kept
  <1> QED BY <1>1, <1>3, <1>5, <1>13, <1>14, <1>15, OneWake DEF FlowInv, TypeOK

\* A wake that ends without a mutation
LEMMA EndKeeps ==
    ASSUME FlowInv, NEW w \in Wakes, wake' = [wake EXCEPT ![w] = Idle], UNCHANGED <<flow, runs>>,
           lost' \subseteq Runs
    PROVE  FlowInv'
  <1>1. wake'[w] = Idle
    BY DEF FlowInv, TypeOK
  <1> QED BY <1>1, IdleIsTyped, IdleIsOK, OneWake DEF FlowInv, TypeOK, Started

LEMMA RunsAreRuns ==
    ASSUME NEW links \in Seq(LinkRecord)
    PROVE  RunsIn(links) \subseteq Runs
  <1>1. \A i \in DOMAIN links : links[i] \in LinkRecord
    OBVIOUS
  <1>2. \A link \in LinkRecord : link.run \in Runs
    BY DEF LinkRecord
  <1> QED BY <1>1, <1>2 DEF RunsIn

LEMMA LostIsTyped ==
    ASSUME TypeOK, NEW w \in Wakes
    PROVE  lost \cup Unrecorded(w) \subseteq Runs
  <1>1. wake[w].links \in Seq(LinkRecord)
    BY DEF TypeOK, WakeRecord
  <1> QED BY <1>1, RunsAreRuns DEF TypeOK, Unrecorded

\* The mutation of a wake that nothing has overtaken
Applied(w) ==
    /\ At(w, "mutate")
    /\ Open
    /\ wake[w].revision = flow.revision
    /\ flow' = [revision |-> flow.revision + 1, status |-> Outcome(wake[w].decision.status),
                wait |-> IF Outcome(wake[w].decision.status) = "waiting" THEN "wait" ELSE None,
                links |-> wake[w].links]
    /\ wake' = [wake EXCEPT ![w] = Idle]
    /\ UNCHANGED <<runs, lost>>

\* A mutation that the service refuses changes nothing but the wake.
Refused(w) ==
    /\ At(w, "mutate")
    /\ wake' = [wake EXCEPT ![w] = Idle]
    /\ lost' = lost \cup Unrecorded(w)
    /\ UNCHANGED <<flow, runs>>

LEMMA MutateIs == \A w \in Wakes : Mutate(w) => Applied(w) \/ Refused(w)
  BY DEF Mutate, Applied, Refused, Expects

\* The links of a mutation that is applied are the flow's and at most one more.
LEMMA AppliedGoesOn ==
    ASSUME FlowInv, NEW w \in Wakes, Applied(w)
    PROVE  /\ flow'.links = wake[w].links /\ GoesOn(wake[w].links) /\ Reviewed(w)
           /\ flow'.revision = flow.revision + 1 /\ flow'.revision > flow.revision
           /\ Len(flow.links) \in Nat /\ Len(wake[w].links) \in Nat
           /\ DOMAIN flow.links \subseteq DOMAIN wake[w].links
           /\ RunsIn(flow.links) \subseteq RunsIn(flow'.links)
  <1>1. /\ WakeOK(w) /\ Current(w) /\ flow \in FlowRecord /\ wake[w].links \in Seq(LinkRecord)
        /\ flow'.links = wake[w].links /\ flow'.revision = flow.revision + 1
    BY DEF FlowInv, TypeOK, WakeRecord, Applied, At, Current
  <1>2. GoesOn(wake[w].links) /\ Reviewed(w)
    BY <1>1 DEF WakeOK
  <1>3. /\ Len(flow.links) \in Nat /\ Len(wake[w].links) \in Nat /\ flow.revision \in Nat
        /\ DOMAIN flow.links = 1..Len(flow.links)
        /\ DOMAIN wake[w].links = 1..Len(wake[w].links)
    BY <1>1 DEF FlowRecord
  <1>4. DOMAIN flow.links \subseteq DOMAIN wake[w].links
    BY <1>2, <1>3 DEF GoesOn
  <1>5. RunsIn(flow.links) \subseteq RunsIn(wake[w].links)
    BY <1>2, <1>4 DEF GoesOn, RunsIn
  <1> QED BY <1>1, <1>2, <1>3, <1>4, <1>5

\* Every other wake is overtaken.
LEMMA AppliedKeeps ==
    ASSUME FlowInv, NEW w \in Wakes, Applied(w)
    PROVE  FlowInv'
  <1>1. /\ flow'.links = wake[w].links /\ flow'.revision > flow.revision
        /\ RunsIn(flow.links) \subseteq RunsIn(flow'.links)
    BY AppliedGoesOn
  <1>2. /\ wake \in [Wakes -> WakeRecord] /\ flow \in FlowRecord /\ wake[w] \in WakeRecord
        /\ wake' = [wake EXCEPT ![w] = Idle] /\ UNCHANGED <<runs, lost>>
    BY DEF FlowInv, TypeOK, Applied
  <1>3. Outcome(wake[w].decision.status) \in ControllerFlowStatus
    BY DEF FlowInv, WakeOK, Decided, Applied, At, Outcome, ControllerFlowStatus
  <1>4. flow' \in FlowRecord
    <2>1. flow.revision + 1 \in Nat /\ wake[w].links \in Seq(LinkRecord)
      BY <1>2 DEF FlowRecord, WakeRecord
    <2> QED BY <1>3, <2>1 DEF Applied, FlowRecord
  <1>5. TypeOK'
    BY <1>2, <1>4, IdleIsTyped DEF FlowInv, TypeOK
  <1>6. Sound(flow.links)'
    <2>1. Sound(wake[w].links)
      BY DEF FlowInv, WakeOK
    <2> QED BY <1>1, <1>2, <2>1 DEF Sound, Distinct, RunsIn, Started
  <1>7. ASSUME NEW v \in Wakes PROVE WakeOK(v)'
    <2>1. /\ v # w => wake'[v] = wake[v]
          /\ v = w => wake'[v] = Idle
          /\ wake[v].revision =< flow.revision /\ wake[v].revision \in Nat
          /\ flow.revision \in Nat /\ flow'.revision \in Nat
      BY <1>2, <1>4 DEF FlowInv, WakeOK, WakeRecord, FlowRecord
    <2>2. CASE v = w
      <3>1. wake'[v].pc = "idle" /\ wake'[v].links = <<>> /\ wake'[v].revision = 0
        BY <2>1, <2>2 DEF Idle
      <3>2. Sound(wake[v].links)'
        BY <3>1 DEF Sound, Distinct, RunsIn
      <3> QED BY <2>1, <3>1, <3>2 DEF WakeOK, OnlyKnown, Before, Current, Decided
    <2>3. CASE v # w
      <3>1. WakeOK(v)
        BY DEF FlowInv
      <3>2. Sound(wake[v].links)'
        BY <1>2, <2>1, <2>3, <3>1 DEF WakeOK, Sound, Distinct, RunsIn, Started
      <3>3. ~Current(v)' /\ wake'[v].revision =< flow'.revision
        BY <1>1, <2>1, <2>3 DEF Current
      <3>4. OnlyKnown(v)'
        BY <1>1, <2>1, <2>3, <3>1 DEF WakeOK, OnlyKnown, Before, RunsIn
      <3> QED BY <2>1, <2>3, <3>1, <3>2, <3>3, <3>4 DEF WakeOK, Decided
    <2> QED BY <2>2, <2>3
  <1> QED BY <1>5, <1>6, <1>7 DEF FlowInv

\* A run that goes on changes nothing that a flow or a wake holds.
LEMMA RunMovesKeeps ==
    ASSUME FlowInv, RunMoves
    PROVE  FlowInv' /\ Started' = Started
  <1>1. PICK r \in Runs, status \in Statuses :
          runs[r] # None /\ runs' = [runs EXCEPT ![r] = status] /\ UNCHANGED <<flow, wake, lost>>
    BY DEF RunMoves
  <1>2. Started' = Started /\ TypeOK'
    BY <1>1, NativeAssumption DEF FlowInv, TypeOK, Started
  <1>3. ASSUME NEW links, Sound(links) PROVE Sound(links)'
    BY <1>2, <1>3 DEF Sound, Distinct, RunsIn
  <1>4. Sound(flow.links)'
    BY <1>1, <1>3 DEF FlowInv
  <1>5. ASSUME NEW w \in Wakes PROVE WakeOK(w)'
    <2>1. WakeOK(w) /\ Sound(wake[w].links)'
      BY <1>1, <1>3 DEF FlowInv, WakeOK
    <2> QED BY <1>1, <2>1 DEF WakeOK, OnlyKnown, Before, Current, GoesOn, Reviewed, Decided
  <1> QED BY <1>2, <1>4, <1>5 DEF FlowInv

LEMMA StutterKeeps ==
    ASSUME FlowInv, UNCHANGED vars
    PROVE  FlowInv'
  <1>1. TypeOK'
    BY DEF vars, FlowInv, TypeOK
  <1>2. ASSUME NEW links, Sound(links) PROVE Sound(links)'
    BY <1>2 DEF vars, Sound, Distinct, RunsIn, Started
  <1>3. Sound(flow.links)'
    BY <1>2 DEF vars, FlowInv
  <1>4. ASSUME NEW w \in Wakes PROVE WakeOK(w)'
    <2>1. WakeOK(w) /\ Sound(wake[w].links)'
      BY <1>2 DEF vars, FlowInv, WakeOK
    <2> QED BY <2>1 DEF vars, WakeOK, OnlyKnown, Before, Current, GoesOn, Reviewed, Decided
  <1> QED BY <1>1, <1>3, <1>4 DEF FlowInv

LEMMA InitOK == Init => NativeInv
  <1> SUFFICES ASSUME Init PROVE NativeInv
    OBVIOUS
  <1>1. TypeOK
    BY IdleIsTyped, EmptySeq DEF Init, TypeOK, FlowRecord, ControllerFlowStatus
  <1>2. Sound(<<>>)
    BY DEF Sound, Distinct, RunsIn
  <1>3. ASSUME NEW w \in Wakes PROVE WakeOK(w)
    <2>1. wake[w].pc = "idle" /\ wake[w].links = <<>> /\ wake[w].revision = 0 /\ flow.revision = 0
      BY DEF Init, Idle
    <2> QED BY <1>2, <2>1 DEF WakeOK, Decided, OnlyKnown, Before, Current
  <1>4. EveryRunIsReferenced
    BY DEF Init, EveryRunIsReferenced
  <1> QED BY <1>1, <1>2, <1>3, <1>4 DEF NativeInv, FlowInv, Init

-----------------------------------------------------------------------------
(* The runs that a flow does not reference                                 *)

\* A step leaves no run without a reference, if what it takes from a wake is
\* referenced or given up for lost.
LEMMA Accounted ==
    ASSUME EveryRunIsReferenced, NEW w \in Wakes,
           \A v \in Wakes \ {w} : wake'[v] = wake[v],
           RunsIn(flow.links) \subseteq RunsIn(flow'.links), lost \subseteq lost',
           RunsIn(wake[w].links) \subseteq
             RunsIn(wake'[w].links) \cup RunsIn(flow'.links) \cup lost',
           Started' \subseteq Started \cup RunsIn(wake'[w].links)
    PROVE  EveryRunIsReferenced'
  <1> SUFFICES ASSUME NEW r \in Runs, runs'[r] # None, ~Working(r)', r \notin lost'
               PROVE  r \in RunsIn(flow'.links)
    BY DEF EveryRunIsReferenced, RunsIn
  <1>1. r \notin RunsIn(wake'[w].links)
    BY DEF Working, RunsIn
  <1>2. runs[r] # None
    BY <1>1 DEF Started
  <1>3. CASE Working(r)
    <2>1. PICK v \in Wakes : r \in RunsIn(wake[v].links)
      BY <1>3 DEF Working
    <2>2. v = w
      BY <2>1 DEF Working, RunsIn
    <2> QED BY <1>1, <2>1, <2>2
  <1>4. CASE ~Working(r)
    BY <1>2, <1>4 DEF EveryRunIsReferenced
  <1> QED BY <1>3, <1>4

LEMMA EndIsAccounted ==
    ASSUME FlowInv, EveryRunIsReferenced, NEW w \in Wakes, wake' = [wake EXCEPT ![w] = Idle],
           UNCHANGED <<flow, runs>>, lost \subseteq lost', Unrecorded(w) \subseteq lost'
    PROVE  EveryRunIsReferenced'
  <1>1. \A v \in Wakes \ {w} : wake'[v] = wake[v]
    BY DEF FlowInv, TypeOK
  <1>2. RunsIn(wake[w].links) \subseteq RunsIn(flow.links) \cup lost'
    BY DEF Unrecorded
  <1> QED BY <1>1, <1>2, Accounted DEF Started

-----------------------------------------------------------------------------
\* Every step of a wake, of a run or of nothing
LEMMA NextKeeps ==
    ASSUME NativeInv, [Next]_vars
    PROVE  NativeInv'
  <1>1. FlowInv /\ EveryRunIsReferenced
    BY DEF NativeInv
  <1>2. ASSUME NEW w \in Wakes, FlowInv' /\ Kept(w) PROVE NativeInv'
    BY <1>1, <1>2, Accounted DEF NativeInv, Kept
  <1>3. ASSUME NEW w \in Wakes, StartWake(w) PROVE NativeInv'
    BY <1>1, <1>2, <1>3, StartWakeKeeps
  <1>4. ASSUME NEW w \in Wakes, Reconcile(w) PROVE NativeInv'
    BY <1>1, <1>2, <1>4, ReconcileKeeps
  <1>5. ASSUME NEW w \in Wakes, Review(w) PROVE NativeInv'
    BY <1>1, <1>2, <1>5, ReviewKeeps
  <1>6. ASSUME NEW w \in Wakes, Decide(w) PROVE NativeInv'
    BY <1>1, <1>2, <1>6, DecideKeeps
  <1>7. ASSUME NEW w \in Wakes, Launch(w) PROVE NativeInv'
    BY <1>1, <1>2, <1>7, LaunchKeeps
  <1>8. ASSUME NEW w \in Wakes, LaunchThrows(w) PROVE NativeInv'
    <2>1. Unrecorded(w) = {}
      BY <1>1, <1>8 DEF LaunchThrows, At, FlowInv, WakeOK, OnlyKnown, Before, Unrecorded
    <2>2. lost' \subseteq Runs
      BY <1>1, <1>8 DEF LaunchThrows, FlowInv, TypeOK
    <2> QED BY <1>1, <1>8, <2>1, <2>2, EndKeeps, EndIsAccounted DEF LaunchThrows, NativeInv
  <1>9. ASSUME NEW w \in Wakes, Unsupported(w) \/ Refused(w) PROVE NativeInv'
    <2>1. lost' \subseteq Runs
      BY <1>1, <1>9, LostIsTyped DEF Unsupported, Refused, FlowInv
    <2> QED BY <1>1, <1>9, <2>1, EndKeeps, EndIsAccounted DEF Unsupported, Refused, NativeInv
  <1>10. ASSUME NEW w \in Wakes, Applied(w) PROVE NativeInv'
    <2>1. FlowInv' /\ RunsIn(flow.links) \subseteq RunsIn(flow'.links)
          /\ flow'.links = wake[w].links
      BY <1>1, <1>10, AppliedKeeps, AppliedGoesOn
    <2>2. \A v \in Wakes \ {w} : wake'[v] = wake[v]
      BY <1>1, <1>10 DEF Applied, FlowInv, TypeOK
    <2>3. EveryRunIsReferenced'
      BY <1>1, <1>10, <2>1, <2>2, Accounted DEF Applied, Started
    <2> QED BY <2>1, <2>3 DEF NativeInv
  <1>11. CASE RunMoves
    <2>1. FlowInv' /\ Started' = Started /\ UNCHANGED <<flow, wake, lost>>
      BY <1>1, <1>11, RunMovesKeeps DEF RunMoves
    <2>2. EveryRunIsReferenced'
      BY <1>1, <2>1 DEF EveryRunIsReferenced, Working, RunsIn, Started
    <2> QED BY <2>1, <2>2 DEF NativeInv
  <1>12. CASE UNCHANGED vars
    <2>1. EveryRunIsReferenced'
      BY <1>1, <1>12 DEF EveryRunIsReferenced, Working, RunsIn, vars
    <2> QED BY <1>1, <1>12, <2>1, StutterKeeps DEF NativeInv
  <1> QED BY <1>3, <1>4, <1>5, <1>6, <1>7, <1>8, <1>9, <1>10, <1>11, <1>12, MutateIs DEF Next

LEMMA NativeSafety == Spec => []NativeInv
  BY InitOK, NextKeeps, PTL DEF Spec

\* The types of the controller's variables, and what every wake under way knows
\* of the flow: it holds no run twice and none that was not started, it has seen
\* no revision the flow has not reached, and what it does as the latest wake goes
\* on from the flow's own list (onWake and advance, controller-contract.ts).
THEOREM NativeInvariant == Spec => []FlowInv
  BY NativeSafety, PTL DEF NativeInv

\* However wakes overlap, the flow's links name each run once, and each names a
\* run that was started.
THEOREM LinksNameRunsAlways == Spec => []LinksNameRuns
  <1>1. NativeInv => LinksNameRuns
    BY DEF NativeInv, FlowInv, Sound, Distinct, Started, LinksNameRuns
  <1> QED BY <1>1, NativeSafety, PTL

\* A run that was launched for the flow is referenced by it once the wake that
\* launched it is over, unless the one mutation of that wake was not applied.
THEOREM EveryRunIsReferencedAlways == Spec => []EveryRunIsReferenced
  BY NativeSafety, PTL DEF NativeInv

\* Only a mutation that the service applies changes the flow.
LEMMA OnlyMutationsChange ==
    ASSUME [Next]_vars, flow' # flow
    PROVE  \E w \in Wakes : Applied(w)
  BY MutateIs
  DEF Next, StartWake, Reconcile, Review, Decide, Launch, LaunchThrows, Unsupported, Refused,
      RunMoves, vars

\* No step drops a link from the flow, whatever other wakes have seen or launched.
THEOREM LinksAreNeverLostAlways == Spec => LinksAreNeverLost
  <1>1. NativeInv /\ [Next]_vars => [RunsIn(flow.links) \subseteq RunsIn(flow'.links)]_vars
    <2> SUFFICES ASSUME NativeInv, [Next]_vars
                 PROVE  RunsIn(flow.links) \subseteq RunsIn(flow'.links)
      OBVIOUS
    <2>1. CASE flow' = flow
      BY <2>1
    <2>2. CASE flow' # flow
      BY <2>2, OnlyMutationsChange, AppliedGoesOn DEF NativeInv
    <2> QED BY <2>1, <2>2
  <1> QED BY <1>1, NativeSafety, PTL DEF Spec, LinksAreNeverLost

\* The wake that declares a flow done has seen every run that was linked before
\* it, after it was handed the flow, and none of them waited or was blocked.
THEOREM DoneIsReviewedAlways == Spec => DoneIsReviewed
  <1>1. ASSUME NativeInv, [Next]_vars, flow'.status = "done" /\ flow.status # "done"
        PROVE  Needs(SubSeq(flow'.links, 1, Len(flow.links)), {"waiting", "blocked"}) = {}
    <2>1. PICK w \in Wakes : Applied(w)
      BY <1>1, OnlyMutationsChange
    <2> DEFINE links == wake[w].links
               n == Len(flow.links)
               seen == SubSeq(links, 1, n)
    <2>2. /\ flow'.links = links /\ n \in Nat /\ Len(links) \in Nat /\ n =< Len(links) /\ Reviewed(w)
          /\ links \in Seq(LinkRecord) /\ flow.links \in Seq(LinkRecord)
      BY <1>1, <2>1, AppliedGoesOn
      DEF NativeInv, GoesOn, FlowInv, TypeOK, WakeRecord, FlowRecord
    <2>3. /\ seen \in Seq(LinkRecord) /\ Len(seen) = n
          /\ \A i \in 1..n : seen[i] = links[i]
      BY <2>2, SubSeqProperties
    <2>4. wake[w].decision.status \notin Stops /\ wake[w].pc = "mutate"
      BY <1>1, <2>1 DEF Applied, At, Outcome, Stops
    <2>5. \A i \in DOMAIN flow.links : MapToolflow(links[i].status) \notin Stops
      BY <2>2, <2>4 DEF Reviewed
    <2>6. DOMAIN seen = 1..n /\ DOMAIN flow.links = 1..n
      BY <2>2, <2>3
    <2> HIDE DEF seen, links
    <2>7. Needs(seen, {"waiting", "blocked"}) = {}
      BY <2>3, <2>5, <2>6 DEF Needs, Stops
    <2> QED BY <2>2, <2>7 DEF seen
  <1>2. NativeInv /\ [Next]_vars =>
          [flow'.status = "done" /\ flow.status # "done" =>
             Needs(SubSeq(flow'.links, 1, Len(flow.links)), {"waiting", "blocked"}) = {}]_vars
    BY <1>1
  <1> QED BY <1>2, NativeSafety, PTL DEF Spec, DoneIsReviewed
=============================================================================
