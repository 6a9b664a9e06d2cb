-------------------------- MODULE RunServiceProofs --------------------------
(***************************************************************************)
(* Proofs that the safety properties of RunService hold for every graph,   *)
(* every number of processes and every supply of identities, and that they *)
(* hold as well when its files can be found torn (TornLedger).             *)
(*                                                                         *)
(* First the functions on manifests, then what no step ever takes back,    *)
(* then one lemma per action that LedgerInv survives it, then the theorems *)
(* about RunService and those about TornLedger.  The last part is about an *)
(* operator who runs one command at a time: how the files age, what each   *)
(* edit of a step's record owes to them, one lemma per action that         *)
(* SequentialInv survives it, and the theorems that follow.                *)
(***************************************************************************)
EXTENDS TornLedger, SequentialInvariant, RunLifeProofs

-----------------------------------------------------------------------------
(* The functions on manifests.                                             *)

LEMMA ReconciledType ==
    ASSUME NEW m \in Manifest, NEW s \in Steps, NEW g \in Grants, NEW v \in Outcomes
    PROVE  /\ Reconciled(m, s, g, v) \in Manifest
           /\ Reconciled(m, s, g, v).state = m.state
           /\ Reconciled(m, s, g, v).steps[s].state = v
           /\ Reconciled(m, s, g, v).steps[s].grant = m.steps[s].grant
           /\ Reconciled(m, s, g, v).steps[s].receipt = g
           /\ \A t \in Steps \ {s} : Reconciled(m, s, g, v).steps[t] = m.steps[t]
BY DEF Reconciled, Manifest, StepManifest, StepStates, Outcomes

-----------------------------------------------------------------------------
(* What no step takes back: that a grant was minted and for what, what an  *)
(* approval covers, and what a handler did.                                *)

Grows(gr, bd, ef, gr2, bd2, ef2) ==
    /\ \A g \in Grants : gr[g] # None =>
         /\ gr2[g] # None
         /\ gr2[g].step = gr[g].step
         /\ gr2[g].payload = gr[g].payload
         /\ gr2[g].approval = gr[g].approval
    /\ \A a \in Approvals : bd[a] # None => bd2[a] = bd[a]
    /\ \A g \in Grants : ef[g] # "none" => ef2[g] = ef[g]

\* Effects are those of minted grants.
Minted(gr, ef) == \A g \in Grants : ef[g] # "none" => gr[g] # None

LEMMA DoneGrows ==
    ASSUME NEW gr, NEW bd, NEW ef, NEW gr2, NEW bd2, NEW ef2,
           Minted(gr, ef), Grows(gr, bd, ef, gr2, bd2, ef2)
    PROVE  DoneBy(gr, ef) \subseteq DoneBy(gr2, ef2)
BY DEF DoneBy, Minted, Grows

LEMMA TruthfulGrows ==
    ASSUME NEW gr, NEW bd, NEW ef, NEW gr2, NEW bd2, NEW ef2,
           Minted(gr, ef), Grows(gr, bd, ef, gr2, bd2, ef2),
           NEW m \in Manifest, Truthful(m, gr, ef)
    PROVE  Truthful(m, gr2, ef2)
<1>1. DoneBy(gr, ef) \subseteq DoneBy(gr2, ef2)
  BY DoneGrows
<1>2. RunTruthful(m, gr2, ef2)
  BY <1>1 DEF Truthful, RunTruthful
<1>3. ASSUME NEW s \in Steps
      PROVE  StepTruthful(m, s, gr2, ef2)
  BY <1>3, StepType DEF Truthful, StepTruthful, GrantOf, Grows
<1> QED
  BY <1>2, <1>3 DEF Truthful

LEMMA ProcessGrows ==
    ASSUME NEW gr, NEW bd \in [Approvals -> Binding \cup {None}], NEW ef,
           NEW gr2, NEW bd2, NEW ef2,
           Minted(gr, ef), Grows(gr, bd, ef, gr2, bd2, ef2),
           \A g \in Grants : gr[g] # None => gr[g] \in GrantRecord,
           NEW r \in Process, ProcessOK(r, gr, bd, ef),
           r.pc \in DispatchPCs => ef2[GrantAt(r)] = ef[GrantAt(r)]
    PROVE  ProcessOK(r, gr2, bd2, ef2)
<1>1. DoneBy(gr, ef) \subseteq DoneBy(gr2, ef2)
  BY DoneGrows
<1>2. Truthful(r.mem, gr2, ef2)
  BY TruthfulGrows DEF Process, ProcessOK
<1>3. LoopOK(r, gr2, ef2)
  BY <1>1 DEF ProcessOK, LoopOK
<1>4. DispatchOK(r, gr2, bd2, ef2)
  <2> SUFFICES ASSUME r.pc \in DispatchPCs
               PROVE  DispatchOK(r, gr2, bd2, ef2)
    BY DEF DispatchOK
  <2>1. r.step \in Steps /\ GrantAt(r) # None /\ DependsOn[r.step] \subseteq DoneBy(gr2, ef2)
    BY <1>1 DEF ProcessOK, DispatchOK
  <2>2. GrantAt(r) \in Grants /\ gr[GrantAt(r)] # None
    <3>1. r.mem \in Manifest
      BY DEF Process
    <3>2. StepTruthful(r.mem, r.step, gr, ef)
      BY <2>1 DEF ProcessOK, Truthful
    <3> QED
      BY <2>1, <3>1, <3>2, StepType DEF GrantAt, StepTruthful, GrantOf
  <2>3. ASSUME r.pc = "execute"
        PROVE  Authorised(GrantAt(r), gr2, bd2)
    <3>1. Authorised(GrantAt(r), gr, bd)
      BY <2>3 DEF ProcessOK, DispatchOK
    <3>2. gr[GrantAt(r)] \in GrantRecord
      BY <2>2
    <3> DEFINE x == gr[GrantAt(r)]
    <3>3. CASE x.step \in Elevated
      <4>1. x.approval \in Approvals /\ bd[x.approval] # None
        BY <3>1, <3>2, <3>3, RecordAssumption DEF Authorised, GrantRecord, Binding
      <4> QED
        BY <2>2, <3>1, <3>3, <4>1 DEF Authorised, Grows
    <3>4. CASE x.step \notin Elevated
      BY <2>2, <3>4 DEF Authorised, Grows
    <3> QED
      BY <3>3, <3>4
  <2>4. /\ r.pc \in {"minted", "verify", "execute"} => ef2[GrantAt(r)] = "none"
        /\ r.pc \in {"receipt", "consume"} => ef2[GrantAt(r)] \in Outcomes
    BY DEF ProcessOK, DispatchOK
  <2> QED
    BY <2>1, <2>3, <2>4 DEF DispatchOK
<1> QED
  BY <1>2, <1>3, <1>4 DEF ProcessOK

-----------------------------------------------------------------------------
(* What a step of one process leaves of the others.                        *)

LEMMA LedgerFacts ==
    ASSUME LedgerInv
    PROVE  /\ Minted(grants, effects)
           /\ \A g \in Grants : grants[g] # None => grants[g] \in GrantRecord
           /\ bound \in [Approvals -> Binding \cup {None}]
           /\ \A q \in Procs : proc[q] \in Process /\ proc[q].mem \in Manifest
BY DEF LedgerInv, TypeOK, EffectsOK, Minted, Process

LEMMA Frame ==
    ASSUME LedgerInv,
           NEW p \in Procs, NEW r \in Process, proc' = [proc EXCEPT ![p] = r],
           Grows(grants, bound, effects, grants', bound', effects'),
           ProcessOK(r, grants', bound', effects'),
           \A q \in Procs \ {p} : proc[q].pc \in DispatchPCs =>
             /\ effects'[GrantAt(proc[q])] = effects[GrantAt(proc[q])]
             /\ r.pc \in DispatchPCs => GrantAt(proc[q]) # GrantAt(r)
    PROVE  /\ proc' \in [Procs -> Process]
           /\ \A q \in Procs : ProcessOK(proc'[q], grants', bound', effects')
           /\ DispatchesDiffer'
<1> proc \in [Procs -> Process]
  BY DEF LedgerInv, TypeOK
<1>1. proc' \in [Procs -> Process]
  OBVIOUS
<1>2. ASSUME NEW q \in Procs
      PROVE  ProcessOK(proc'[q], grants', bound', effects')
  <2>1. CASE q = p
    BY <2>1
  <2>2. CASE q # p
    <3>1. proc'[q] = proc[q] /\ proc[q] \in Process
      BY <2>2
    <3>2. ProcessOK(proc[q], grants, bound, effects)
      BY DEF LedgerInv
    <3>3. proc[q].pc \in DispatchPCs => effects'[GrantAt(proc[q])] = effects[GrantAt(proc[q])]
      BY <2>2
    <3> QED
      BY <3>1, <3>2, <3>3, LedgerFacts, ProcessGrows
  <2> QED
    BY <2>1, <2>2
<1>3. DispatchesDiffer'
  <2>1. DispatchesDiffer
    BY DEF LedgerInv
  <2>2. \A q \in Procs \ {p} : proc'[q] = proc[q]
    OBVIOUS
  <2>3. proc'[p] = r
    OBVIOUS
  <2> QED
    BY <2>1, <2>2, <2>3 DEF DispatchesDiffer
<1> QED
  BY <1>1, <1>2, <1>3

\* A step that writes no file but the manifest, and moves no process onto a grant.
LEMMA QuietStep ==
    ASSUME LedgerInv,
           NEW p \in Procs, NEW r \in Process, proc' = [proc EXCEPT ![p] = r],
           UNCHANGED <<payload, approvals, bound, grants, receipts, effects>>,
           manifest' \in Manifest, Truthful(manifest', grants, effects),
           ProcessOK(r, grants, bound, effects),
           r.pc \in DispatchPCs => proc[p].pc \in DispatchPCs /\ GrantAt(r) = GrantAt(proc[p])
    PROVE  LedgerInv'
<1>1. Grows(grants, bound, effects, grants', bound', effects')
  BY DEF Grows
<1>2. \A q \in Procs \ {p} : proc[q].pc \in DispatchPCs =>
        /\ effects'[GrantAt(proc[q])] = effects[GrantAt(proc[q])]
        /\ r.pc \in DispatchPCs => GrantAt(proc[q]) # GrantAt(r)
  BY DEF LedgerInv, DispatchesDiffer
<1>3. ProcessOK(r, grants', bound', effects')
  OBVIOUS
<1>4. /\ proc' \in [Procs -> Process]
      /\ \A q \in Procs : ProcessOK(proc'[q], grants', bound', effects')
      /\ DispatchesDiffer'
  BY <1>1, <1>2, <1>3, Frame
<1>5. TypeOK'
  BY <1>4 DEF LedgerInv, TypeOK
<1>6. ApprovalsOK' /\ GrantsOK' /\ EffectsOK' /\ ReceiptsOK'
  BY DEF LedgerInv, ApprovalsOK, GrantsOK, EffectsOK, ReceiptsOK
<1>7. Truthful(manifest', grants', effects')
  OBVIOUS
<1> QED
  BY <1>4, <1>5, <1>6, <1>7 DEF LedgerInv

-----------------------------------------------------------------------------
(* What keeps a manifest truthful.                                         *)

LEMMA TruthfulNew ==
    ASSUME NEW v \in {"ready", "rejected"}, NEW gr, NEW ef
    PROVE  Truthful(NewManifest(v), gr, ef)
BY NewManifestType DEF RunStates, Truthful, StepTruthful, RunTruthful

\* The entry of one step changes, perhaps with the state of the run.
LEMMA TruthfulEdit ==
    ASSUME NEW gr, NEW ef, NEW m, NEW m2, NEW s \in Steps, Truthful(m, gr, ef),
           \A t \in Steps \ {s} : m2.steps[t] = m.steps[t],
           StepTruthful(m2, s, gr, ef), RunTruthful(m2, gr, ef)
    PROVE  Truthful(m2, gr, ef)
BY DEF Truthful, StepTruthful

\* Only the state of the run changes.
LEMMA TruthfulRun ==
    ASSUME NEW gr, NEW ef, NEW m \in Manifest, Truthful(m, gr, ef),
           NEW v \in RunStates,
           v = "succeeded" => AllSucceeded(m) \/ m.state = "succeeded",
           v = "awaiting_approval" => \E s \in Steps : m.steps[s].state = "awaiting_approval"
    PROVE  Truthful(WithRun(m, v), gr, ef)
<1> DEFINE m2 == WithRun(m, v)
<1>1. m2.state = v /\ m2.steps = m.steps
  BY WithRunType
<1>2. ASSUME AllSucceeded(m)
      PROVE  Steps \subseteq DoneBy(gr, ef)
  <2> SUFFICES ASSUME NEW s \in Steps
               PROVE  s \in DoneBy(gr, ef)
    OBVIOUS
  <2>1. m.steps[s].state = "succeeded"
    BY <1>2 DEF AllSucceeded, StepsIn
  <2>2. StepTruthful(m, s, gr, ef)
    BY DEF Truthful
  <2>3. m.steps[s].receipt \in Grants
    BY <2>1, <2>2, StepType DEF StepTruthful
  <2> QED
    BY <2>1, <2>2, <2>3 DEF StepTruthful, GrantOf, DoneBy
<1>3. RunTruthful(m2, gr, ef)
  BY <1>1, <1>2 DEF Truthful, RunTruthful
<1>4. \A s \in Steps : StepTruthful(m2, s, gr, ef)
  BY <1>1 DEF Truthful, StepTruthful
<1> QED
  BY <1>3, <1>4 DEF Truthful

\* The engine's last word, and the recovery service's.
LEMMA TruthfulFinal ==
    ASSUME NEW gr, NEW ef, NEW m \in Manifest, Truthful(m, gr, ef)
    PROVE  /\ Truthful(WithRun(m, FinalRunState(m)), gr, ef)
           /\ Truthful(WithRun(m, DeriveRunState(m)), gr, ef)
<1>1. FinalRunState(m) = "succeeded" => AllSucceeded(m)
  BY DEF FinalRunState
<1>2. FinalRunState(m) = "awaiting_approval" =>
        \E s \in Steps : m.steps[s].state = "awaiting_approval"
  BY DEF FinalRunState, StepsIn
<1>3. DeriveRunState(m) = "succeeded" => AllSucceeded(m) \/ m.state = "succeeded"
  BY DEF DeriveRunState
<1>4. DeriveRunState(m) = "awaiting_approval" =>
        \E s \in Steps : m.steps[s].state = "awaiting_approval"
  BY DEF DeriveRunState, StepsIn, Truthful, RunTruthful
<1> QED
  BY <1>1, <1>2, <1>3, <1>4, DerivedType, TruthfulRun

\* The entry of one step gets another state, which is not a success.
LEMMA TruthfulStep ==
    ASSUME NEW gr, NEW ef, NEW m \in Manifest, Truthful(m, gr, ef), NEW s \in Steps,
           NEW v \in StepStates \ {"succeeded"},
           m.steps[s].state # "awaiting_approval" \/ v = "awaiting_approval"
             \/ m.state # "awaiting_approval"
    PROVE  Truthful(WithStep(m, s, v), gr, ef)
<1> DEFINE m2 == WithStep(m, s, v)
<1>1. /\ m2.state = m.state
      /\ m2.steps[s].state = v
      /\ m2.steps[s].grant = m.steps[s].grant
      /\ m2.steps[s].receipt = m.steps[s].receipt
      /\ \A t \in Steps \ {s} : m2.steps[t] = m.steps[t]
  BY WithStepType
<1>2. StepTruthful(m2, s, gr, ef)
  BY <1>1 DEF Truthful, StepTruthful
<1>3. RunTruthful(m2, gr, ef)
  BY <1>1 DEF Truthful, RunTruthful
<1> QED
  BY <1>1, <1>2, <1>3, TruthfulEdit

LEMMA TruthfulCleared ==
    ASSUME NEW gr, NEW ef, NEW m \in Manifest, Truthful(m, gr, ef), NEW s \in Steps,
           m.steps[s].state # "awaiting_approval"
    PROVE  Truthful(ClearedForReplay(m, s), gr, ef)
<1> DEFINE m2 == ClearedForReplay(m, s)
<1>1. /\ m2.state = m.state
      /\ m2.steps[s].state = "pending"
      /\ m2.steps[s].grant = None
      /\ m2.steps[s].receipt = m.steps[s].receipt
      /\ \A t \in Steps \ {s} : m2.steps[t] = m.steps[t]
  BY ClearedType
<1>2. StepTruthful(m2, s, gr, ef)
  BY <1>1 DEF Truthful, StepTruthful
<1>3. RunTruthful(m2, gr, ef)
  BY <1>1 DEF Truthful, RunTruthful
<1> QED
  BY <1>1, <1>2, <1>3, TruthfulEdit

\* The outcome of a grant of the step is entered.
LEMMA TruthfulReconciled ==
    ASSUME NEW gr, NEW ef, NEW m \in Manifest, Truthful(m, gr, ef), NEW s \in Steps,
           m.steps[s].state # "awaiting_approval" \/ m.state # "awaiting_approval",
           NEW g \in Grants, GrantOf(s, g, gr), ef[g] \in Outcomes
    PROVE  Truthful(Reconciled(m, s, g, ef[g]), gr, ef)
<1> DEFINE m2 == Reconciled(m, s, g, ef[g])
<1>1. /\ m2.state = m.state
      /\ m2.steps[s].state = ef[g]
      /\ m2.steps[s].grant = m.steps[s].grant
      /\ m2.steps[s].receipt = g
      /\ \A t \in Steps \ {s} : m2.steps[t] = m.steps[t]
  BY ReconciledType
<1>2. StepTruthful(m2, s, gr, ef)
  BY <1>1, GrantIdAssumption DEF Truthful, StepTruthful
<1>3. RunTruthful(m2, gr, ef)
  BY <1>1 DEF Truthful, RunTruthful
<1> QED
  BY <1>1, <1>2, <1>3, TruthfulEdit

LEMMA TruthfulCancelled ==
    ASSUME NEW gr, NEW ef, NEW m \in Manifest, Truthful(m, gr, ef)
    PROVE  Truthful(Cancelled(m), gr, ef)
<1>1. RunTruthful(Cancelled(m), gr, ef)
  BY CancelledType DEF RunTruthful
<1>2. ASSUME NEW s \in Steps
      PROVE  StepTruthful(Cancelled(m), s, gr, ef)
  <2>1. /\ Cancelled(m).steps[s].grant = m.steps[s].grant
        /\ Cancelled(m).steps[s].receipt = m.steps[s].receipt
        /\ Cancelled(m).steps[s].state = "succeeded" => m.steps[s].state = "succeeded"
    BY CancelledType
  <2> QED
    BY <2>1 DEF Truthful, StepTruthful
<1> QED
  BY <1>1, <1>2 DEF Truthful

LEMMA TruthfulApproved ==
    ASSUME NEW gr, NEW ef, NEW m \in Manifest, Truthful(m, gr, ef), NEW s \in Steps
    PROVE  Approved(m, s) \in Manifest /\ Truthful(Approved(m, s), gr, ef)
<1> DEFINE v  == IF m.state = "awaiting_approval" THEN "ready" ELSE m.state
           m2 == Approved(m, s)
<1>1. v \in RunStates /\ v # "awaiting_approval" /\ (v = "succeeded" => m.state = "succeeded")
  BY DEF Manifest, RunStates
<1>2. WithStep(m, s, "pending") \in Manifest
  BY WithStepType DEF StepStates
<1>3. m2 \in Manifest /\ m2.state = v /\ m2.steps = WithStep(m, s, "pending").steps
  BY <1>1, <1>2, WithRunType DEF Approved
<1>4. /\ m2.steps[s].state = "pending"
      /\ m2.steps[s].grant = m.steps[s].grant
      /\ m2.steps[s].receipt = m.steps[s].receipt
      /\ \A t \in Steps \ {s} : m2.steps[t] = m.steps[t]
  BY <1>3, WithStepType DEF StepStates
<1>5. StepTruthful(m2, s, gr, ef)
  BY <1>4 DEF Truthful, StepTruthful
<1>6. RunTruthful(m2, gr, ef)
  BY <1>1, <1>3 DEF Truthful, RunTruthful
<1> QED
  BY <1>3, <1>4, <1>5, <1>6, TruthfulEdit

\* A step that is in the middle of an execution does not wait for approval.
LEMMA UnsettledStates ==
    ASSUME NEW m, NEW s \in Steps, ~Settled(m, s)
    PROVE  m.steps[s].state # "awaiting_approval"
BY DEF Settled

\* What may run depends only on what is done.
LEMMA RunnableReady ==
    ASSUME NEW gr, NEW ef, NEW m \in Manifest, Truthful(m, gr, ef), NEW s \in Runnable(m)
    PROVE  s \in Steps /\ DependsOn[s] \subseteq DoneBy(gr, ef)
<1>1. s \in Steps /\ DependsOn[s] \subseteq StepsIn(m, {"succeeded"})
  BY DEF Runnable, StepsIn
<1>2. ASSUME NEW d \in StepsIn(m, {"succeeded"})
      PROVE  d \in DoneBy(gr, ef)
  <2>1. d \in Steps /\ m.steps[d].state = "succeeded"
    BY DEF StepsIn
  <2>2. StepTruthful(m, d, gr, ef)
    BY <2>1 DEF Truthful
  <2>3. m.steps[d].receipt \in Grants
    BY <2>1, <2>2, StepType DEF StepTruthful
  <2> QED
    BY <2>1, <2>2, <2>3 DEF StepTruthful, GrantOf, DoneBy
<1> QED
  BY <1>1, <1>2

-----------------------------------------------------------------------------
(* The processes at rest, and the initial states.                          *)

LEMMA IdleType ==
    /\ Idle \in Process
    /\ Idle.pc = "idle"
    /\ Idle.mem = NewManifest("ready")
BY NewManifestType DEF Idle, Process, PCs, RunStates

\* Where nothing is relied upon but the copy of the manifest.
LEMMA RestOK ==
    ASSUME NEW gr, NEW bd, NEW ef, NEW r,
           r.pc \in {"idle", "recover", "reload", "begin", "publish"},
           Truthful(r.mem, gr, ef)
    PROVE  ProcessOK(r, gr, bd, ef) /\ r.pc \notin DispatchPCs
BY DEF ProcessOK, LoopOK, DispatchOK, RecoveryOK, GraphOK, DispatchPCs

LEMMA IdleOK ==
    ASSUME NEW gr, NEW bd, NEW ef
    PROVE  ProcessOK(Idle, gr, bd, ef) /\ Idle.pc \notin DispatchPCs
BY IdleType, RestOK, TruthfulNew

LEMMA InitInv == Init => LedgerInv
<1> SUFFICES ASSUME Init
             PROVE  LedgerInv
  OBVIOUS
<1>1. PICK v \in {"ready", "rejected"} : manifest = NewManifest(v)
  BY DEF Init
<1>2. TypeOK
  BY <1>1, NewManifestType, IdleType DEF Init, TypeOK, RunStates, Outcomes
<1>3. ApprovalsOK /\ GrantsOK /\ EffectsOK /\ ReceiptsOK
  BY DEF Init, ApprovalsOK, GrantsOK, EffectsOK, ReceiptsOK
<1>4. Truthful(manifest, grants, effects)
  BY <1>1, TruthfulNew
<1>5. \A p \in Procs : ProcessOK(proc[p], grants, bound, effects)
  BY IdleOK DEF Init
<1>6. DispatchesDiffer
  BY IdleOK DEF Init, DispatchesDiffer
<1> QED
  BY <1>2, <1>3, <1>4, <1>5, <1>6 DEF LedgerInv

-----------------------------------------------------------------------------
(* The steps that write no file but the manifest.                          *)

\* A command returns, and leaves a truthful manifest.
LEMMA ReturnStep ==
    ASSUME LedgerInv, NEW p \in Procs, Return(p),
           UNCHANGED <<payload, approvals, bound, grants, receipts, effects>>,
           manifest' \in Manifest, Truthful(manifest', grants, effects)
    PROVE  LedgerInv'
BY IdleType, IdleOK, QuietStep DEF Return

LEMMA MemTruthful ==
    ASSUME LedgerInv
    PROVE  /\ manifest \in Manifest /\ Truthful(manifest, grants, effects)
           /\ \A p \in Procs : /\ proc[p] \in Process
                               /\ proc[p].mem \in Manifest
                               /\ Truthful(proc[p].mem, grants, effects)
BY DEF LedgerInv, TypeOK, Process, ProcessOK

LEMMA StartResumeInv ==
    ASSUME LedgerInv, NEW p \in Procs, StartResume(p)
    PROVE  LedgerInv'
<1> DEFINE r == [Idle EXCEPT !.pc = IF manifest.state = "running" THEN "recover" ELSE "begin",
                             !.task = "resume", !.mem = manifest]
<1>1. /\ proc' = [proc EXCEPT ![p] = r]
      /\ UNCHANGED <<ledger, effects>>
  BY DEF StartResume
<1>2. /\ r \in Process
      /\ r.pc \in {"recover", "begin"}
      /\ r.mem = manifest
  BY MemTruthful, IdleType DEF Process, PCs
<1> HIDE DEF r
<1>3. ProcessOK(r, grants, bound, effects) /\ r.pc \notin DispatchPCs
  BY <1>2, MemTruthful, RestOK
<1> QED
  BY <1>1, <1>2, <1>3, MemTruthful, QuietStep DEF ledger

LEMMA ReloadInv ==
    ASSUME LedgerInv, NEW p \in Procs, Reload(p)
    PROVE  LedgerInv'
<1>1. UNCHANGED <<ledger, effects>>
  BY DEF Reload
<1>2. CASE Return(p)
  BY <1>1, <1>2, MemTruthful, ReturnStep DEF ledger
<1>3. CASE ~Return(p)
  <2> DEFINE r == [proc[p] EXCEPT !.pc = "begin", !.mem = manifest]
  <2>1. proc' = [proc EXCEPT ![p] = r]
    BY <1>3 DEF Reload
  <2>2. r \in Process /\ r.pc = "begin" /\ r.mem = manifest
    BY MemTruthful DEF Process, PCs
  <2> HIDE DEF r
  <2>3. ProcessOK(r, grants, bound, effects) /\ r.pc \notin DispatchPCs
    BY <2>2, MemTruthful, RestOK
  <2> QED
    BY <1>1, <2>1, <2>2, <2>3, MemTruthful, QuietStep DEF ledger
<1> QED
  BY <1>2, <1>3

\* The engine back at the head of its loop, with a pass it may run.
LEMMA LoopStep ==
    ASSUME NEW gr, NEW bd, NEW ef, NEW r,
           r.pc = "loop", r.mem.state = "running", Truthful(r.mem, gr, ef),
           r.plan \in [Steps -> Payloads],
           \A s \in r.todo : DependsOn[s] \subseteq DoneBy(gr, ef)
    PROVE  ProcessOK(r, gr, bd, ef) /\ r.pc \notin DispatchPCs
BY DEF ProcessOK, LoopOK, DispatchOK, RecoveryOK, GraphOK, DispatchPCs

LEMMA ReadGraphInv ==
    ASSUME LedgerInv, NEW p \in Procs, ReadGraph(p)
    PROVE  LedgerInv'
<1> DEFINE pc == IF At(p, "begin") THEN "start" ELSE "approving"
           r  == [proc[p] EXCEPT !.pc = pc, !.plan = payload]
<1>1. /\ proc[p].pc \in {"begin", "approve"}
      /\ proc' = [proc EXCEPT ![p] = r]
      /\ UNCHANGED <<ledger, effects>>
  BY DEF ReadGraph
<1>2. payload \in [Steps -> Payloads]
  BY DEF LedgerInv, TypeOK
<1>3. pc \in {"start", "approving"} /\ (pc = "approving" => proc[p].pc = "approve")
  BY <1>1 DEF At
<1> HIDE DEF pc
<1>4. r \in Process /\ r.pc = pc /\ r.mem = proc[p].mem /\ r.plan = payload /\ r.step = proc[p].step
  BY <1>2, <1>3, MemTruthful DEF Process, PCs
<1> HIDE DEF r
<1>5. proc[p].pc = "approve" => proc[p].step \in Elevated
  BY DEF LedgerInv, ProcessOK, GraphOK
<1>6. ProcessOK(r, grants, bound, effects) /\ r.pc \notin DispatchPCs
  BY <1>2, <1>3, <1>4, <1>5, MemTruthful
  DEF ProcessOK, LoopOK, DispatchOK, RecoveryOK, GraphOK, DispatchPCs
<1> QED
  BY <1>1, <1>4, <1>6, MemTruthful, QuietStep DEF ledger

LEMMA BeginInv ==
    ASSUME LedgerInv, NEW p \in Procs, Begin(p)
    PROVE  LedgerInv'
<1> DEFINE m == WithRun(proc[p].mem, "running")
           r == [proc[p] EXCEPT !.pc = "loop", !.mem = m, !.todo = Runnable(m)]
<1>1. /\ proc[p].pc = "start"
      /\ manifest' = m
      /\ proc' = [proc EXCEPT ![p] = r]
      /\ UNCHANGED <<payload, approvals, bound, grants, receipts, effects>>
  BY DEF Begin, At
<1>2. m \in Manifest /\ m.state = "running" /\ Truthful(m, grants, effects)
  BY MemTruthful, WithRunType, TruthfulRun DEF RunStates
<1>3. proc[p].plan \in [Steps -> Payloads]
  BY <1>1 DEF LedgerInv, ProcessOK, GraphOK
<1>4. Runnable(m) \in SUBSET Steps
  BY DEF Runnable, StepsIn
<1> HIDE DEF m
<1>5. /\ r.pc = "loop" /\ r.mem = m /\ r.plan = proc[p].plan /\ r.todo = Runnable(m)
      /\ r \in Process
  BY <1>2, <1>4, MemTruthful DEF Process, PCs
<1> HIDE DEF r
<1>6. \A s \in r.todo : DependsOn[s] \subseteq DoneBy(grants, effects)
  BY <1>2, <1>5, RunnableReady
<1>7. ProcessOK(r, grants, bound, effects) /\ r.pc \notin DispatchPCs
  BY <1>2, <1>3, <1>5, <1>6, LoopStep
<1> QED
  BY <1>1, <1>2, <1>5, <1>7, QuietStep

LEMMA AskForInv ==
    ASSUME LedgerInv, NEW p \in Procs, NEW s \in Elevated,
           AskFor(p, s), UNCHANGED <<ledger, effects>>
    PROVE  LedgerInv'
<1> DEFINE m1 == WithStep(proc[p].mem, s, "awaiting_approval")
           m2 == WithRun(m1, "awaiting_approval")
           r  == [proc[p] EXCEPT !.pc = "publish", !.mem = m2]
<1>2. proc' = [proc EXCEPT ![p] = r]
  BY DEF AskFor
<1>3. s \in Steps
  BY GraphAssumption
<1>4. /\ m1 \in Manifest /\ m1.steps[s].state = "awaiting_approval"
      /\ Truthful(m1, grants, effects)
  <2>1. "awaiting_approval" \in StepStates \ {"succeeded"}
    BY DEF StepStates
  <2>2. Truthful(m1, grants, effects)
    BY <1>3, <2>1, MemTruthful, TruthfulStep
  <2> QED
    BY <1>3, <2>1, <2>2, MemTruthful, WithStepType
<1> HIDE DEF m1
<1>5. m2 \in Manifest /\ Truthful(m2, grants, effects)
  BY <1>3, <1>4, WithRunType, TruthfulRun DEF RunStates
<1> HIDE DEF m2
<1>6. r \in Process /\ r.pc = "publish" /\ r.mem = m2
  BY <1>5, MemTruthful DEF Process, PCs
<1> HIDE DEF r
<1>7. ProcessOK(r, grants, bound, effects) /\ r.pc \notin DispatchPCs
  BY <1>5, <1>6, RestOK
<1> QED
  BY <1>2, <1>6, <1>7, MemTruthful, QuietStep DEF ledger

\* What a process knows that dispatches a step.
LEMMA DispatchFacts ==
    ASSUME LedgerInv, NEW p \in Procs, proc[p].pc \in DispatchPCs
    PROVE  LET g == GrantAt(proc[p])
           IN  /\ CurrentGrant(p) = g
               /\ proc[p].step \in Steps
               /\ g \in Grants
               /\ grants[g] # None
               /\ grants[g] \in GrantRecord
               /\ grants[g].step = proc[p].step
               /\ proc[p].mem.state = "running"
               /\ proc[p].plan \in [Steps -> Payloads]
               /\ DependsOn[proc[p].step] \subseteq DoneBy(grants, effects)
               /\ \A s \in proc[p].todo : DependsOn[s] \subseteq DoneBy(grants, effects)
<1> DEFINE r == proc[p]
<1>1. ProcessOK(r, grants, bound, effects) /\ r.mem \in Manifest
  BY MemTruthful DEF LedgerInv
<1>2. /\ r.step \in Steps /\ GrantAt(r) # None
      /\ DependsOn[r.step] \subseteq DoneBy(grants, effects)
  BY <1>1 DEF ProcessOK, DispatchOK
<1>3. /\ r.mem.state = "running"
      /\ r.plan \in [Steps -> Payloads]
      /\ \A s \in r.todo : DependsOn[s] \subseteq DoneBy(grants, effects)
  BY <1>1 DEF ProcessOK, LoopOK
<1>4. StepTruthful(r.mem, r.step, grants, effects)
  BY <1>1, <1>2 DEF ProcessOK, Truthful
<1>5. GrantAt(r) \in Grants /\ grants[GrantAt(r)] # None /\ grants[GrantAt(r)].step = r.step
  BY <1>1, <1>2, <1>4, StepType DEF GrantAt, StepTruthful, GrantOf
<1>6. CurrentGrant(p) = GrantAt(r)
  BY DEF CurrentGrant, GrantAt
<1> QED
  BY <1>2, <1>3, <1>5, <1>6, LedgerFacts

\* The next point of a dispatch, with the same grant and the same list.
LEMMA DispatchStep ==
    ASSUME NEW gr, NEW bd, NEW ef, NEW r,
           r.pc \in DispatchPCs, r.mem.state = "running", Truthful(r.mem, gr, ef),
           r.plan \in [Steps -> Payloads],
           \A s \in r.todo : DependsOn[s] \subseteq DoneBy(gr, ef),
           r.step \in Steps, GrantAt(r) # None,
           DependsOn[r.step] \subseteq DoneBy(gr, ef),
           r.pc \in {"minted", "verify", "execute"} => ef[GrantAt(r)] = "none",
           r.pc = "execute" => Authorised(GrantAt(r), gr, bd),
           r.pc \in {"receipt", "consume"} => ef[GrantAt(r)] \in Outcomes
    PROVE  ProcessOK(r, gr, bd, ef)
<1>1. LoopOK(r, gr, ef)
  BY DEF LoopOK
<1>2. DispatchOK(r, gr, bd, ef)
  BY DEF DispatchOK
<1>3. RecoveryOK(r) /\ GraphOK(r)
  BY DEF RecoveryOK, GraphOK, DispatchPCs
<1> QED
  BY <1>1, <1>2, <1>3 DEF ProcessOK

LEMMA PublishRunningInv ==
    ASSUME LedgerInv, NEW p \in Procs, PublishRunning(p)
    PROVE  LedgerInv'
<1> DEFINE m == WithStep(proc[p].mem, proc[p].step, "running")
           r == [proc[p] EXCEPT !.pc = "verify", !.mem = m]
<1>1. /\ proc[p].pc = "minted"
      /\ manifest' = m
      /\ proc' = [proc EXCEPT ![p] = r]
      /\ UNCHANGED <<payload, approvals, bound, grants, receipts, effects>>
  BY DEF PublishRunning, At
<1>2. proc[p].pc \in DispatchPCs
  BY <1>1 DEF DispatchPCs
<1>3. proc[p].step \in Steps /\ proc[p].mem \in Manifest /\ proc[p].mem.state = "running"
  BY <1>2, DispatchFacts, MemTruthful
<1>4. /\ m \in Manifest /\ m.state = "running" /\ Truthful(m, grants, effects)
      /\ m.steps[proc[p].step].grant = proc[p].mem.steps[proc[p].step].grant
  <2>1. "running" \in StepStates \ {"succeeded"}
    BY DEF StepStates
  <2>2. Truthful(m, grants, effects)
    BY <1>3, <2>1, MemTruthful, TruthfulStep
  <2> QED
    BY <1>3, <2>1, <2>2, MemTruthful, WithStepType
<1> HIDE DEF m
<1>5. /\ r \in Process /\ r.pc = "verify" /\ r.mem = m /\ r.step = proc[p].step
      /\ r.plan = proc[p].plan /\ r.todo = proc[p].todo
  BY <1>4, MemTruthful DEF Process, PCs
<1> HIDE DEF r
<1>6. GrantAt(r) = GrantAt(proc[p]) /\ r.pc \in DispatchPCs
  BY <1>4, <1>5 DEF GrantAt, DispatchPCs
<1>7. effects[GrantAt(proc[p])] = "none" /\ GrantAt(proc[p]) # None
  BY <1>1, <1>2 DEF LedgerInv, ProcessOK, DispatchOK
<1>8. ProcessOK(r, grants, bound, effects)
  BY <1>2, <1>4, <1>5, <1>6, <1>7, DispatchFacts, DispatchStep
<1> QED
  BY <1>1, <1>2, <1>4, <1>5, <1>6, <1>8, QuietStep

LEMMA VerifyInv ==
    ASSUME LedgerInv, NEW p \in Procs, Verify(p)
    PROVE  LedgerInv'
<1> DEFINE r == [proc[p] EXCEPT !.pc = "execute"]
           g == GrantAt(proc[p])
<1>1. /\ proc[p].pc = "verify"
      /\ ApprovalCovers(CurrentGrant(p))
      /\ proc' = [proc EXCEPT ![p] = r]
      /\ UNCHANGED <<ledger, effects>>
  BY DEF Verify, At
<1>2. proc[p].pc \in DispatchPCs
  BY <1>1 DEF DispatchPCs
<1>3. /\ r \in Process /\ r.pc = "execute" /\ r.mem = proc[p].mem /\ r.step = proc[p].step
      /\ r.plan = proc[p].plan /\ r.todo = proc[p].todo
  BY MemTruthful DEF Process, PCs
<1> HIDE DEF r
<1>4. GrantAt(r) = g /\ r.pc \in DispatchPCs
  BY <1>3 DEF GrantAt, DispatchPCs
<1>5. effects[g] = "none" /\ g # None
  BY <1>1, <1>2 DEF LedgerInv, ProcessOK, DispatchOK
<1>6. Authorised(g, grants, bound)
  <2> SUFFICES ASSUME grants[g].step \in Elevated
               PROVE  /\ grants[g].approval # None
                      /\ bound[grants[g].approval] =
                           [step |-> grants[g].step, payload |-> grants[g].payload]
    BY DEF Authorised
  <2>1. g = CurrentGrant(p) /\ g \in Grants /\ grants[g] # None /\ grants[g] \in GrantRecord
    BY <1>2, DispatchFacts
  <2>2. /\ grants[g].approval \in Approvals
        /\ bound[grants[g].approval].payload = grants[g].payload
    BY <1>1, <2>1 DEF ApprovalCovers, GrantRecord
  <2>3. /\ bound[grants[g].approval] # None
        /\ bound[grants[g].approval].step = grants[g].step
        /\ grants[g].approval # None
    BY <2>1 DEF LedgerInv, GrantsOK
  <2>4. bound[grants[g].approval] \in Binding
    BY <2>2, <2>3, LedgerFacts
  <2> QED
    BY <2>2, <2>3, <2>4 DEF Binding
<1>7. ProcessOK(r, grants, bound, effects)
  BY <1>2, <1>3, <1>4, <1>5, <1>6, DispatchFacts, DispatchStep, MemTruthful
<1> QED
  BY <1>1, <1>2, <1>3, <1>4, <1>7, MemTruthful, QuietStep DEF ledger

LEMMA ReturningInv ==
    ASSUME LedgerInv, NEW p \in Procs, Refuse(p) \/ Finish(p) \/ Publish(p) \/ Crash(p)
    PROVE  LedgerInv'
<1>1. CASE Refuse(p) \/ Crash(p)
  BY <1>1, MemTruthful, ReturnStep DEF Refuse, Crash, ledger
<1>2. CASE Finish(p)
  <2>1. manifest' \in Manifest /\ Truthful(manifest', grants, effects)
    BY <1>2, MemTruthful, DerivedType, WithRunType, TruthfulFinal DEF Finish
  <2> QED
    BY <1>2, <2>1, ReturnStep DEF Finish
<1>3. CASE Publish(p)
  BY <1>3, MemTruthful, ReturnStep DEF Publish
<1> QED
  BY <1>1, <1>2, <1>3

LEMMA PublishResultInv ==
    ASSUME LedgerInv, NEW p \in Procs, PublishResult(p)
    PROVE  LedgerInv'
<1> DEFINE failed == proc[p].mem.steps[proc[p].step].state = "failed"
           m      == IF failed THEN WithRun(proc[p].mem, "failed") ELSE proc[p].mem
           r      == [proc[p] EXCEPT !.pc = "loop", !.step = None,
                                     !.todo = NextPass(proc[p].todo, m)]
<1>1. /\ proc[p].pc = "settle"
      /\ manifest' = m
      /\ IF failed THEN Return(p) ELSE proc' = [proc EXCEPT ![p] = r]
      /\ UNCHANGED <<payload, approvals, bound, grants, receipts, effects>>
  BY DEF PublishResult, At
<1>2. m \in Manifest /\ Truthful(m, grants, effects)
  BY MemTruthful, WithRunType, TruthfulRun DEF RunStates
<1>3. CASE failed
  BY <1>1, <1>2, <1>3, ReturnStep
<1>4. CASE ~failed
  <2>1. m = proc[p].mem /\ proc' = [proc EXCEPT ![p] = r]
    BY <1>1, <1>4
  <2> HIDE DEF m, failed
  <2>2. proc[p].pc \in DispatchPCs
    BY <1>1 DEF DispatchPCs
  <2>3. \A s \in NextPass(proc[p].todo, m) :
          s \in Steps /\ DependsOn[s] \subseteq DoneBy(grants, effects)
    <3>1. \A s \in Runnable(m) : s \in Steps /\ DependsOn[s] \subseteq DoneBy(grants, effects)
      BY <1>2, RunnableReady
    <3>2. \A s \in proc[p].todo : s \in Steps /\ DependsOn[s] \subseteq DoneBy(grants, effects)
      BY <2>2, DispatchFacts, MemTruthful DEF Process
    <3> QED
      BY <3>1, <3>2 DEF NextPass
  <2>4. /\ r \in Process /\ r.pc = "loop" /\ r.mem = proc[p].mem /\ r.plan = proc[p].plan
        /\ r.todo = NextPass(proc[p].todo, m)
    BY <2>3, MemTruthful DEF Process, PCs
  <2> HIDE DEF r
  <2>5. ProcessOK(r, grants, bound, effects) /\ r.pc \notin DispatchPCs
    BY <2>2, <2>3, <2>4, DispatchFacts, MemTruthful, LoopStep
  <2> QED
    BY <1>1, <1>2, <2>1, <2>4, <2>5, QuietStep
<1> QED
  BY <1>3, <1>4

LEMMA StartApproveInv ==
    ASSUME LedgerInv, NEW p \in Procs, StartApprove(p)
    PROVE  LedgerInv'
<1>1. PICK s \in Elevated :
        /\ proc' = [proc EXCEPT ![p] = [Idle EXCEPT !.pc = "approve", !.task = "approve",
                                                    !.mem = manifest, !.step = s]]
        /\ UNCHANGED <<ledger, effects>>
  BY DEF StartApprove
<1> DEFINE r == [Idle EXCEPT !.pc = "approve", !.task = "approve", !.mem = manifest, !.step = s]
<1>2. proc' = [proc EXCEPT ![p] = r]
  BY <1>1
<1>3. s \in Steps
  BY GraphAssumption
<1>4. /\ r \in Process /\ r.pc = "approve" /\ r.mem = manifest /\ r.step = s
  BY <1>3, MemTruthful, IdleType DEF Process, PCs
<1> HIDE DEF r
<1>5. ProcessOK(r, grants, bound, effects) /\ r.pc \notin DispatchPCs
  BY <1>4, MemTruthful DEF ProcessOK, LoopOK, DispatchOK, RecoveryOK, GraphOK, DispatchPCs
<1> QED
  BY <1>1, <1>2, <1>4, <1>5, MemTruthful, QuietStep DEF ledger

LEMMA StartCancelInv ==
    ASSUME LedgerInv, NEW p \in Procs, StartCancel(p)
    PROVE  LedgerInv'
<1> DEFINE m == Cancelled(manifest)
           r == [Idle EXCEPT !.pc = "publish", !.task = "cancel", !.mem = m]
<1>1. /\ proc' = [proc EXCEPT ![p] = r]
      /\ UNCHANGED <<ledger, effects>>
  BY DEF StartCancel
<1>2. m \in Manifest /\ Truthful(m, grants, effects)
  BY MemTruthful, CancelledType, TruthfulCancelled
<1> HIDE DEF m
<1>3. r \in Process /\ r.pc = "publish" /\ r.mem = m
  BY <1>2, IdleType DEF Process, PCs
<1> HIDE DEF r
<1>4. ProcessOK(r, grants, bound, effects) /\ r.pc \notin DispatchPCs
  BY <1>2, <1>3, RestOK
<1> QED
  BY <1>1, <1>3, <1>4, MemTruthful, QuietStep DEF ledger

LEMMA BeginRecoveryInv ==
    ASSUME LedgerInv, NEW p \in Procs, StartRecover(p) \/ ResumeRecovers(p)
    PROVE  LedgerInv'
<1>1. PICK task \in {"recover", "resume"} : BeginRecovery(p, task)
  BY DEF StartRecover, ResumeRecovers
<1> DEFINE r == [Idle EXCEPT !.pc = "inspect", !.task = task, !.mem = manifest, !.todo = Steps]
<1>2. /\ proc' = [proc EXCEPT ![p] = r]
      /\ UNCHANGED <<ledger, effects>>
  BY <1>1 DEF BeginRecovery
<1>3. r \in Process /\ r.pc = "inspect" /\ r.mem = manifest /\ r.todo = Steps
  BY MemTruthful, IdleType DEF Process, PCs
<1> HIDE DEF r
<1>4. ProcessOK(r, grants, bound, effects) /\ r.pc \notin DispatchPCs
  BY <1>3, MemTruthful DEF ProcessOK, LoopOK, DispatchOK, RecoveryOK, GraphOK, DispatchPCs
<1> QED
  BY <1>2, <1>3, <1>4, MemTruthful, QuietStep DEF ledger

\* Recovery goes on to the next node with the last one settled.
LEMMA NextNodeInv ==
    ASSUME LedgerInv, NEW p \in Procs, proc[p].pc = "inspect",
           NEW s \in Steps, NEW m \in Manifest, NextNode(p, s, m),
           Truthful(m, grants, effects), Settled(m, s),
           \A t \in Steps \ {s} : m.steps[t] = proc[p].mem.steps[t],
           UNCHANGED <<ledger, effects>>
    PROVE  LedgerInv'
<1> DEFINE r == [proc[p] EXCEPT !.pc = "inspect", !.mem = m, !.todo = proc[p].todo \ {s}]
<1>1. proc' = [proc EXCEPT ![p] = r]
  BY DEF NextNode
<1>2. r \in Process /\ r.pc = "inspect" /\ r.mem = m /\ r.todo = proc[p].todo \ {s}
  BY MemTruthful DEF Process, PCs
<1> HIDE DEF r
<1>3. \A t \in Steps \ r.todo : Settled(r.mem, t)
  <2>1. \A t \in Steps \ proc[p].todo : Settled(proc[p].mem, t)
    BY DEF LedgerInv, ProcessOK, RecoveryOK
  <2> QED
    BY <1>2, <2>1 DEF Settled
<1>4. ProcessOK(r, grants, bound, effects) /\ r.pc \notin DispatchPCs
  BY <1>2, <1>3 DEF ProcessOK, LoopOK, DispatchOK, RecoveryOK, GraphOK, DispatchPCs
<1> QED
  BY <1>1, <1>2, <1>4, MemTruthful, QuietStep DEF ledger

\* A receipt that recovery finds is that of a grant of the step, and true.
LEMMA FoundReceiptTrue ==
    ASSUME LedgerInv, NEW m \in Manifest, Truthful(m, grants, effects), NEW s \in Steps,
           FoundReceipt(m.steps[s]) # None
    PROVE  LET g == FoundReceipt(m.steps[s])
           IN  /\ g \in Grants
               /\ GrantOf(s, g, grants)
               /\ receipts[g] = effects[g]
               /\ effects[g] \in Outcomes
<1> DEFINE st == m.steps[s]
           g  == FoundReceipt(st)
<1>1. StepTruthful(m, s, grants, effects)
  BY DEF Truthful
<1>2. g \in Grants /\ receipts[g] # "none"
  BY DEF FoundReceipt, Readable
<1>3. receipts[g] = effects[g] /\ effects[g] \in Outcomes
  BY <1>2 DEF LedgerInv, TypeOK, ReceiptsOK
<1>4. GrantOf(s, g, grants)
  <2>1. CASE g = st.receipt
    BY <1>1, <1>2, <2>1, GrantIdAssumption DEF StepTruthful
  <2>2. CASE g # st.receipt
    <3>1. st.grant # None /\ g = grants[st.grant].receipt
      BY <2>2 DEF FoundReceipt
    <3>2. st.grant \in Grants /\ grants[st.grant] # None /\ GrantOf(s, st.grant, grants)
      BY <1>1, <3>1, StepType DEF StepTruthful, GrantOf
    <3>3. g = st.grant
      BY <1>2, <3>1, <3>2, GrantIdAssumption DEF LedgerInv, GrantsOK
    <3> QED
      BY <3>2, <3>3
  <2> QED
    BY <2>1, <2>2
<1> QED
  BY <1>2, <1>3, <1>4

LEMMA KeepStepInv ==
    ASSUME LedgerInv, NEW p \in Procs, proc[p].pc = "inspect", NEW s \in Steps,
           KeepStep(p, s, proc[p].mem), UNCHANGED <<ledger, effects>>
    PROVE  LedgerInv'
BY MemTruthful, NextNodeInv DEF KeepStep

LEMMA AdoptReceiptInv ==
    ASSUME LedgerInv, NEW p \in Procs, proc[p].pc = "inspect", NEW s \in Steps,
           AdoptReceipt(p, s, proc[p].mem), UNCHANGED <<ledger, effects>>
    PROVE  LedgerInv'
<1> DEFINE m  == proc[p].mem
           g  == FoundReceipt(m.steps[s])
           m2 == Reconciled(m, s, g, receipts[g])
<1>1. ~Settled(m, s) /\ g # None /\ NextNode(p, s, m2)
  BY DEF AdoptReceipt
<1>2. m \in Manifest /\ Truthful(m, grants, effects)
  BY MemTruthful
<1>3. g \in Grants /\ GrantOf(s, g, grants) /\ receipts[g] = effects[g] /\ effects[g] \in Outcomes
  BY <1>1, <1>2, FoundReceiptTrue
<1> HIDE DEF m, g
<1>4. Truthful(m2, grants, effects)
  BY <1>1, <1>2, <1>3, UnsettledStates, TruthfulReconciled
<1>5. /\ m2 \in Manifest /\ m2.steps[s].state \in Outcomes
      /\ \A t \in Steps \ {s} : m2.steps[t] = m.steps[t]
  BY <1>2, <1>3, ReconciledType
<1>6. Settled(m2, s)
  BY <1>5 DEF Settled, Outcomes
<1> HIDE DEF m2
<1> QED
  BY <1>1, <1>4, <1>5, <1>6, NextNodeInv DEF m

LEMMA SettleUngrantedInv ==
    ASSUME LedgerInv, NEW p \in Procs, proc[p].pc = "inspect", NEW s \in Steps,
           SettleUngranted(p, s, proc[p].mem), UNCHANGED <<ledger, effects>>
    PROVE  LedgerInv'
<1> DEFINE m  == proc[p].mem
           v  == IF ReviewRequired(s) THEN "quarantined" ELSE "pending"
           m2 == WithStep(m, s, v)
<1>1. ~Settled(m, s) /\ NextNode(p, s, m2)
  BY DEF SettleUngranted, Interrupted
<1>2. m \in Manifest /\ Truthful(m, grants, effects)
  BY MemTruthful
<1>3. v \in StepStates \ {"succeeded"} /\ v \in {"quarantined", "pending"}
  BY DEF StepStates
<1> HIDE DEF m, v
<1>4. Truthful(m2, grants, effects)
  BY <1>1, <1>2, <1>3, UnsettledStates, TruthfulStep
<1>5. /\ m2 \in Manifest /\ m2.steps[s].state = v
      /\ \A t \in Steps \ {s} : m2.steps[t] = m.steps[t]
  BY <1>2, <1>3, WithStepType
<1>6. Settled(m2, s)
  BY <1>3, <1>5 DEF Settled
<1> HIDE DEF m2
<1> QED
  BY <1>1, <1>4, <1>5, <1>6, NextNodeInv DEF m

\* The step goes back to the pending ones.
LEMMA ClearedInv ==
    ASSUME LedgerInv, NEW p \in Procs, proc[p].pc = "inspect", NEW s \in Steps,
           ~Settled(proc[p].mem, s), NextNode(p, s, ClearedForReplay(proc[p].mem, s)),
           UNCHANGED <<ledger, effects>>
    PROVE  LedgerInv'
<1> DEFINE m  == proc[p].mem
           m2 == ClearedForReplay(m, s)
<1>1. m \in Manifest /\ Truthful(m, grants, effects)
  BY MemTruthful
<1>2. Truthful(m2, grants, effects)
  BY <1>1, UnsettledStates, TruthfulCleared
<1>3. /\ m2 \in Manifest /\ m2.steps[s].state = "pending"
      /\ \A t \in Steps \ {s} : m2.steps[t] = m.steps[t]
  BY <1>1, ClearedType
<1>4. Settled(m2, s)
  BY <1>3 DEF Settled
<1>5. NextNode(p, s, m2)
  OBVIOUS
<1> HIDE DEF m2
<1> QED
  BY <1>2, <1>3, <1>4, <1>5, NextNodeInv

LEMMA SettleConsumedInv ==
    ASSUME LedgerInv, NEW p \in Procs, proc[p].pc = "inspect", NEW s \in Steps,
           SettleConsumed(p, s, proc[p].mem), UNCHANGED <<ledger, effects>>
    PROVE  LedgerInv'
<1> DEFINE m  == proc[p].mem
           m2 == WithStep(m, s, "quarantined")
<1>1. ~Settled(m, s)
  BY DEF SettleConsumed, Interrupted
<1>2. CASE ReviewRequired(s)
  <2>1. m \in Manifest /\ Truthful(m, grants, effects) /\ NextNode(p, s, m2)
    BY <1>2, MemTruthful DEF SettleConsumed
  <2>2. "quarantined" \in StepStates \ {"succeeded"}
    BY DEF StepStates
  <2>3. Truthful(m2, grants, effects)
    BY <1>1, <2>1, <2>2, UnsettledStates, TruthfulStep
  <2>4. /\ m2 \in Manifest /\ m2.steps[s].state = "quarantined"
        /\ \A t \in Steps \ {s} : m2.steps[t] = m.steps[t]
    BY <2>1, <2>2, WithStepType
  <2>5. Settled(m2, s)
    BY <2>4 DEF Settled
  <2> HIDE DEF m2
  <2> QED
    BY <2>1, <2>3, <2>4, <2>5, NextNodeInv
<1>3. CASE ~ReviewRequired(s)
  BY <1>1, <1>3, ClearedInv DEF SettleConsumed
<1> QED
  BY <1>2, <1>3

LEMMA FindIssuedInv ==
    ASSUME LedgerInv, NEW p \in Procs, proc[p].pc = "inspect", NEW s \in Steps,
           s \in proc[p].todo,
           FindIssued(p, s, proc[p].mem), UNCHANGED <<ledger, effects>>
    PROVE  LedgerInv'
<1> DEFINE r == [proc[p] EXCEPT !.pc = "void", !.step = s]
<1>1. /\ proc' = [proc EXCEPT ![p] = r]
      /\ ~Settled(proc[p].mem, s)
      /\ proc[p].mem.steps[s].grant # None
  BY DEF FindIssued, Interrupted
<1>2. r \in Process /\ r.pc = "void" /\ r.mem = proc[p].mem /\ r.todo = proc[p].todo /\ r.step = s
  BY MemTruthful DEF Process, PCs
<1> HIDE DEF r
<1>3. \A t \in Steps \ r.todo : Settled(r.mem, t)
  BY <1>2 DEF LedgerInv, ProcessOK, RecoveryOK
<1>4. RecoveryOK(r)
  BY <1>1, <1>2, <1>3 DEF RecoveryOK, GrantAt
<1>5. ProcessOK(r, grants, bound, effects) /\ r.pc \notin DispatchPCs
  BY <1>2, <1>4, MemTruthful DEF ProcessOK, LoopOK, DispatchOK, GraphOK, DispatchPCs
<1> QED
  BY <1>1, <1>2, <1>5, MemTruthful, QuietStep DEF ledger

LEMMA RecoverStepInv ==
    ASSUME LedgerInv, NEW p \in Procs, RecoverStep(p)
    PROVE  LedgerInv'
<1>1. proc[p].pc = "inspect" /\ UNCHANGED <<ledger, effects>>
  BY DEF RecoverStep, At
<1>2. PICK s \in Steps :
        /\ First(proc[p].todo, s)
        /\ \/ KeepStep(p, s, proc[p].mem)
           \/ AdoptReceipt(p, s, proc[p].mem)
           \/ SettleUngranted(p, s, proc[p].mem)
           \/ FindIssued(p, s, proc[p].mem)
           \/ SettleConsumed(p, s, proc[p].mem)
           \/ SettleDead(p, s, proc[p].mem)
  BY DEF RecoverStep
<1>3. s \in proc[p].todo
  BY <1>2 DEF First
<1>4. CASE KeepStep(p, s, proc[p].mem)
  BY <1>1, <1>4, KeepStepInv
<1>5. CASE AdoptReceipt(p, s, proc[p].mem)
  BY <1>1, <1>5, AdoptReceiptInv
<1>6. CASE SettleUngranted(p, s, proc[p].mem)
  BY <1>1, <1>6, SettleUngrantedInv
<1>7. CASE FindIssued(p, s, proc[p].mem)
  BY <1>1, <1>3, <1>7, FindIssuedInv
<1>8. CASE SettleConsumed(p, s, proc[p].mem)
  BY <1>1, <1>8, SettleConsumedInv
<1>9. CASE SettleDead(p, s, proc[p].mem)
  BY <1>1, <1>9, ClearedInv DEF SettleDead, Interrupted
<1> QED
  BY <1>2, <1>4, <1>5, <1>6, <1>7, <1>8, <1>9

LEMMA PublishRecoveryInv ==
    ASSUME LedgerInv, NEW p \in Procs, PublishRecovery(p)
    PROVE  LedgerInv'
<1> DEFINE m == WithRun(proc[p].mem, DeriveRunState(proc[p].mem))
           r == [proc[p] EXCEPT !.pc = "reload", !.mem = m]
<1>1. /\ manifest' = m
      /\ IF proc[p].task = "resume" THEN proc' = [proc EXCEPT ![p] = r] ELSE Return(p)
      /\ UNCHANGED <<payload, approvals, bound, grants, receipts, effects>>
  BY DEF PublishRecovery
<1>2. m \in Manifest /\ Truthful(m, grants, effects)
  BY MemTruthful, DerivedType, WithRunType, TruthfulFinal
<1> HIDE DEF m
<1>3. CASE Return(p)
  BY <1>1, <1>2, <1>3, ReturnStep
<1>4. CASE ~Return(p)
  <2>1. r \in Process /\ r.pc = "reload" /\ r.mem = m
    BY <1>2, MemTruthful DEF Process, PCs
  <2>2. proc' = [proc EXCEPT ![p] = r]
    BY <1>1, <1>4
  <2> HIDE DEF r
  <2>3. ProcessOK(r, grants, bound, effects) /\ r.pc \notin DispatchPCs
    BY <1>2, <2>1, RestOK
  <2> QED
    BY <1>1, <1>2, <2>1, <2>2, <2>3, QuietStep
<1> QED
  BY <1>3, <1>4

-----------------------------------------------------------------------------
(* The steps of the environment, and those that write grants, receipts and *)
(* approvals.                                                              *)

LEMMA EditPayloadInv ==
    ASSUME LedgerInv, EditPayload
    PROVE  LedgerInv'
<1>1. UNCHANGED <<manifest, approvals, bound, grants, receipts, effects, proc>>
  BY DEF EditPayload
<1>2. payload' \in [Steps -> Payloads]
  BY DEF EditPayload, LedgerInv, TypeOK
<1>3. TypeOK'
  BY <1>1, <1>2 DEF LedgerInv, TypeOK
<1>4. ApprovalsOK' /\ GrantsOK' /\ EffectsOK' /\ ReceiptsOK' /\ DispatchesDiffer'
  BY <1>1 DEF LedgerInv, ApprovalsOK, GrantsOK, EffectsOK, ReceiptsOK, DispatchesDiffer
<1> QED
  BY <1>1, <1>3, <1>4 DEF LedgerInv

LEMMA PowerLossInv ==
    ASSUME LedgerInv, PowerLoss
    PROVE  LedgerInv'
<1>1. /\ UNCHANGED <<manifest, payload, approvals, bound, grants, effects>>
      /\ proc' = [p \in Procs |-> Idle]
  BY DEF PowerLoss
<1>2. PICK g \in Grants : receipts' = [receipts EXCEPT ![g] = "none"]
  BY DEF PowerLoss
<1>3. TypeOK'
  BY <1>1, <1>2, IdleType DEF LedgerInv, TypeOK
<1>4. ReceiptsOK'
  BY <1>1, <1>2 DEF LedgerInv, TypeOK, ReceiptsOK
<1>5. ApprovalsOK' /\ GrantsOK' /\ EffectsOK'
  BY <1>1 DEF LedgerInv, ApprovalsOK, GrantsOK, EffectsOK
<1>6. \A p \in Procs : ProcessOK(proc'[p], grants', bound', effects')
  BY <1>1, IdleOK
<1>7. DispatchesDiffer'
  BY <1>1, IdleOK DEF DispatchesDiffer
<1>8. Truthful(manifest', grants', effects')
  BY <1>1 DEF LedgerInv
<1> QED
  BY <1>3, <1>4, <1>5, <1>6, <1>7, <1>8 DEF LedgerInv

\* What was known of the handlers and of the published manifest is still known.
LEMMA KnowledgeGrows ==
    ASSUME LedgerInv, Grows(grants, bound, effects, grants', bound', effects')
    PROVE  /\ Truthful(manifest, grants', effects')
           /\ \A p \in Procs : Truthful(proc[p].mem, grants', effects')
           /\ DoneBy(grants, effects) \subseteq DoneBy(grants', effects')
           /\ \A g \in Grants : effects[g] # "none" =>
                /\ grants'[g] # None
                /\ Authorised(g, grants', bound')
                /\ DependsOn[grants'[g].step] \subseteq DoneBy(grants', effects')
<1>1. DoneBy(grants, effects) \subseteq DoneBy(grants', effects')
  BY LedgerFacts, DoneGrows
<1>2. /\ Truthful(manifest, grants', effects')
      /\ \A p \in Procs : Truthful(proc[p].mem, grants', effects')
  BY LedgerFacts, MemTruthful, TruthfulGrows
<1>3. ASSUME NEW g \in Grants, effects[g] # "none"
      PROVE  /\ grants'[g] # None
             /\ Authorised(g, grants', bound')
             /\ DependsOn[grants'[g].step] \subseteq DoneBy(grants', effects')
  <2>1. /\ grants[g] # None /\ grants[g] \in GrantRecord
        /\ Authorised(g, grants, bound)
        /\ DependsOn[grants[g].step] \subseteq DoneBy(grants, effects)
    BY <1>3, LedgerFacts DEF LedgerInv, EffectsOK
  <2>2. /\ grants'[g] # None
        /\ grants'[g].step = grants[g].step
        /\ grants'[g].payload = grants[g].payload
        /\ grants'[g].approval = grants[g].approval
    BY <2>1 DEF Grows
  <2>3. Authorised(g, grants', bound')
    <3> SUFFICES ASSUME grants[g].step \in Elevated
                 PROVE  /\ grants[g].approval # None
                        /\ bound'[grants[g].approval] =
                             [step |-> grants[g].step, payload |-> grants[g].payload]
      BY <2>2 DEF Authorised
    <3>1. /\ grants[g].approval # None
          /\ bound[grants[g].approval] = [step |-> grants[g].step, payload |-> grants[g].payload]
      BY <2>1 DEF Authorised
    <3>2. /\ grants[g].approval \in Approvals
          /\ [step |-> grants[g].step, payload |-> grants[g].payload] \in Binding
      BY <2>1, <3>1 DEF GrantRecord, Binding
    <3>3. bound[grants[g].approval] # None
      BY <3>1, <3>2, RecordAssumption
    <3> QED
      BY <3>1, <3>2, <3>3 DEF Grows
  <2> QED
    BY <1>1, <2>1, <2>2, <2>3
<1> QED
  BY <1>1, <1>2, <1>3

LEMMA MintInv ==
    ASSUME LedgerInv, NEW p \in Procs, Mint(p)
    PROVE  LedgerInv'
<1>1. /\ proc[p].pc = "loop"
      /\ UNCHANGED <<manifest, payload, approvals, bound, receipts, effects>>
  BY DEF Mint, At
<1>2. PICK s \in Steps, g \in Grants :
        /\ First(proc[p].todo, s)
        /\ s \in Elevated => approvals[s] # None
        /\ grants[g] = None
        /\ grants' = [grants EXCEPT ![g] =
                        [step |-> s, payload |-> proc[p].plan[s], approval |-> approvals[s],
                         state |-> "issued", receipt |-> None]]
        /\ proc' = [proc EXCEPT ![p] = [@ EXCEPT
                      !.pc = "minted", !.step = s, !.todo = proc[p].todo \ {s},
                      !.mem = WithGrant(proc[p].mem, s, g)]]
  BY DEF Mint
<1> DEFINE rec == [step |-> s, payload |-> proc[p].plan[s], approval |-> approvals[s],
                   state |-> "issued", receipt |-> None]
           m   == WithGrant(proc[p].mem, s, g)
           r   == [proc[p] EXCEPT !.pc = "minted", !.step = s, !.todo = proc[p].todo \ {s},
                                  !.mem = m]
<1>3. grants' = [grants EXCEPT ![g] = rec] /\ proc' = [proc EXCEPT ![p] = r]
  BY <1>2
<1>4. /\ proc[p].mem.state = "running"
      /\ proc[p].plan \in [Steps -> Payloads]
      /\ \A t \in proc[p].todo : DependsOn[t] \subseteq DoneBy(grants, effects)
      /\ s \in proc[p].todo
  BY <1>1, <1>2 DEF LedgerInv, ProcessOK, LoopOK, First
<1>5. /\ rec \in GrantRecord /\ rec # None /\ rec.step = s /\ rec.receipt = None
      /\ rec.approval = approvals[s]
  BY <1>4, RecordAssumption DEF LedgerInv, TypeOK, GrantRecord
<1> HIDE DEF rec
<1>6. grants \in [Grants -> GrantRecord \cup {None}]
  BY DEF LedgerInv, TypeOK
<1>7. /\ grants' \in [Grants -> GrantRecord \cup {None}]
      /\ grants'[g] = rec
      /\ \A h \in Grants \ {g} : grants'[h] = grants[h]
  BY <1>3, <1>5, <1>6
<1>8. Grows(grants, bound, effects, grants', bound', effects')
  BY <1>1, <1>2, <1>7 DEF Grows
<1>9. /\ m \in Manifest /\ m.state = "running" /\ m.steps[s].grant = g
      /\ Truthful(m, grants', effects')
  <2>1. /\ m \in Manifest /\ m.state = "running"
        /\ m.steps[s].state = "grant_issued"
        /\ m.steps[s].grant = g
        /\ m.steps[s].receipt = proc[p].mem.steps[s].receipt
        /\ \A t \in Steps \ {s} : m.steps[t] = proc[p].mem.steps[t]
    BY <1>4, MemTruthful, WithGrantType
  <2> HIDE DEF m
  <2>2. Truthful(proc[p].mem, grants', effects')
    BY <1>8, KnowledgeGrows
  <2>3. StepTruthful(m, s, grants', effects')
    <3>1. StepTruthful(proc[p].mem, s, grants', effects')
      BY <2>2 DEF Truthful
    <3>2. GrantOf(s, g, grants')
      BY <1>5, <1>7 DEF GrantOf
    <3> QED
      BY <2>1, <3>1, <3>2 DEF StepTruthful
  <2>4. RunTruthful(m, grants', effects')
    BY <2>1 DEF RunTruthful
  <2> QED
    BY <2>1, <2>2, <2>3, <2>4, TruthfulEdit
<1> HIDE DEF m
<1>10. /\ r \in Process /\ r.pc = "minted" /\ r.mem = m /\ r.step = s
       /\ r.plan = proc[p].plan /\ r.todo = proc[p].todo \ {s}
  BY <1>9, MemTruthful DEF Process, PCs
<1> HIDE DEF r
<1>11. r.pc \in DispatchPCs /\ GrantAt(r) = g /\ g # None /\ effects'[g] = "none"
  BY <1>1, <1>2, <1>9, <1>10, GrantIdAssumption DEF GrantAt, DispatchPCs, LedgerInv, EffectsOK
<1>12. ProcessOK(r, grants', bound', effects')
  <2>1. DoneBy(grants, effects) \subseteq DoneBy(grants', effects')
    BY <1>8, KnowledgeGrows
  <2> QED
    BY <1>4, <1>9, <1>10, <1>11, <2>1, DispatchStep
<1>13. \A q \in Procs \ {p} : proc[q].pc \in DispatchPCs =>
         /\ effects'[GrantAt(proc[q])] = effects[GrantAt(proc[q])]
         /\ r.pc \in DispatchPCs => GrantAt(proc[q]) # GrantAt(r)
  BY <1>1, <1>2, <1>11, DispatchFacts
<1>14. /\ proc' \in [Procs -> Process]
       /\ \A q \in Procs : ProcessOK(proc'[q], grants', bound', effects')
       /\ DispatchesDiffer'
  BY <1>3, <1>8, <1>10, <1>12, <1>13, Frame
<1>15. TypeOK'
  BY <1>1, <1>7, <1>14 DEF LedgerInv, TypeOK
<1>16. ApprovalsOK' /\ ReceiptsOK'
  BY <1>1 DEF LedgerInv, ApprovalsOK, ReceiptsOK
<1>17. GrantsOK'
  <2> SUFFICES ASSUME NEW h \in Grants, grants'[h] # None
               PROVE  /\ grants'[h].receipt \in {None, h}
                      /\ grants'[h].step \in Elevated =>
                           /\ grants'[h].approval # None
                           /\ bound'[grants'[h].approval] # None
                           /\ bound'[grants'[h].approval].step = grants'[h].step
    BY DEF GrantsOK
  <2>1. CASE h = g
    BY <1>1, <1>2, <1>5, <1>7, <2>1 DEF LedgerInv, ApprovalsOK
  <2>2. CASE h # g
    BY <1>1, <1>7, <2>2 DEF LedgerInv, GrantsOK
  <2> QED
    BY <2>1, <2>2
<1>18. EffectsOK'
  BY <1>1, <1>8, KnowledgeGrows DEF EffectsOK
<1>19. Truthful(manifest', grants', effects')
  BY <1>1, <1>8, KnowledgeGrows
<1> QED
  BY <1>14, <1>15, <1>16, <1>17, <1>18, <1>19 DEF LedgerInv

LEMMA ExecuteInv ==
    ASSUME LedgerInv, NEW p \in Procs, Execute(p)
    PROVE  LedgerInv'
<1> DEFINE g == GrantAt(proc[p])
<1>1. proc[p].pc = "execute" /\ UNCHANGED ledger
  BY DEF Execute, At
<1>2. proc[p].pc \in DispatchPCs
  BY <1>1 DEF DispatchPCs
<1>3. /\ CurrentGrant(p) = g /\ g \in Grants /\ grants[g] # None
      /\ DependsOn[grants[g].step] \subseteq DoneBy(grants, effects)
  BY <1>2, DispatchFacts
<1>4. effects[g] = "none" /\ Authorised(g, grants, bound) /\ g # None
  BY <1>1, <1>2 DEF LedgerInv, ProcessOK, DispatchOK
<1>5. PICK outcome \in Outcomes \cup {"threw"} :
        /\ effects' = [effects EXCEPT ![g] = outcome]
        /\ IF outcome = "threw"
           THEN Return(p)
           ELSE proc' = [proc EXCEPT ![p].pc = "receipt"]
  BY <1>3 DEF Execute
<1>6. effects \in [Grants -> Outcomes \cup {"none", "threw"}]
  BY DEF LedgerInv, TypeOK
<1>7. /\ effects' \in [Grants -> Outcomes \cup {"none", "threw"}]
      /\ effects'[g] = outcome
      /\ \A h \in Grants \ {g} : effects'[h] = effects[h]
  BY <1>3, <1>5, <1>6
<1>8. Grows(grants, bound, effects, grants', bound', effects')
  BY <1>1, <1>4, <1>7 DEF Grows, ledger
<1>9. /\ Truthful(proc[p].mem, grants', effects')
      /\ DoneBy(grants, effects) \subseteq DoneBy(grants', effects')
  BY <1>8, KnowledgeGrows
<1>10. \A q \in Procs \ {p} : proc[q].pc \in DispatchPCs =>
         /\ GrantAt(proc[q]) # g
         /\ effects'[GrantAt(proc[q])] = effects[GrantAt(proc[q])]
  <2> SUFFICES ASSUME NEW q \in Procs \ {p}, proc[q].pc \in DispatchPCs
               PROVE  GrantAt(proc[q]) # g /\ GrantAt(proc[q]) \in Grants
    BY <1>7
  <2> QED
    BY <1>2, DispatchFacts DEF LedgerInv, DispatchesDiffer
<1> HIDE DEF g
<1>11. PICK r \in Process :
         /\ proc' = [proc EXCEPT ![p] = r]
         /\ ProcessOK(r, grants', bound', effects')
         /\ r.pc \in DispatchPCs => GrantAt(r) = g
  <2>1. CASE outcome = "threw"
    BY <1>5, <2>1, IdleType, IdleOK DEF Return
  <2>2. CASE outcome # "threw"
    <3> DEFINE r == [proc[p] EXCEPT !.pc = "receipt"]
    <3>1. /\ r \in Process /\ r.pc = "receipt" /\ r.mem = proc[p].mem /\ r.step = proc[p].step
          /\ r.plan = proc[p].plan /\ r.todo = proc[p].todo
      BY MemTruthful DEF Process, PCs
    <3>2. proc' = [proc EXCEPT ![p] = r]
      BY <1>5, <2>2
    <3> HIDE DEF r
    <3>3. r.pc \in DispatchPCs /\ GrantAt(r) = g
      BY <3>1 DEF GrantAt, DispatchPCs, g
    <3>4. effects'[g] \in Outcomes
      BY <1>7, <2>2
    <3>5. /\ r.mem.state = "running" /\ r.plan \in [Steps -> Payloads] /\ r.step \in Steps
          /\ DependsOn[r.step] \subseteq DoneBy(grants, effects)
          /\ \A s \in r.todo : DependsOn[s] \subseteq DoneBy(grants, effects)
      BY <1>2, <3>1, DispatchFacts
    <3>6. ProcessOK(r, grants', bound', effects')
      BY <1>4, <1>9, <3>1, <3>3, <3>4, <3>5, DispatchStep
    <3> QED
      BY <3>1, <3>2, <3>3, <3>6
  <2> QED
    BY <2>1, <2>2
<1>12. /\ proc' \in [Procs -> Process]
       /\ \A q \in Procs : ProcessOK(proc'[q], grants', bound', effects')
       /\ DispatchesDiffer'
  BY <1>8, <1>10, <1>11, Frame
<1>13. TypeOK'
  BY <1>1, <1>7, <1>12 DEF LedgerInv, TypeOK, ledger
<1>14. ApprovalsOK' /\ GrantsOK'
  BY <1>1 DEF LedgerInv, ApprovalsOK, GrantsOK, ledger
<1>15. ReceiptsOK'
  BY <1>1, <1>4, <1>7 DEF LedgerInv, ReceiptsOK, ledger
<1>16. EffectsOK'
  <2> SUFFICES ASSUME NEW h \in Grants, effects'[h] # "none"
               PROVE  /\ grants'[h] # None
                      /\ Authorised(h, grants', bound')
                      /\ DependsOn[grants'[h].step] \subseteq DoneBy(grants', effects')
    BY DEF EffectsOK
  <2>1. CASE h = g
    BY <1>1, <1>3, <1>4, <1>9, <2>1 DEF ledger
  <2>2. CASE h # g
    BY <1>7, <1>8, <2>2, KnowledgeGrows
  <2> QED
    BY <2>1, <2>2
<1>17. Truthful(manifest', grants', effects')
  BY <1>1, <1>8, KnowledgeGrows DEF ledger
<1> QED
  BY <1>12, <1>13, <1>14, <1>15, <1>16, <1>17 DEF LedgerInv

LEMMA WriteReceiptInv ==
    ASSUME LedgerInv, NEW p \in Procs, WriteReceipt(p)
    PROVE  LedgerInv'
<1> DEFINE g == GrantAt(proc[p])
           r == [proc[p] EXCEPT !.pc = "consume"]
<1>1. /\ proc[p].pc = "receipt"
      /\ proc' = [proc EXCEPT ![p] = r]
      /\ receipts' = [receipts EXCEPT ![CurrentGrant(p)] = effects[CurrentGrant(p)]]
      /\ UNCHANGED <<manifest, payload, approvals, bound, grants, effects>>
  BY DEF WriteReceipt, At
<1>2. proc[p].pc \in DispatchPCs
  BY <1>1 DEF DispatchPCs
<1>3. CurrentGrant(p) = g /\ g \in Grants
  BY <1>2, DispatchFacts
<1>4. effects[g] \in Outcomes /\ g # None
  BY <1>1, <1>2 DEF LedgerInv, ProcessOK, DispatchOK
<1>5. /\ r \in Process /\ r.pc = "consume" /\ r.mem = proc[p].mem /\ r.step = proc[p].step
      /\ r.plan = proc[p].plan /\ r.todo = proc[p].todo
  BY MemTruthful DEF Process, PCs
<1> HIDE DEF r
<1>6. GrantAt(r) = g /\ r.pc \in DispatchPCs
  BY <1>5 DEF GrantAt, DispatchPCs
<1> HIDE DEF g
<1>7. ProcessOK(r, grants', bound', effects')
  BY <1>1, <1>2, <1>4, <1>5, <1>6, DispatchFacts, DispatchStep, MemTruthful
<1>8. Grows(grants, bound, effects, grants', bound', effects')
  BY <1>1 DEF Grows
<1>9. \A q \in Procs \ {p} : proc[q].pc \in DispatchPCs =>
        /\ effects'[GrantAt(proc[q])] = effects[GrantAt(proc[q])]
        /\ r.pc \in DispatchPCs => GrantAt(proc[q]) # GrantAt(r)
  BY <1>1, <1>2, <1>6 DEF LedgerInv, DispatchesDiffer, g
<1>10. /\ proc' \in [Procs -> Process]
       /\ \A q \in Procs : ProcessOK(proc'[q], grants', bound', effects')
       /\ DispatchesDiffer'
  BY <1>1, <1>5, <1>7, <1>8, <1>9, Frame
<1>11. receipts' = [receipts EXCEPT ![g] = effects[g]]
  BY <1>1, <1>3
<1>12. TypeOK'
  BY <1>1, <1>3, <1>4, <1>10, <1>11 DEF LedgerInv, TypeOK
<1>13. ApprovalsOK' /\ GrantsOK' /\ EffectsOK'
  BY <1>1 DEF LedgerInv, ApprovalsOK, GrantsOK, EffectsOK
<1>14. ReceiptsOK'
  BY <1>1, <1>3, <1>11 DEF LedgerInv, TypeOK, ReceiptsOK
<1>15. Truthful(manifest', grants', effects')
  BY <1>1 DEF LedgerInv
<1> QED
  BY <1>10, <1>12, <1>13, <1>14, <1>15 DEF LedgerInv

\* A grant record is rewritten: only its state and its receipt id change.
LEMMA GrantEdited ==
    ASSUME LedgerInv, NEW g \in Grants, grants[g] # None,
           NEW v \in {"issued", "consumed", "expired", "void"}, NEW kept \in {None, g},
           grants' = [grants EXCEPT ![g] = [@ EXCEPT !.state = v, !.receipt = kept]],
           UNCHANGED <<approvals, bound, receipts, effects>>
    PROVE  /\ grants' \in [Grants -> GrantRecord \cup {None}]
           /\ Grows(grants, bound, effects, grants', bound', effects')
           /\ ApprovalsOK' /\ GrantsOK' /\ EffectsOK' /\ ReceiptsOK'
<1> DEFINE rec == [grants[g] EXCEPT !.state = v, !.receipt = kept]
<1>1. grants \in [Grants -> GrantRecord \cup {None}] /\ grants[g] \in GrantRecord
  BY LedgerFacts DEF LedgerInv, TypeOK
<1>2. /\ rec \in GrantRecord
      /\ rec.step = grants[g].step /\ rec.payload = grants[g].payload
      /\ rec.approval = grants[g].approval /\ rec.receipt = kept
  BY <1>1 DEF GrantRecord
<1>3. rec # None
  BY <1>2, RecordAssumption
<1>4. grants' = [grants EXCEPT ![g] = rec]
  OBVIOUS
<1> HIDE DEF rec
<1>5. /\ grants' \in [Grants -> GrantRecord \cup {None}]
      /\ grants'[g] = rec
      /\ \A h \in Grants \ {g} : grants'[h] = grants[h]
  BY <1>1, <1>2, <1>4
<1>6. Grows(grants, bound, effects, grants', bound', effects')
  <2> SUFFICES ASSUME NEW h \in Grants, grants[h] # None
               PROVE  /\ grants'[h] # None
                      /\ grants'[h].step = grants[h].step
                      /\ grants'[h].payload = grants[h].payload
                      /\ grants'[h].approval = grants[h].approval
    BY DEF Grows
  <2>1. CASE h = g
    BY <1>2, <1>3, <1>5, <2>1
  <2>2. CASE h # g
    BY <1>5, <2>2
  <2> QED
    BY <2>1, <2>2
<1>7. GrantsOK'
  <2> SUFFICES ASSUME NEW h \in Grants, grants'[h] # None
               PROVE  /\ grants'[h].receipt \in {None, h}
                      /\ grants'[h].step \in Elevated =>
                           /\ grants'[h].approval # None
                           /\ bound[grants'[h].approval] # None
                           /\ bound[grants'[h].approval].step = grants'[h].step
    BY DEF GrantsOK
  <2>1. CASE h = g
    BY <1>2, <1>5, <2>1 DEF LedgerInv, GrantsOK
  <2>2. CASE h # g
    BY <1>5, <2>2 DEF LedgerInv, GrantsOK
  <2> QED
    BY <2>1, <2>2
<1>8. EffectsOK'
  BY <1>6, KnowledgeGrows DEF EffectsOK
<1>9. ApprovalsOK' /\ ReceiptsOK'
  BY DEF LedgerInv, ApprovalsOK, ReceiptsOK
<1> QED
  BY <1>5, <1>6, <1>7, <1>8, <1>9

LEMMA ConsumeGrantInv ==
    ASSUME LedgerInv, NEW p \in Procs, ConsumeGrant(p)
    PROVE  LedgerInv'
<1> DEFINE g == GrantAt(proc[p])
           s == proc[p].step
           m == Reconciled(proc[p].mem, s, g, effects[g])
           r == [proc[p] EXCEPT !.pc = "settle", !.mem = m]
<1>1. proc[p].pc = "consume" /\ UNCHANGED <<manifest, payload, approvals, bound, receipts, effects>>
  BY DEF ConsumeGrant, At
<1>2. proc[p].pc \in DispatchPCs
  BY <1>1 DEF DispatchPCs
<1>3. /\ CurrentGrant(p) = g /\ g \in Grants /\ grants[g] # None /\ grants[g].step = s
      /\ s \in Steps /\ proc[p].mem.state = "running" /\ proc[p].plan \in [Steps -> Payloads]
      /\ DependsOn[s] \subseteq DoneBy(grants, effects)
      /\ \A t \in proc[p].todo : DependsOn[t] \subseteq DoneBy(grants, effects)
  BY <1>2, DispatchFacts
<1>4. effects[g] \in Outcomes /\ g # None
  BY <1>1, <1>2 DEF LedgerInv, ProcessOK, DispatchOK
<1>5. /\ grants' = [grants EXCEPT ![g] = [@ EXCEPT !.state = "consumed", !.receipt = g]]
      /\ proc' = [proc EXCEPT ![p] = r]
  BY <1>3 DEF ConsumeGrant
<1>6. m.steps[s].grant = g
  <2>1. \A h \in Grants, v \in Outcomes :
          Reconciled(proc[p].mem, s, h, v).steps[s].grant = proc[p].mem.steps[s].grant
    BY <1>3, MemTruthful, ReconciledType
  <2>2. proc[p].mem.steps[s].grant = g
    BY DEF GrantAt
  <2> QED
    BY <1>3, <1>4, <2>1, <2>2
<1> HIDE DEF g
<1>7. /\ grants' \in [Grants -> GrantRecord \cup {None}]
      /\ Grows(grants, bound, effects, grants', bound', effects')
      /\ ApprovalsOK' /\ GrantsOK' /\ EffectsOK' /\ ReceiptsOK'
  BY <1>1, <1>3, <1>5, GrantEdited
<1>8. m \in Manifest /\ m.state = "running" /\ Truthful(m, grants', effects')
  <2>1. Truthful(proc[p].mem, grants', effects')
    BY <1>7, KnowledgeGrows
  <2>2. GrantOf(s, g, grants') /\ effects'[g] = effects[g]
    BY <1>1, <1>3, <1>7 DEF GrantOf, Grows
  <2>3. Truthful(m, grants', effects')
    BY <1>3, <1>4, <2>1, <2>2, MemTruthful, TruthfulReconciled
  <2> QED
    BY <1>3, <1>4, <2>3, MemTruthful, ReconciledType
<1> HIDE DEF m
<1>9. /\ r \in Process /\ r.pc = "settle" /\ r.mem = m /\ r.step = s
      /\ r.plan = proc[p].plan /\ r.todo = proc[p].todo
  BY <1>8, MemTruthful DEF Process, PCs
<1> HIDE DEF r
<1>10. r.pc \in DispatchPCs /\ GrantAt(r) = g
  BY <1>6, <1>9 DEF GrantAt, DispatchPCs
<1>11. ProcessOK(r, grants', bound', effects')
  <2>1. DoneBy(grants, effects) \subseteq DoneBy(grants', effects')
    BY <1>7, KnowledgeGrows
  <2> HIDE DEF s
  <2> QED
    BY <1>3, <1>4, <1>8, <1>9, <1>10, <2>1, DispatchStep
<1>12. \A q \in Procs \ {p} : proc[q].pc \in DispatchPCs =>
         /\ effects'[GrantAt(proc[q])] = effects[GrantAt(proc[q])]
         /\ r.pc \in DispatchPCs => GrantAt(proc[q]) # GrantAt(r)
  BY <1>1, <1>2, <1>10 DEF LedgerInv, DispatchesDiffer, g
<1>13. /\ proc' \in [Procs -> Process]
       /\ \A q \in Procs : ProcessOK(proc'[q], grants', bound', effects')
       /\ DispatchesDiffer'
  BY <1>5, <1>7, <1>9, <1>11, <1>12, Frame
<1>14. TypeOK'
  BY <1>1, <1>7, <1>13 DEF LedgerInv, TypeOK
<1>15. Truthful(manifest', grants', effects')
  BY <1>1, <1>7, KnowledgeGrows
<1> QED
  BY <1>7, <1>13, <1>14, <1>15 DEF LedgerInv

LEMMA VoidGrantInv ==
    ASSUME LedgerInv, NEW p \in Procs, VoidGrant(p)
    PROVE  LedgerInv'
<1> DEFINE g == GrantAt(proc[p])
           s == proc[p].step
           m == ClearedForReplay(proc[p].mem, s)
           r == [proc[p] EXCEPT !.pc = "inspect", !.step = None, !.todo = proc[p].todo \ {s},
                                !.mem = m]
<1>1. /\ proc[p].pc = "void"
      /\ UNCHANGED <<manifest, payload, approvals, bound, receipts, effects>>
      /\ proc' = [proc EXCEPT ![p] = r]
      /\ CurrentGrant(p) = g
  BY DEF VoidGrant, At, CurrentGrant, GrantAt
<1>2. /\ s \in proc[p].todo /\ ~Settled(proc[p].mem, s) /\ g # None
      /\ \A t \in Steps \ proc[p].todo : Settled(proc[p].mem, t)
  BY <1>1 DEF LedgerInv, ProcessOK, RecoveryOK
<1>3. s \in Steps
  BY <1>2, MemTruthful DEF Process
<1>4. g \in Grants /\ grants[g] # None
  <2>1. StepTruthful(proc[p].mem, s, grants, effects)
    BY <1>3, MemTruthful DEF Truthful
  <2> QED
    BY <1>2, <1>3, <2>1, MemTruthful, StepType DEF GrantAt, StepTruthful, GrantOf
<1>5. PICK dead \in {"expired", "void"}, kept \in {None, grants[g].receipt} :
        grants' = [grants EXCEPT ![g] = [@ EXCEPT !.state = dead, !.receipt = kept]]
  BY <1>1 DEF VoidGrant
<1>6. kept \in {None, g}
  BY <1>4, <1>5 DEF LedgerInv, GrantsOK
<1> HIDE DEF g
<1>7. /\ grants' \in [Grants -> GrantRecord \cup {None}]
      /\ Grows(grants, bound, effects, grants', bound', effects')
      /\ ApprovalsOK' /\ GrantsOK' /\ EffectsOK' /\ ReceiptsOK'
  BY <1>1, <1>4, <1>5, <1>6, GrantEdited
<1>8. /\ m \in Manifest /\ Truthful(m, grants', effects')
      /\ m.steps[s].state = "pending"
      /\ \A t \in Steps \ {s} : m.steps[t] = proc[p].mem.steps[t]
  <2>1. Truthful(proc[p].mem, grants', effects')
    BY <1>7, KnowledgeGrows
  <2>2. Truthful(m, grants', effects')
    BY <1>2, <1>3, <2>1, MemTruthful, UnsettledStates, TruthfulCleared
  <2> QED
    BY <1>3, <2>2, MemTruthful, ClearedType
<1> HIDE DEF m
<1>9. /\ r \in Process /\ r.pc = "inspect" /\ r.mem = m /\ r.todo = proc[p].todo \ {s}
  BY <1>8, MemTruthful DEF Process, PCs
<1> HIDE DEF r
<1>10. \A t \in Steps \ r.todo : Settled(r.mem, t)
  BY <1>2, <1>8, <1>9 DEF Settled
<1>11. ProcessOK(r, grants', bound', effects') /\ r.pc \notin DispatchPCs
  BY <1>8, <1>9, <1>10 DEF ProcessOK, LoopOK, DispatchOK, RecoveryOK, GraphOK, DispatchPCs
<1>12. /\ proc' \in [Procs -> Process]
       /\ \A q \in Procs : ProcessOK(proc'[q], grants', bound', effects')
       /\ DispatchesDiffer'
  BY <1>1, <1>7, <1>9, <1>11, Frame
<1>13. TypeOK'
  BY <1>1, <1>7, <1>12 DEF LedgerInv, TypeOK
<1>14. Truthful(manifest', grants', effects')
  BY <1>1, <1>7, KnowledgeGrows
<1> QED
  BY <1>7, <1>12, <1>13, <1>14 DEF LedgerInv

LEMMA WriteApprovalInv ==
    ASSUME LedgerInv, NEW p \in Procs, WriteApproval(p)
    PROVE  LedgerInv'
<1> DEFINE s == proc[p].step
           b == [step |-> s, payload |-> proc[p].plan[s]]
           m == Approved(proc[p].mem, s)
           r == [proc[p] EXCEPT !.pc = "publish", !.mem = m]
<1>1. /\ proc[p].pc = "approving"
      /\ proc' = [proc EXCEPT ![p] = r]
      /\ UNCHANGED <<manifest, payload, grants, receipts, effects>>
  BY DEF WriteApproval, At
<1>2. PICK a \in Approvals :
        /\ bound[a] = None
        /\ bound' = [bound EXCEPT ![a] = b]
        /\ approvals' = [approvals EXCEPT ![s] = a]
  BY DEF WriteApproval
<1>3. s \in Steps /\ proc[p].plan \in [Steps -> Payloads]
  BY <1>1, GraphAssumption DEF LedgerInv, ProcessOK, GraphOK
<1>4. b \in Binding /\ b # None /\ b.step = s
  BY <1>3, RecordAssumption DEF Binding
<1> HIDE DEF b
<1>5. /\ approvals' \in [Steps -> Approvals \cup {None}]
      /\ bound' \in [Approvals -> Binding \cup {None}]
      /\ bound'[a] = b
      /\ \A c \in Approvals \ {a} : bound'[c] = bound[c]
  BY <1>2, <1>3, <1>4 DEF LedgerInv, TypeOK
<1>6. Grows(grants, bound, effects, grants', bound', effects')
  BY <1>1, <1>2, <1>5 DEF Grows
<1>7. m \in Manifest /\ Truthful(m, grants, effects)
  BY <1>3, MemTruthful, TruthfulApproved
<1> HIDE DEF m
<1>8. r \in Process /\ r.pc = "publish" /\ r.mem = m
  BY <1>7, MemTruthful DEF Process, PCs
<1> HIDE DEF r
<1>9. ProcessOK(r, grants', bound', effects') /\ r.pc \notin DispatchPCs
  BY <1>1, <1>7, <1>8, RestOK
<1>10. /\ proc' \in [Procs -> Process]
       /\ \A q \in Procs : ProcessOK(proc'[q], grants', bound', effects')
       /\ DispatchesDiffer'
  BY <1>1, <1>6, <1>8, <1>9, Frame
<1>11. TypeOK'
  BY <1>1, <1>5, <1>10 DEF LedgerInv, TypeOK
<1>12. ApprovalsOK'
  <2> SUFFICES ASSUME NEW t \in Steps, approvals'[t] # None
               PROVE  bound'[approvals'[t]] # None /\ bound'[approvals'[t]].step = t
    BY DEF ApprovalsOK
  <2>1. CASE t = s
    BY <1>2, <1>4, <1>5, <2>1 DEF LedgerInv, TypeOK
  <2>2. CASE t # s
    <3>1. approvals'[t] = approvals[t] /\ approvals[t] \in Approvals
      BY <1>2, <2>2 DEF LedgerInv, TypeOK
    <3>2. bound[approvals[t]] # None /\ bound[approvals[t]].step = t
      BY <3>1 DEF LedgerInv, ApprovalsOK
    <3> QED
      BY <1>2, <1>5, <3>1, <3>2
  <2> QED
    BY <2>1, <2>2
<1>13. GrantsOK'
  <2> SUFFICES ASSUME NEW h \in Grants, grants[h] # None
               PROVE  /\ grants[h].receipt \in {None, h}
                      /\ grants[h].step \in Elevated =>
                           /\ grants[h].approval # None
                           /\ bound'[grants[h].approval] # None
                           /\ bound'[grants[h].approval].step = grants[h].step
    BY <1>1 DEF GrantsOK
  <2>1. grants[h] \in GrantRecord
    BY LedgerFacts
  <2> QED
    BY <1>6, <2>1 DEF LedgerInv, GrantsOK, GrantRecord, Grows
<1>14. EffectsOK'
  BY <1>1, <1>6, KnowledgeGrows DEF EffectsOK
<1>15. ReceiptsOK' /\ Truthful(manifest', grants', effects')
  BY <1>1 DEF LedgerInv, ReceiptsOK
<1> QED
  BY <1>10, <1>11, <1>12, <1>13, <1>14, <1>15 DEF LedgerInv

-----------------------------------------------------------------------------
(* The theorems.                                                           *)

LEMMA StutterInv == LedgerInv /\ UNCHANGED vars => LedgerInv'
<1> SUFFICES ASSUME LedgerInv, UNCHANGED vars
             PROVE  LedgerInv'
  OBVIOUS
<1>1. TypeOK' /\ ApprovalsOK' /\ GrantsOK' /\ EffectsOK' /\ ReceiptsOK' /\ DispatchesDiffer'
  BY DEF LedgerInv, TypeOK, ApprovalsOK, GrantsOK, EffectsOK, ReceiptsOK, DispatchesDiffer,
         vars, ledger
<1> QED
  BY <1>1 DEF LedgerInv, vars, ledger

LEMMA NextInv == LedgerInv /\ [Next]_vars => LedgerInv'
<1> SUFFICES ASSUME LedgerInv, [Next]_vars
             PROVE  LedgerInv'
  OBVIOUS
<1>1. ASSUME NEW p \in Procs, Engine(p)
      PROVE  LedgerInv'
  <2>0. CASE ReadGraph(p)
    BY <2>0, ReadGraphInv
  <2>1. CASE Reload(p)
    BY <2>1, ReloadInv
  <2>2. CASE Begin(p)
    BY <2>2, BeginInv
  <2>3. CASE AwaitApproval(p)
    BY <2>3, AskForInv DEF AwaitApproval
  <2>4. CASE Mint(p)
    BY <2>4, MintInv
  <2>5. CASE PublishRunning(p)
    BY <2>5, PublishRunningInv
  <2>6. CASE Verify(p)
    BY <2>6, VerifyInv
  <2>7. CASE Refuse(p) \/ Finish(p)
    BY <2>7, ReturningInv
  <2>8. CASE Execute(p)
    BY <2>8, ExecuteInv
  <2>9. CASE WriteReceipt(p)
    BY <2>9, WriteReceiptInv
  <2>10. CASE ConsumeGrant(p)
    BY <2>10, ConsumeGrantInv
  <2>11. CASE PublishResult(p)
    BY <2>11, PublishResultInv
  <2> QED
    BY <1>1, <2>0, <2>1, <2>2, <2>3, <2>4, <2>5, <2>6, <2>7, <2>8, <2>9, <2>10, <2>11 DEF Engine
<1>2. ASSUME NEW p \in Procs, Recovery(p)
      PROVE  LedgerInv'
  BY <1>2, BeginRecoveryInv, RecoverStepInv, VoidGrantInv, PublishRecoveryInv DEF Recovery
<1>3. ASSUME NEW p \in Procs, Operator(p)
      PROVE  LedgerInv'
  BY <1>3, WriteApprovalInv, ReturningInv DEF Operator
<1>4. ASSUME NEW p \in Procs, Start(p)
      PROVE  LedgerInv'
  BY <1>4, StartResumeInv, StartApproveInv, StartCancelInv, BeginRecoveryInv DEF Start
<1>5. ASSUME NEW p \in Procs, Crash(p)
      PROVE  LedgerInv'
  BY <1>5, ReturningInv
<1>6. CASE PowerLoss \/ EditPayload
  BY <1>6, PowerLossInv, EditPayloadInv
<1>7. CASE UNCHANGED vars
  BY <1>7, StutterInv
<1> QED
  BY <1>1, <1>2, <1>3, <1>4, <1>5, <1>6, <1>7 DEF Next, Continue

\* Whatever the graph, the number of processes and the faults, the files and the
\* memory of every command stay tied to what the handlers really did.
THEOREM LedgerHolds == Spec => []LedgerInv
<1>1. Init => LedgerInv
  BY InitInv
<1>2. LedgerInv /\ [Next]_vars => LedgerInv'
  BY NextInv
<1> QED
  BY <1>1, <1>2, PTL DEF Spec

\* Every file and every local variable keeps its type.
THEOREM TypeCorrect == Spec => []TypeOK
<1>1. LedgerInv => TypeOK
  BY DEF LedgerInv
<1> QED
  BY <1>1, LedgerHolds, PTL

\* verifyGrantForRequest and ensureApprovalForElevatedRequest suffice: an elevated
\* handler never acts on a payload that was not approved for its step.
THEOREM OnlyApprovedPayloads == Spec => []ApprovedPayloadOnly
<1>1. LedgerInv => ApprovedPayloadOnly
  BY DEF LedgerInv, EffectsOK, Authorised, ApprovedPayloadOnly, Acted
<1> QED
  BY <1>1, LedgerHolds, PTL

LEMMA DoneIsDoneBy == Done = DoneBy(grants, effects)
BY DEF Done, DoneBy

\* nextRunnableSteps suffices although its answer is used long after: a handler
\* never acts before the steps its node depends on were carried out.
THEOREM DependenciesComeFirst == Spec => []DependenciesFirst
<1>1. LedgerInv => DependenciesFirst
  BY DoneIsDoneBy DEF LedgerInv, EffectsOK, DependenciesFirst, Acted
<1> QED
  BY <1>1, LedgerHolds, PTL

\* No stale copy of the manifest makes resumeWorkflow or recoverRun report a
\* success that was not earned.
THEOREM SuccessesAreEarned == Spec => []SuccessIsEarned
<1>1. LedgerInv => SuccessIsEarned
  <2> SUFFICES ASSUME LedgerInv
               PROVE  SuccessIsEarned
    OBVIOUS
  <2>1. ASSUME NEW s \in StepsIn(manifest, {"succeeded"})
        PROVE  LET g == manifest.steps[s].receipt
               IN  g \in Acted /\ grants[g].step = s /\ effects[g] = "succeeded"
    <3>1. s \in Steps /\ manifest.steps[s].state = "succeeded"
      BY DEF StepsIn
    <3>2. StepTruthful(manifest, s, grants, effects)
      BY <3>1, MemTruthful DEF Truthful
    <3>3. manifest.steps[s].receipt \in Grants
      BY <3>1, <3>2, MemTruthful, StepType DEF StepTruthful
    <3> QED
      BY <3>1, <3>2, <3>3 DEF StepTruthful, GrantOf, Acted
  <2>2. ASSUME manifest.state = "succeeded"
        PROVE  Done = Steps
    <3>1. Steps \subseteq Done
      BY <2>2, MemTruthful, DoneIsDoneBy DEF Truthful, RunTruthful
    <3>2. Done \subseteq Steps
      BY LedgerFacts DEF Done, GrantRecord, Minted
    <3> QED
      BY <3>1, <3>2
  <2> QED
    BY <2>1, <2>2 DEF SuccessIsEarned
<1> QED
  BY <1>1, LedgerHolds, PTL

\* A run in awaiting_approval has a step that approveRunStep can release.
THEOREM WaitsNameAStep == Spec => []WaitingNamesAStep
<1>1. LedgerInv => WaitingNamesAStep
  BY MemTruthful DEF WaitingNamesAStep, Truthful, RunTruthful, StepsIn
<1> QED
  BY <1>1, LedgerHolds, PTL

\* What recovery derives for a manifest whose steps are all settled.
LEMMA SettledRunState ==
    ASSUME NEW m \in Manifest, \A s \in Steps : Settled(m, s)
    PROVE  DeriveRunState(m) \in {"ready", "awaiting_approval", "quarantined", "failed", "succeeded"}
<1>1. ASSUME StepsIn(m, {"quarantined"}) = {}, StepsIn(m, {"awaiting_approval"}) = {},
             StepsIn(m, {"failed"}) = {}, ~AllSucceeded(m)
      PROVE  StepsIn(m, {"pending", "grant_issued", "running"}) # {}
  <2>1. PICK s \in Steps : m.steps[s].state # "succeeded"
    BY <1>1 DEF AllSucceeded, StepsIn
  <2>2. m.steps[s].state = "pending"
    BY <1>1, <2>1 DEF Settled, StepsIn
  <2> QED
    BY <2>2 DEF StepsIn
<1> QED
  BY <1>1 DEF DeriveRunState

\* recoverRun never publishes a step in the middle of an execution, nor leaves
\* the run running.
THEOREM RecoverySettlesRuns == Spec => RecoverySettles
<1>1. ASSUME LedgerInv, NEW p \in Procs, PublishRecovery(p)
      PROVE  /\ \A s \in Steps : Settled(manifest', s)
             /\ manifest'.state \in {"ready", "awaiting_approval", "quarantined", "failed",
                                     "succeeded"}
  <2> DEFINE mem == proc[p].mem
             v   == DeriveRunState(mem)
  <2>1. proc[p].pc = "inspect" /\ proc[p].todo = {} /\ manifest' = WithRun(mem, v)
    BY <1>1 DEF PublishRecovery, At
  <2>2. \A s \in Steps : Settled(mem, s)
    BY <1>1, <2>1 DEF LedgerInv, ProcessOK, RecoveryOK
  <2>3. mem \in Manifest
    BY <1>1, MemTruthful
  <2>4. v \in RunStates
    BY <2>3, DerivedType
  <2>5. manifest'.state = v /\ manifest'.steps = mem.steps
    BY <2>1, <2>3, <2>4, WithRunType
  <2>6. v \in {"ready", "awaiting_approval", "quarantined", "failed", "succeeded"}
    BY <2>2, <2>3, SettledRunState
  <2> QED
    BY <2>2, <2>5, <2>6 DEF Settled
<1>2. LedgerInv =>
        \A p \in Procs : PublishRecovery(p) =>
          /\ \A s \in Steps : Settled(manifest', s)
          /\ manifest'.state \in {"ready", "awaiting_approval", "quarantined", "failed", "succeeded"}
  BY <1>1
<1> QED
  BY <1>2, LedgerHolds, PTL DEF RecoverySettles

-----------------------------------------------------------------------------
(* The refinement of the approval gate.                                    *)

\* Only a handler and an approval tell the gate anything new.
LEMMA GateUnmoved ==
    ASSUME LedgerInv, UNCHANGED <<bound, effects>>,
           \A g \in Acted : /\ grants'[g].step = grants[g].step
                            /\ grants'[g].payload = grants[g].payload
    PROVE  UNCHANGED <<ApprovedWork, RanWork, Done>>
BY DEF ApprovedWork, RanWork, Done, Acted

\* Every other step leaves the approvals and the effects alone, and what the
\* grants in use were minted for.
LEMMA OtherSteps ==
    ASSUME LedgerInv, [Next]_vars,
           \A p \in Procs : ~Execute(p) /\ ~WriteApproval(p)
    PROVE  /\ UNCHANGED <<bound, effects>>
           /\ \A g \in Acted : /\ grants'[g].step = grants[g].step
                               /\ grants'[g].payload = grants[g].payload
<1>1. ASSUME NEW p \in Procs, Mint(p)
      PROVE  /\ UNCHANGED <<bound, effects>>
             /\ \A g \in Acted : grants'[g] = grants[g]
  BY <1>1 DEF Mint, Acted, LedgerInv, EffectsOK, TypeOK
<1>2. \A g \in Acted : g \in Grants /\ grants[g] \in GrantRecord
  BY LedgerFacts DEF Acted, Minted
<1>3. grants \in [Grants -> GrantRecord \cup {None}]
  BY DEF LedgerInv, TypeOK
<1>4. ASSUME NEW p \in Procs, ConsumeGrant(p) \/ VoidGrant(p)
      PROVE  /\ UNCHANGED <<bound, effects>>
             /\ \A g \in Acted : /\ grants'[g].step = grants[g].step
                                 /\ grants'[g].payload = grants[g].payload
  <2>1. UNCHANGED <<bound, effects>>
    BY <1>4 DEF ConsumeGrant, VoidGrant
  <2>2. PICK h, v, kept : grants' = [grants EXCEPT ![h] = [@ EXCEPT !.state = v, !.receipt = kept]]
    <3>1. CASE ConsumeGrant(p)
      BY <3>1 DEF ConsumeGrant
    <3>2. CASE VoidGrant(p)
      <4>1. PICK dead \in {"expired", "void"}, kept \in {None, grants[CurrentGrant(p)].receipt} :
              grants' = [grants EXCEPT ![CurrentGrant(p)] =
                           [@ EXCEPT !.state = dead, !.receipt = kept]]
        BY <3>2 DEF VoidGrant
      <4> QED
        BY <4>1
    <3> QED
      BY <1>4, <3>1, <3>2
  <2> QED
    BY <1>2, <1>3, <2>1, <2>2 DEF GrantRecord
<1>5. ASSUME UNCHANGED <<bound, grants, effects>>
      PROVE  /\ UNCHANGED <<bound, effects>>
             /\ \A g \in Acted : /\ grants'[g].step = grants[g].step
                                 /\ grants'[g].payload = grants[g].payload
  BY <1>5
<1>6. CASE UNCHANGED vars
  BY <1>5, <1>6 DEF vars, ledger
<1>7. CASE PowerLoss \/ EditPayload
  BY <1>5, <1>7 DEF PowerLoss, EditPayload
<1>8. ASSUME NEW p \in Procs, Start(p) \/ Crash(p)
      PROVE  UNCHANGED <<bound, grants, effects>>
  BY <1>8 DEF Start, StartResume, StartApprove, StartCancel, StartRecover, BeginRecovery, Crash,
              ledger
<1>9. ASSUME NEW p \in Procs, Continue(p), ~Mint(p), ~ConsumeGrant(p), ~VoidGrant(p)
      PROVE  UNCHANGED <<bound, grants, effects>>
  BY <1>9 DEF Continue, Engine, Recovery, Operator, Reload, ReadGraph, Begin, AwaitApproval, PublishRunning,
              Verify, Refuse, WriteReceipt, PublishResult, Finish, ResumeRecovers, BeginRecovery,
              RecoverStep, PublishRecovery, Publish, ledger
<1> QED
  BY <1>1, <1>4, <1>5, <1>6, <1>7, <1>8, <1>9 DEF Next

LEMMA GateExecute ==
    ASSUME LedgerInv, NEW p \in Procs, Execute(p)
    PROVE  \E s \in Steps, v \in Payloads : Gate!Run(s, v)
<1> DEFINE g == GrantAt(proc[p])
           s == grants[g].step
           v == grants[g].payload
<1>1. proc[p].pc = "execute" /\ UNCHANGED ledger
  BY DEF Execute, At
<1>2. proc[p].pc \in DispatchPCs
  BY <1>1 DEF DispatchPCs
<1>3. /\ CurrentGrant(p) = g /\ g \in Grants /\ grants[g] # None /\ grants[g] \in GrantRecord
      /\ DependsOn[s] \subseteq Done
  BY <1>2, DispatchFacts, DoneIsDoneBy
<1>4. effects[g] = "none" /\ Authorised(g, grants, bound)
  BY <1>1, <1>2 DEF LedgerInv, ProcessOK, DispatchOK
<1>5. PICK outcome \in Outcomes \cup {"threw"} : effects' = [effects EXCEPT ![g] = outcome]
  BY <1>3 DEF Execute
<1>6. /\ effects'[g] = outcome
      /\ \A h \in Grants \ {g} : effects'[h] = effects[h]
  BY <1>3, <1>5 DEF LedgerInv, TypeOK
<1>7. s \in Steps /\ v \in Payloads
  BY <1>3 DEF GrantRecord
<1>8. s \in Elevated => <<s, v>> \in ApprovedWork
  <2> SUFFICES ASSUME s \in Elevated
               PROVE  <<s, v>> \in ApprovedWork
    OBVIOUS
  <2>1. /\ grants[g].approval \in Approvals
        /\ bound[grants[g].approval] = [step |-> s, payload |-> v]
    BY <1>3, <1>4 DEF Authorised, GrantRecord
  <2>2. bound[grants[g].approval] # None
    BY <1>7, <2>1, RecordAssumption DEF Binding
  <2> QED
    BY <2>1, <2>2 DEF ApprovedWork
<1>9. UNCHANGED <<ApprovedWork, StepsIn(manifest, {"succeeded"})>>
  BY <1>1 DEF ledger, ApprovedWork, StepsIn
<1>10. grants' = grants
  BY <1>1 DEF ledger
<1> HIDE DEF g
<1>11. Acted' = Acted \cup {g}
  BY <1>3, <1>4, <1>6 DEF Acted, Outcomes
<1>12. RanWork' = RanWork \cup {<<s, v>>}
  BY <1>10, <1>11 DEF RanWork
<1>13. Done' \in {Done, Done \cup {s}}
  BY <1>3, <1>4, <1>6, <1>10 DEF Done
<1> QED
  BY <1>3, <1>7, <1>8, <1>9, <1>12, <1>13 DEF Gate!Run

LEMMA GateApprove ==
    ASSUME LedgerInv, NEW p \in Procs, WriteApproval(p)
    PROVE  \E s \in Steps, v \in Payloads : Gate!Approve(s, v)
<1> DEFINE s == proc[p].step
           v == proc[p].plan[s]
<1>1. proc[p].pc = "approving" /\ UNCHANGED <<manifest, grants, effects>>
  BY DEF WriteApproval, At
<1>2. PICK a \in Approvals :
        bound[a] = None /\ bound' = [bound EXCEPT ![a] = [step |-> s, payload |-> v]]
  BY DEF WriteApproval
<1>3. s \in Elevated /\ s \in Steps /\ v \in Payloads
  BY <1>1, GraphAssumption DEF LedgerInv, ProcessOK, GraphOK
<1> HIDE DEF s, v
<1>4. [step |-> s, payload |-> v] # None
  BY <1>3, RecordAssumption DEF Binding
<1>5. /\ bound'[a] = [step |-> s, payload |-> v]
      /\ \A b \in Approvals \ {a} : bound'[b] = bound[b]
  BY <1>2 DEF LedgerInv, TypeOK
<1>6. {b \in Approvals : bound'[b] # None} = {b \in Approvals : bound[b] # None} \cup {a}
  BY <1>4, <1>5
<1>7. ApprovedWork' = ApprovedWork \cup {<<s, v>>}
  BY <1>2, <1>5, <1>6 DEF ApprovedWork
<1>8. UNCHANGED <<RanWork, Done, StepsIn(manifest, {"succeeded"})>>
  BY <1>1 DEF RanWork, Acted, Done, StepsIn
<1> QED
  BY <1>3, <1>7, <1>8 DEF Gate!Approve

LEMMA GateStep == LedgerInv /\ LedgerInv' /\ [Next]_vars => [Gate!Next]_(Gate!gateVars)
<1> SUFFICES ASSUME LedgerInv, LedgerInv', [Next]_vars
             PROVE  [Gate!Next]_(Gate!gateVars)
  OBVIOUS
<1>1. ASSUME NEW p \in Procs, Execute(p)
      PROVE  Gate!Next
  BY <1>1, GateExecute DEF Gate!Next
<1>2. ASSUME NEW p \in Procs, WriteApproval(p)
      PROVE  Gate!Next
  BY <1>2, GateApprove DEF Gate!Next
<1>3. ASSUME \A p \in Procs : ~Execute(p) /\ ~WriteApproval(p)
      PROVE  Gate!Report
  <2>1. UNCHANGED <<ApprovedWork, RanWork, Done>>
    BY <1>3, OtherSteps, GateUnmoved
  <2>2. (StepsIn(manifest, {"succeeded"}) \subseteq Done)'
    <3>1. ASSUME NEW s \in StepsIn(manifest', {"succeeded"})
          PROVE  s \in Done'
      <4>1. s \in Steps /\ manifest'.steps[s].state = "succeeded" /\ manifest' \in Manifest
        BY DEF StepsIn, LedgerInv, TypeOK
      <4>2. StepTruthful(manifest', s, grants', effects')
        BY <4>1 DEF LedgerInv, Truthful
      <4>3. manifest'.steps[s].receipt \in Grants
        BY <4>1, <4>2, StepType DEF StepTruthful
      <4> QED
        BY <4>1, <4>2, <4>3 DEF StepTruthful, GrantOf, Done
    <3> QED
      BY <3>1 DEF StepsIn
  <2> QED
    BY <2>1, <2>2 DEF Gate!Report
<1> QED
  BY <1>1, <1>2, <1>3 DEF Gate!Next

\* The run service, with its files, grants, crashes and stale copies, behaves as
\* the approval gate.
THEOREM RunServiceImplementsGate == Spec => ImplementsApprovalGate
<1>1. Init => Gate!Init
  BY NewManifestType DEF Init, Gate!Init, ApprovedWork, RanWork, Acted, Done, StepsIn, RunStates
<1>2. LedgerInv /\ LedgerInv' /\ [Next]_vars => [Gate!Next]_(Gate!gateVars)
  BY GateStep
<1> QED
  BY <1>1, <1>2, LedgerHolds, PTL DEF Spec, ImplementsApprovalGate, Gate!Spec

-----------------------------------------------------------------------------
(* Files that can be found torn.  Every step of TornLedger is a step of    *)
(* RunService, a stutter of it, or a command that returns or asks for      *)
(* approval because of what it could not read; the lemmas on returning and *)
(* on asking cover those.                                                  *)

\* p returns, or asks for the approval of s, and no file is written.
TornReturn(p) == Return(p) /\ UNCHANGED <<ledger, effects>>
TornAsk(p, s) == AskFor(p, s) /\ UNCHANGED <<ledger, effects>>

LEMMA TornSteps ==
    ASSUME [TornNext]_tornVars
    PROVE  \/ [Next]_vars
           \/ \E p \in Procs : TornReturn(p)
           \/ \E p \in Procs, s \in Elevated : TornAsk(p, s)
<1>1. ASSUME NEW p \in Procs, Open(p)
      PROVE  UNCHANGED vars
  BY <1>1 DEF Open
<1>2. ASSUME NEW p \in Procs, Write(p)
      PROVE  Continue(p)
  BY <1>2 DEF Write, Continue, Engine, Recovery, Operator
<1>3. ASSUME NEW p \in Procs, Read(p)
      PROVE  \/ Continue(p) \/ Start(p) \/ TornReturn(p)
             \/ \E s \in Elevated : TornAsk(p, s)
  <2>1. CASE ReadManifest(p)
    BY <2>1 DEF ReadManifest, Continue, Engine, Recovery
  <2>2. CASE ReadApproval(p)
    BY <2>2 DEF ReadApproval, TornAsk, Continue, Engine
  <2>3. CASE VerifyRead(p) \/ Alone(p)
    BY <2>3 DEF VerifyRead, Alone, Continue, Engine
  <2>4. CASE RecoverRead(p)
    BY <2>4 DEF RecoverRead, Continue, Recovery
  <2>5. CASE FailToRead(p)
    BY <2>5 DEF FailToRead, TornReturn
  <2> QED
    BY <1>3, <2>1, <2>2, <2>3, <2>4, <2>5 DEF Read
<1>4. ASSUME NEW p \in Procs, TornCrash(p)
      PROVE  Crash(p)
  BY <1>4 DEF TornCrash
<1>5. CASE TornPowerLoss \/ (EditPayload /\ UNCHANGED <<text, open>>)
  BY <1>5 DEF TornPowerLoss, Next
<1>6. CASE UNCHANGED tornVars
  BY <1>6 DEF tornVars
<1> QED
  BY <1>1, <1>2, <1>3, <1>4, <1>5, <1>6 DEF TornNext, Next

LEMMA TornNextInv == LedgerInv /\ [TornNext]_tornVars => LedgerInv'
<1> SUFFICES ASSUME LedgerInv, [TornNext]_tornVars
             PROVE  LedgerInv'
  OBVIOUS
<1>1. CASE [Next]_vars
  BY <1>1, NextInv
<1>2. ASSUME NEW p \in Procs, TornReturn(p)
      PROVE  LedgerInv'
  BY <1>2, MemTruthful, ReturnStep DEF TornReturn, ledger
<1>3. ASSUME NEW p \in Procs, NEW s \in Elevated, TornAsk(p, s)
      PROVE  LedgerInv'
  BY <1>3, AskForInv DEF TornAsk
<1> QED
  BY <1>1, <1>2, <1>3, TornSteps

\* Truncated, garbled and abandoned files mislead no command: what was last
\* written and what every process holds stay tied to what the handlers did.
THEOREM LedgerHoldsTorn == TornSpec => []LedgerInv
<1>1. TornInit => LedgerInv
  BY InitInv DEF TornInit
<1>2. LedgerInv /\ [TornNext]_tornVars => LedgerInv'
  BY TornNextInv
<1> QED
  BY <1>1, <1>2, PTL DEF TornSpec

\* An approval found torn stops a step; it never lets another payload through.
THEOREM OnlyApprovedPayloadsTorn == TornSpec => []ApprovedPayloadOnly
<1>1. LedgerInv => ApprovedPayloadOnly
  BY DEF LedgerInv, EffectsOK, Authorised, ApprovedPayloadOnly, Acted
<1> QED
  BY <1>1, LedgerHoldsTorn, PTL

LEMMA TornGateStep ==
    LedgerInv /\ LedgerInv' /\ [TornNext]_tornVars => [Gate!Next]_(Gate!gateVars)
<1> SUFFICES ASSUME LedgerInv, LedgerInv', [TornNext]_tornVars
             PROVE  [Gate!Next]_(Gate!gateVars)
  OBVIOUS
<1>1. CASE [Next]_vars
  BY <1>1, GateStep
<1>2. CASE UNCHANGED <<ledger, effects>>
  BY <1>2 DEF Gate!gateVars, ApprovedWork, RanWork, Acted, Done, StepsIn, ledger
<1> QED
  BY <1>1, <1>2, TornSteps DEF TornReturn, TornAsk

\* The run service is an approval gate also over files that can be torn.
THEOREM TornLedgerImplementsGate == TornSpec => ImplementsApprovalGate
<1>1. TornInit => Gate!Init
  BY NewManifestType
  DEF TornInit, Init, Gate!Init, ApprovedWork, RanWork, Acted, Done, StepsIn, RunStates
<1>2. LedgerInv /\ LedgerInv' /\ [TornNext]_tornVars => [Gate!Next]_(Gate!gateVars)
  BY TornGateStep
<1> QED
  BY <1>1, <1>2, LedgerHoldsTorn, PTL DEF TornSpec, ImplementsApprovalGate, Gate!Spec

-----------------------------------------------------------------------------
(* A run whose manifest is torn.                                           *)

\* No command goes on without a process, and none starts without the manifest.
LEMMA AbandonedStep ==
    ASSUME Abandoned, [TornNext]_tornVars
    PROVE  Abandoned' /\ UNCHANGED <<manifest, approvals, bound, grants, effects>>
<1> \A p \in Procs : proc[p].pc = "idle"
  BY DEF Abandoned, At
<1>1. ASSUME NEW p \in Procs
      PROVE  ~Open(p) /\ ~Write(p) /\ ~Read(p) /\ ~TornCrash(p)
  <2>1. ~Open(p)
    BY DEF Open, WritesManifest, WritesGrant, WritesApproval, At
  <2>2. ~Write(p)
    BY DEF Write, Begin, PublishRunning, PublishResult, Finish, Publish, PublishRecovery,
           ConsumeGrant, VoidGrant, WriteApproval, At
  <2>3. ~ReadManifest(p) /\ ~ReadApproval(p) /\ ~VerifyRead(p)
    BY DEF Abandoned, ReadManifest, ReadApproval, AwaitApproval, Mint, VerifyRead, Verify, At
  <2>4. ~RecoverRead(p) /\ ~FailToRead(p) /\ ~Alone(p)
    BY DEF RecoverRead, RecoverStep, FailToRead, WritesGrant, Alone, ReadGraph, Refuse, Execute,
           WriteReceipt, At
  <2>5. ~TornCrash(p)
    BY DEF TornCrash, Crash, At
  <2> QED
    BY <2>1, <2>2, <2>3, <2>4, <2>5 DEF Read
<1>2. CASE TornPowerLoss
  <2>1. \A p \in Procs : proc'[p] = Idle
    BY <1>2 DEF TornPowerLoss, PowerLoss
  <2> QED
    BY <1>2, <2>1 DEF TornPowerLoss, PowerLoss, Abandoned, Whole, At, Idle
<1>3. CASE EditPayload /\ UNCHANGED <<text, open>>
  BY <1>3 DEF EditPayload, Abandoned, Whole, At
<1>4. CASE UNCHANGED tornVars
  BY <1>4 DEF tornVars, vars, ledger, Abandoned, Whole, At
<1> QED
  BY <1>1, <1>2, <1>3, <1>4 DEF TornNext

\* A manifest that a crash has torn is never read or written again.
THEOREM TornRunsAreFrozen == TornSpec => TornRunIsFrozen
<1>1. [TornNext]_tornVars =>
        [Abandoned => Abandoned' /\ UNCHANGED <<manifest, approvals, bound, grants, effects>>]_tornVars
  BY AbandonedStep
<1> QED
  BY <1>1, PTL DEF TornSpec, TornRunIsFrozen

-----------------------------------------------------------------------------
(* One command at a time: how the files age, and what an edit of a step's  *)
(* record owes to them.                                                    *)

\* Of the grants of step s, none is newly consumed; a grant that was consumed
\* stays so, and its receipt can only be lost; nothing else is taken back.
Ages(s, ap, gr, rc, ef, ap2, gr2, rc2, ef2) ==
    /\ \A g \in Grants : gr[g] # None => gr2[g] # None /\ gr2[g].step = gr[g].step
    /\ \A g \in Grants : gr[g] # None /\ gr[g].state = "consumed" =>
         gr2[g] = gr[g] /\ rc2[g] \in {rc[g], "none"}
    /\ \A g \in Grants : gr2[g] # None /\ gr2[g].step = s /\ gr2[g].state = "consumed" =>
         gr[g] = gr2[g] /\ (gr2[g].approval = ap2[s] => gr2[g].approval = ap[s])
    /\ \A g \in Grants : ef[g] # "none" => gr[g] # None /\ ef2[g] # "none"

LEMMA AccountAges ==
    ASSUME NEW ap, NEW gr, NEW rc, NEW ef, NEW ap2, NEW gr2, NEW rc2, NEW ef2,
           NEW s \in Steps, NEW st,
           Ages(s, ap, gr, rc, ef, ap2, gr2, rc2, ef2),
           st.grant # None => st.grant \in Grants /\ gr[st.grant] # None,
           StepAccounts(st, s, ap, gr, rc, ef)
    PROVE  StepAccounts(st, s, ap2, gr2, rc2, ef2)
<1>1. ASSUME st.state = "quarantined", st.grant # None
      PROVE  gr2[st.grant].state = "consumed" /\ rc2[st.grant] = "none"
  <2>1. gr[st.grant].state = "consumed" /\ rc[st.grant] = "none"
    BY <1>1 DEF StepAccounts
  <2> QED
    BY <1>1, <2>1 DEF Ages
<1>2. ASSUME NEW g \in Grants, gr2[g] # None, gr2[g].step = s, Consumed(g, ap2, gr2)
      PROVE  /\ gr2[g] = gr[g] /\ Consumed(g, ap, gr)
             /\ rc2[g] \in {rc[g], "none"}
  BY <1>2 DEF Consumed, Ages
<1>3. ASSUME NEW g \in Grants, gr2[g] # None, gr2[g].step = s, OnlyOutcome(g, ap2, gr2, rc2, ef2)
      PROVE  OnlyOutcome(g, ap, gr, rc, ef)
  <2>1. /\ Consumed(g, ap2, gr2) /\ rc2[g] # "none"
        /\ \A h \in Grants \ {g} : ef2[h] # "none" => gr2[h].step # gr2[g].step
    BY <1>3 DEF OnlyOutcome
  <2>2. gr2[g] = gr[g] /\ Consumed(g, ap, gr) /\ rc[g] # "none"
    BY <1>2, <1>3, <2>1
  <2>3. ASSUME NEW h \in Grants \ {g}, ef[h] # "none"
        PROVE  gr[h].step # gr[g].step
    BY <2>1, <2>2, <2>3 DEF Ages
  <2> QED
    BY <2>2, <2>3 DEF OnlyOutcome
<1>4. ASSUME NEW g \in Grants, gr2[g] # None, gr2[g].step = s
      PROVE  /\ OnlyOutcome(g, ap2, gr2, rc2, ef2) => st.receipt = g \/ LeftOpen(st, g)
             /\ Consumed(g, ap2, gr2) =>
                  \/ Replayable(g, gr2, rc2)
                  \/ st.state \in {"succeeded", "failed", "quarantined"}
                  \/ LeftOpen(st, g)
  <2>1. ASSUME OnlyOutcome(g, ap2, gr2, rc2, ef2)
        PROVE  st.receipt = g \/ LeftOpen(st, g)
    <3>1. OnlyOutcome(g, ap, gr, rc, ef)
      BY <1>3, <1>4, <2>1
    <3>2. gr[g] # None /\ gr[g].step = s
      BY <1>2, <1>4, <2>1 DEF OnlyOutcome
    <3> QED
      BY <3>1, <3>2 DEF StepAccounts
  <2>2. ASSUME Consumed(g, ap2, gr2)
        PROVE  \/ Replayable(g, gr2, rc2)
               \/ st.state \in {"succeeded", "failed", "quarantined"}
               \/ LeftOpen(st, g)
    <3>1. /\ gr2[g] = gr[g] /\ Consumed(g, ap, gr)
          /\ rc2[g] \in {rc[g], "none"}
      BY <1>2, <1>4, <2>2
    <3>2. Replayable(g, gr, rc) => Replayable(g, gr2, rc2)
      BY <3>1 DEF Replayable
    <3> QED
      BY <1>4, <3>1, <3>2 DEF StepAccounts
  <2> QED
    BY <2>1, <2>2
<1> QED
  BY <1>1, <1>4 DEF StepAccounts

\* Of the steps that a truthful manifest speaks of.
LEMMA AccountsAge ==
    ASSUME NEW ap, NEW gr, NEW rc, NEW ef, NEW ap2, NEW gr2, NEW rc2, NEW ef2,
           NEW m \in Manifest, Truthful(m, gr, ef),
           \A s \in Steps : Ages(s, ap, gr, rc, ef, ap2, gr2, rc2, ef2),
           Accounts(m, ap, gr, rc, ef)
    PROVE  Accounts(m, ap2, gr2, rc2, ef2)
<1> SUFFICES ASSUME NEW s \in Steps
             PROVE  StepAccounts(m.steps[s], s, ap2, gr2, rc2, ef2)
  BY DEF Accounts
<1>1. m.steps[s].grant # None => m.steps[s].grant \in Grants /\ gr[m.steps[s].grant] # None
  BY StepType DEF Truthful, StepTruthful, GrantOf
<1> QED
  BY <1>1, AccountAges DEF Accounts

LEMMA AccountsEdit ==
    ASSUME NEW ap, NEW gr, NEW rc, NEW ef, NEW m, NEW m2, NEW s \in Steps,
           Accounts(m, ap, gr, rc, ef),
           StepAccounts(m2.steps[s], s, ap, gr, rc, ef),
           \A t \in Steps \ {s} : m2.steps[t] = m.steps[t]
    PROVE  Accounts(m2, ap, gr, rc, ef)
BY DEF Accounts

\* A pending step may be asked for or granted.
LEMMA PendingAccounts ==
    ASSUME NEW ap, NEW gr, NEW rc, NEW ef, NEW s \in Steps, NEW st, NEW st2,
           StepAccounts(st, s, ap, gr, rc, ef), st.state = "pending",
           st2.receipt = st.receipt, st2.state # "quarantined"
    PROVE  StepAccounts(st2, s, ap, gr, rc, ef)
BY DEF StepAccounts, LeftOpen

\* An unfinished step may be published as running, or cancelled.
LEMMA UnfinishedAccounts ==
    ASSUME NEW ap, NEW gr, NEW rc, NEW ef, NEW s \in Steps, NEW st, NEW st2,
           StepAccounts(st, s, ap, gr, rc, ef),
           st.state \notin {"succeeded", "failed", "quarantined"},
           st2.receipt = st.receipt, st2.grant = st.grant,
           st2.state \in {"running", "cancelled"}
    PROVE  StepAccounts(st2, s, ap, gr, rc, ef)
BY DEF StepAccounts, LeftOpen

\* A receipt may always be reported: it tells what a handler did.
LEMMA ReportedAccounts ==
    ASSUME NEW ap, NEW gr, NEW rc, NEW ef, NEW s \in Steps, NEW st, NEW h \in Grants,
           gr[h].step = s, ef[h] # "none", st.receipt = h, st.state \in Outcomes
    PROVE  StepAccounts(st, s, ap, gr, rc, ef)
<1>1. ASSUME NEW g \in Grants, gr[g].step = s, OnlyOutcome(g, ap, gr, rc, ef)
      PROVE  g = h
  BY <1>1 DEF OnlyOutcome
<1> QED
  BY <1>1 DEF StepAccounts, Outcomes

\* A step that is approved anew starts anew.
LEMMA RenewedAccounts ==
    ASSUME NEW ap, NEW gr, NEW rc, NEW ef, NEW s \in Steps, NEW st,
           \A g \in Grants : gr[g] # None /\ gr[g].step = s => ~Consumed(g, ap, gr),
           st.state # "quarantined"
    PROVE  StepAccounts(st, s, ap, gr, rc, ef)
BY DEF StepAccounts, OnlyOutcome

\* What recovery makes of an interrupted step that holds no consumed grant:
\* whatever else was consumed may be replayed.
LEMMA UnusedAccounts ==
    ASSUME NEW ap, NEW gr, NEW rc, NEW ef, NEW s \in Steps, NEW st, NEW st2,
           StepAccounts(st, s, ap, gr, rc, ef),
           st.state \in {"grant_issued", "running", "cancelled"},
           st.grant # None => gr[st.grant].state # "consumed",
           st2.receipt = st.receipt,
           st2.state = "quarantined" => st2.grant = None
    PROVE  StepAccounts(st2, s, ap, gr, rc, ef)
<1>1. ASSUME NEW g \in Grants, gr[g] # None, gr[g].step = s, Consumed(g, ap, gr)
      PROVE  /\ Replayable(g, gr, rc)
             /\ OnlyOutcome(g, ap, gr, rc, ef) => st2.receipt = g
  <2>1. g # None /\ gr[g].state = "consumed"
    BY <1>1, GrantIdAssumption DEF Consumed
  <2>2. ~LeftOpen(st, g)
    BY <2>1 DEF LeftOpen
  <2> QED
    BY <1>1, <2>2 DEF StepAccounts
<1> QED
  BY <1>1 DEF StepAccounts, OnlyOutcome

\* ... and of one whose grant is consumed and whose receipt is lost.
LEMMA LostAccounts ==
    ASSUME NEW ap, NEW gr, NEW rc, NEW ef, NEW s \in Steps, NEW st, NEW st2,
           StepAccounts(st, s, ap, gr, rc, ef),
           st.state \in {"grant_issued", "running", "cancelled"},
           gr[st.grant].state = "consumed", gr[st.grant].step = s, rc[st.grant] = "none",
           st2.receipt = st.receipt,
           \/ st2.state = "quarantined" /\ st2.grant = st.grant
           \/ st2.state = "pending" /\ ~ReviewRequired(s)
    PROVE  StepAccounts(st2, s, ap, gr, rc, ef)
<1>1. ASSUME NEW g \in Grants, gr[g] # None, gr[g].step = s, Consumed(g, ap, gr)
      PROVE  Replayable(g, gr, rc) \/ st2.state = "quarantined"
  <2>1. Replayable(g, gr, rc) \/ LeftOpen(st, g)
    BY <1>1 DEF StepAccounts
  <2> QED
    BY <2>1 DEF LeftOpen, Replayable
<1>2. ASSUME NEW g \in Grants, gr[g] # None, gr[g].step = s, OnlyOutcome(g, ap, gr, rc, ef)
      PROVE  st2.receipt = g
  <2>1. ~LeftOpen(st, g)
    BY <1>2 DEF LeftOpen, OnlyOutcome
  <2> QED
    BY <1>2, <2>1 DEF StepAccounts
<1> QED
  BY <1>1, <1>2 DEF StepAccounts

\* A consumed grant whose receipt recovery does not find has lost it.
LEMMA NotFoundIsLost ==
    ASSUME ReceiptsAreNamed(grants), NEW st, FoundReceipt(st) = None,
           st.grant \in Grants, grants[st.grant] # None, grants[st.grant].state = "consumed"
    PROVE  receipts[st.grant] = "none"
<1>1. st.grant # None /\ grants[st.grant].receipt = st.grant
  BY GrantIdAssumption DEF ReceiptsAreNamed
<1>2. Readable(st.receipt) => st.receipt # None
  BY GrantIdAssumption DEF Readable
<1> QED
  BY <1>1, <1>2 DEF FoundReceipt, Readable

-----------------------------------------------------------------------------
(* One command at a time: the steps that write no file but the manifest.   *)

LEMMA AloneFacts ==
    ASSUME SequentialInv, NEW p \in Procs
    PROVE  /\ LedgerInv
           /\ proc \in [Procs -> Process]
           /\ proc[p] \in Process /\ proc[p].mem \in Manifest
           /\ manifest \in Manifest
           /\ ReceiptsAreNamed(grants)
           /\ Accounts(manifest, approvals, grants, receipts, effects)
           /\ RestIsSettled(manifest)
           /\ AloneOK(proc[p], manifest, approvals, grants, receipts, effects)
BY MemTruthful DEF SequentialInv, LedgerInv, TypeOK

LEMMA SequentialStep ==
    ASSUME OneAtATime, LedgerInv', NEW p \in Procs, NEW r,
           proc \in [Procs -> Process], proc' = [proc EXCEPT ![p] = r],
           ReceiptsAreNamed(grants'),
           Accounts(manifest', approvals', grants', receipts', effects'),
           RestIsSettled(manifest'),
           AloneOK(r, manifest', approvals', grants', receipts', effects')
    PROVE  SequentialInv'
<1>1. \A q \in Procs : proc'[q] = r
  BY DEF OneAtATime
<1> QED
  BY <1>1 DEF SequentialInv

LEMMA IdleAlone ==
    ASSUME NEW m, NEW ap, NEW gr, NEW rc, NEW ef
    PROVE  AloneOK(Idle, m, ap, gr, rc, ef)
BY IdleType DEF AloneOK, MemoryIsCurrent, RunStateOK, OneStepOpen, GrantHeld, HoldingPCs, DispatchPCs

\* A command that changes no grant, receipt or approval.
LEMMA QuietSequentialStep ==
    ASSUME OneAtATime, SequentialInv, LedgerInv', NEW p \in Procs, NEW r,
           proc' = [proc EXCEPT ![p] = r],
           UNCHANGED <<approvals, grants, receipts, effects>>,
           Accounts(manifest', approvals, grants, receipts, effects),
           RestIsSettled(manifest'),
           AloneOK(r, manifest', approvals, grants, receipts, effects)
    PROVE  SequentialInv'
BY AloneFacts, SequentialStep

LEMMA QuietReturn ==
    ASSUME OneAtATime, SequentialInv, LedgerInv', NEW p \in Procs, Return(p),
           UNCHANGED <<approvals, grants, receipts, effects>>,
           Accounts(manifest', approvals, grants, receipts, effects),
           RestIsSettled(manifest')
    PROVE  SequentialInv'
BY IdleAlone, QuietSequentialStep DEF Return

\* A process that has read the manifest and not yet edited it.
LEMMA ReadingAlone ==
    ASSUME NEW m, NEW ap, NEW gr, NEW rc, NEW ef, NEW r,
           r.pc \in {"recover", "reload", "begin", "start", "approve", "approving"},
           r.mem = m, Accounts(m, ap, gr, rc, ef),
           r.pc = "recover" => m.state = "running",
           r.pc \in {"reload", "begin", "start"} =>
             m.state \notin {"running", "cancelled", "rejected"}
    PROVE  AloneOK(r, m, ap, gr, rc, ef)
BY DEF AloneOK, MemoryIsCurrent, RunStateOK, OneStepOpen, GrantHeld, HoldingPCs, DispatchPCs

LEMMA InspectAlone ==
    ASSUME NEW m, NEW ap, NEW gr, NEW rc, NEW ef, NEW r,
           r.pc = "inspect", Accounts(r.mem, ap, gr, rc, ef)
    PROVE  AloneOK(r, m, ap, gr, rc, ef)
BY DEF AloneOK, MemoryIsCurrent, RunStateOK, OneStepOpen, GrantHeld, HoldingPCs, DispatchPCs

LEMMA PublishAlone ==
    ASSUME NEW m, NEW ap, NEW gr, NEW rc, NEW ef, NEW r,
           r.pc = "publish", Accounts(r.mem, ap, gr, rc, ef), RestIsSettled(r.mem),
           m.state \in {"cancelled", "rejected"} => r.mem.state = m.state
    PROVE  AloneOK(r, m, ap, gr, rc, ef)
BY DEF AloneOK, MemoryIsCurrent, RunStateOK, OneStepOpen, GrantHeld, HoldingPCs, DispatchPCs

LEMMA LoopAlone ==
    ASSUME NEW m, NEW ap, NEW gr, NEW rc, NEW ef, NEW r,
           r.pc = "loop", r.mem = m, Accounts(m, ap, gr, rc, ef),
           m.state = "running", AllSettled(m), \A s \in r.todo : m.steps[s].state = "pending"
    PROVE  AloneOK(r, m, ap, gr, rc, ef)
BY DEF AloneOK, MemoryIsCurrent, RunStateOK, OneStepOpen, GrantHeld, HoldingPCs, DispatchPCs

LEMMA HoldingAlone ==
    ASSUME NEW m, NEW ap, NEW gr, NEW rc, NEW ef, NEW r,
           r.pc \in HoldingPCs, r.pc # "minted" => r.mem = m,
           Accounts(r.mem, ap, gr, rc, ef), m.state = "running",
           r.mem.steps[r.step].state \in {"grant_issued", "running"},
           \A s \in Steps \ {r.step} : Settled(r.mem, s),
           \A s \in r.todo : r.mem.steps[s].state = "pending",
           gr[GrantAt(r)].state = "issued", gr[GrantAt(r)].approval = ap[r.step]
    PROVE  AloneOK(r, m, ap, gr, rc, ef)
<1>1. r.pc \in {"minted", "verify", "execute", "receipt", "consume"}
  BY DEF HoldingPCs, DispatchPCs
<1>2. MemoryIsCurrent(r, m)
  BY <1>1 DEF MemoryIsCurrent
<1>3. RunStateOK(r, m)
  BY <1>1 DEF RunStateOK
<1>4. OneStepOpen(r)
  BY <1>1 DEF OneStepOpen
<1>5. GrantHeld(r, ap, gr)
  BY DEF GrantHeld
<1> QED
  BY <1>2, <1>3, <1>4, <1>5 DEF AloneOK

LEMMA AccountsRun ==
    ASSUME NEW ap, NEW gr, NEW rc, NEW ef, NEW m \in Manifest, NEW v \in RunStates,
           Accounts(m, ap, gr, rc, ef)
    PROVE  Accounts(WithRun(m, v), ap, gr, rc, ef)
BY WithRunType DEF Accounts

LEMMA SettledRun ==
    ASSUME NEW m \in Manifest, NEW v \in RunStates, AllSettled(m)
    PROVE  AllSettled(WithRun(m, v))
BY WithRunType DEF AllSettled, Settled

LEMMA StartResumeAlone ==
    ASSUME OneAtATime, SequentialInv, LedgerInv', NEW p \in Procs, StartResume(p)
    PROVE  SequentialInv'
<1> DEFINE r == [Idle EXCEPT !.pc = IF manifest.state = "running" THEN "recover" ELSE "begin",
                             !.task = "resume", !.mem = manifest]
<1>1. /\ proc' = [proc EXCEPT ![p] = r]
      /\ UNCHANGED <<ledger, effects>>
      /\ manifest.state \notin {"cancelled", "rejected"}
  BY DEF StartResume, Resumable
<1>2. /\ r.pc = IF manifest.state = "running" THEN "recover" ELSE "begin"
      /\ r.mem = manifest
  BY DEF Idle
<1> HIDE DEF r
<1>3. AloneOK(r, manifest, approvals, grants, receipts, effects)
  BY <1>1, <1>2, AloneFacts, ReadingAlone
<1> QED
  BY <1>1, <1>3, AloneFacts, QuietSequentialStep DEF ledger

LEMMA ReloadAlone ==
    ASSUME OneAtATime, SequentialInv, LedgerInv', NEW p \in Procs, Reload(p)
    PROVE  SequentialInv'
<1>1. UNCHANGED <<ledger, effects>> /\ proc[p].pc = "reload"
  BY DEF Reload, At
<1>2. CASE Return(p)
  BY <1>1, <1>2, AloneFacts, QuietReturn DEF ledger
<1>3. CASE ~Return(p)
  <2> DEFINE r == [proc[p] EXCEPT !.pc = "begin", !.mem = manifest]
  <2>1. proc' = [proc EXCEPT ![p] = r]
    BY <1>3 DEF Reload
  <2>2. r.pc = "begin" /\ r.mem = manifest
    BY AloneFacts DEF Process
  <2> HIDE DEF r
  <2>3. manifest.state \notin {"running", "cancelled", "rejected"}
    BY <1>1, AloneFacts DEF AloneOK, RunStateOK
  <2>4. AloneOK(r, manifest, approvals, grants, receipts, effects)
    BY <2>2, <2>3, AloneFacts, ReadingAlone
  <2> QED
    BY <1>1, <2>1, <2>4, AloneFacts, QuietSequentialStep DEF ledger
<1> QED
  BY <1>2, <1>3

LEMMA ReadGraphAlone ==
    ASSUME OneAtATime, SequentialInv, LedgerInv', NEW p \in Procs, ReadGraph(p)
    PROVE  SequentialInv'
<1> DEFINE pc == IF At(p, "begin") THEN "start" ELSE "approving"
           r  == [proc[p] EXCEPT !.pc = pc, !.plan = payload]
<1>1. /\ proc[p].pc \in {"begin", "approve"}
      /\ proc' = [proc EXCEPT ![p] = r]
      /\ UNCHANGED <<ledger, effects>>
  BY DEF ReadGraph
<1>2. pc = IF proc[p].pc = "begin" THEN "start" ELSE "approving"
  BY DEF At
<1> HIDE DEF pc
<1>3. r.pc = pc /\ r.mem = proc[p].mem
  BY AloneFacts DEF Process
<1> HIDE DEF r
<1>4. /\ proc[p].mem = manifest
      /\ proc[p].pc = "begin" => manifest.state \notin {"running", "cancelled", "rejected"}
  BY <1>1, AloneFacts DEF AloneOK, MemoryIsCurrent, RunStateOK
<1>5. AloneOK(r, manifest, approvals, grants, receipts, effects)
  BY <1>1, <1>2, <1>3, <1>4, AloneFacts, ReadingAlone
<1> QED
  BY <1>1, <1>5, AloneFacts, QuietSequentialStep DEF ledger

LEMMA BeginAlone ==
    ASSUME OneAtATime, SequentialInv, LedgerInv', NEW p \in Procs, Begin(p)
    PROVE  SequentialInv'
<1> DEFINE m == WithRun(proc[p].mem, "running")
           r == [proc[p] EXCEPT !.pc = "loop", !.mem = m, !.todo = Runnable(m)]
<1>1. /\ proc[p].pc = "start"
      /\ manifest' = m
      /\ proc' = [proc EXCEPT ![p] = r]
      /\ UNCHANGED <<payload, approvals, bound, grants, receipts, effects>>
  BY DEF Begin, At
<1>2. proc[p].mem = manifest /\ AllSettled(manifest)
  BY <1>1, AloneFacts DEF AloneOK, MemoryIsCurrent, RunStateOK, RestIsSettled
<1>3. /\ m.state = "running" /\ AllSettled(m)
      /\ Accounts(m, approvals, grants, receipts, effects)
  BY <1>2, AloneFacts, WithRunType, AccountsRun, SettledRun DEF RunStates
<1>4. \A s \in Runnable(m) : m.steps[s].state = "pending"
  BY DEF Runnable, StepsIn
<1> HIDE DEF m
<1>5. r.pc = "loop" /\ r.mem = m /\ r.todo = Runnable(m)
  BY AloneFacts DEF Process
<1> HIDE DEF r
<1>6. AloneOK(r, m, approvals, grants, receipts, effects)
  BY <1>3, <1>4, <1>5, LoopAlone
<1>7. RestIsSettled(m)
  BY <1>3 DEF RestIsSettled
<1> QED
  BY <1>1, <1>3, <1>6, <1>7, QuietSequentialStep

LEMMA AskForAlone ==
    ASSUME OneAtATime, SequentialInv, LedgerInv', NEW p \in Procs, AwaitApproval(p)
    PROVE  SequentialInv'
<1>1. PICK s \in Elevated : First(proc[p].todo, s) /\ AskFor(p, s)
  BY DEF AwaitApproval
<1>2. proc[p].pc = "loop" /\ UNCHANGED <<ledger, effects>>
  BY DEF AwaitApproval, At
<1> DEFINE m0 == proc[p].mem
           m1 == WithStep(m0, s, "awaiting_approval")
           m2 == WithRun(m1, "awaiting_approval")
           r  == [proc[p] EXCEPT !.pc = "publish", !.mem = m2]
<1>3. proc' = [proc EXCEPT ![p] = r]
  BY <1>1 DEF AskFor
<1>4. s \in Steps /\ s \in proc[p].todo
  BY <1>1, GraphAssumption DEF First
<1>5. /\ m0 \in Manifest /\ m0.steps[s].state = "pending" /\ AllSettled(m0)
      /\ Accounts(m0, approvals, grants, receipts, effects)
      /\ manifest.state = "running"
  BY <1>2, <1>4, AloneFacts DEF AloneOK, OneStepOpen, RunStateOK
<1> HIDE DEF m0
<1>6. /\ m1 \in Manifest /\ m1.steps[s].state = "awaiting_approval"
      /\ m1.steps[s].receipt = m0.steps[s].receipt
      /\ \A t \in Steps \ {s} : m1.steps[t] = m0.steps[t]
  BY <1>4, <1>5, WithStepType DEF StepStates
<1> HIDE DEF m1
<1>7. Accounts(m1, approvals, grants, receipts, effects)
  <2>1. StepAccounts(m0.steps[s], s, approvals, grants, receipts, effects)
    BY <1>4, <1>5 DEF Accounts
  <2>2. StepAccounts(m1.steps[s], s, approvals, grants, receipts, effects)
    BY <1>4, <1>5, <1>6, <2>1, PendingAccounts
  <2> QED
    BY <1>4, <1>5, <1>6, <2>2, AccountsEdit
<1>8. AllSettled(m1)
  BY <1>5, <1>6 DEF AllSettled, Settled
<1>9. Accounts(m2, approvals, grants, receipts, effects) /\ AllSettled(m2)
  BY <1>6, <1>7, <1>8, AccountsRun, SettledRun DEF RunStates
<1> HIDE DEF m2
<1>10. r.pc = "publish" /\ r.mem = m2
  BY AloneFacts DEF Process
<1> HIDE DEF r
<1>11. AloneOK(r, manifest, approvals, grants, receipts, effects)
  BY <1>5, <1>9, <1>10, PublishAlone DEF RestIsSettled
<1> QED
  BY <1>2, <1>3, <1>11, AloneFacts, QuietSequentialStep DEF ledger

\* What holds of the process between the minting of a grant and its consumption.
LEMMA HoldingFacts ==
    ASSUME SequentialInv, NEW p \in Procs, proc[p].pc \in HoldingPCs
    PROVE  /\ proc[p].pc # "minted" => proc[p].mem = manifest
           /\ Accounts(proc[p].mem, approvals, grants, receipts, effects)
           /\ manifest.state = "running"
           /\ proc[p].mem.steps[proc[p].step].state \in {"grant_issued", "running"}
           /\ \A s \in Steps \ {proc[p].step} : Settled(proc[p].mem, s)
           /\ \A s \in proc[p].todo : proc[p].mem.steps[s].state = "pending"
           /\ grants[GrantAt(proc[p])].state = "issued"
           /\ grants[GrantAt(proc[p])].approval = approvals[proc[p].step]
           /\ proc[p].pc \in DispatchPCs
<1>1. AloneOK(proc[p], manifest, approvals, grants, receipts, effects)
  BY AloneFacts
<1>2. proc[p].pc \in {"minted", "verify", "execute", "receipt", "consume"}
  BY DEF HoldingPCs, DispatchPCs
<1>3. proc[p].pc # "minted" => proc[p].mem = manifest
  BY <1>1, <1>2 DEF AloneOK, MemoryIsCurrent
<1>4. Accounts(proc[p].mem, approvals, grants, receipts, effects)
  BY <1>1, <1>2 DEF AloneOK
<1>5. manifest.state = "running"
  BY <1>1, <1>2 DEF AloneOK, RunStateOK, DispatchPCs
<1>6. /\ proc[p].mem.steps[proc[p].step].state \in {"grant_issued", "running"}
      /\ \A s \in Steps \ {proc[p].step} : Settled(proc[p].mem, s)
      /\ \A s \in proc[p].todo : proc[p].mem.steps[s].state = "pending"
  BY <1>1, <1>2 DEF AloneOK, OneStepOpen, HoldingPCs, DispatchPCs
<1>7. /\ grants[GrantAt(proc[p])].state = "issued"
      /\ grants[GrantAt(proc[p])].approval = approvals[proc[p].step]
  BY <1>1 DEF AloneOK, GrantHeld
<1> QED
  BY <1>2, <1>3, <1>4, <1>5, <1>6, <1>7 DEF DispatchPCs

LEMMA PublishRunningAlone ==
    ASSUME OneAtATime, SequentialInv, LedgerInv', NEW p \in Procs, PublishRunning(p)
    PROVE  SequentialInv'
<1> DEFINE m0 == proc[p].mem
           s == proc[p].step
           m == WithStep(m0, s, "running")
           r == [proc[p] EXCEPT !.pc = "verify", !.mem = m]
<1>1. /\ proc[p].pc = "minted"
      /\ manifest' = m
      /\ proc' = [proc EXCEPT ![p] = r]
      /\ UNCHANGED <<payload, approvals, bound, grants, receipts, effects>>
  BY DEF PublishRunning, At
<1>2. proc[p].pc \in HoldingPCs
  BY <1>1 DEF HoldingPCs, DispatchPCs
<1>3. /\ m0 \in Manifest /\ s \in Steps /\ m0.state = "running"
      /\ Accounts(m0, approvals, grants, receipts, effects)
      /\ m0.steps[s].state \in {"grant_issued", "running"}
      /\ \A t \in Steps \ {s} : Settled(m0, t)
      /\ \A t \in proc[p].todo : m0.steps[t].state = "pending"
      /\ grants[GrantAt(proc[p])].state = "issued"
      /\ grants[GrantAt(proc[p])].approval = approvals[s]
      /\ proc[p].todo \subseteq Steps
  BY <1>2, HoldingFacts, AloneFacts, DispatchFacts DEF Process
<1>4. GrantAt(proc[p]) = m0.steps[s].grant
  BY DEF GrantAt
<1> HIDE DEF m0, s
<1>5. /\ m \in Manifest /\ m.steps[s].state = "running" /\ m.state = "running"
      /\ m.steps[s].receipt = m0.steps[s].receipt
      /\ m.steps[s].grant = m0.steps[s].grant
      /\ \A t \in Steps \ {s} : m.steps[t] = m0.steps[t]
  <2>1. "running" \in StepStates
    BY DEF StepStates
  <2>2. m0 \in Manifest /\ s \in Steps /\ m0.state = "running"
    BY <1>3
  <2> QED
    BY <2>1, <2>2, WithStepType
<1> HIDE DEF m
<1>6. Accounts(m, approvals, grants, receipts, effects)
  <2>1. StepAccounts(m0.steps[s], s, approvals, grants, receipts, effects)
    BY <1>3 DEF Accounts
  <2>2. StepAccounts(m.steps[s], s, approvals, grants, receipts, effects)
    BY <1>3, <1>5, <2>1, UnfinishedAccounts
  <2> QED
    BY <1>3, <1>5, <2>2, AccountsEdit
<1>7. r.pc = "verify" /\ r.mem = m /\ r.step = s /\ r.todo = proc[p].todo
  BY AloneFacts DEF Process, s
<1> HIDE DEF r
<1>8. GrantAt(r) = GrantAt(proc[p])
  BY <1>4, <1>5, <1>7 DEF GrantAt
<1>9. \A t \in Steps \ {r.step} : Settled(r.mem, t)
  BY <1>3, <1>5, <1>7 DEF Settled
<1>10. \A t \in r.todo : r.mem.steps[t].state = "pending"
  BY <1>3, <1>5, <1>7
<1>11. AloneOK(r, m, approvals, grants, receipts, effects)
  BY <1>3, <1>5, <1>6, <1>7, <1>8, <1>9, <1>10, HoldingAlone DEF HoldingPCs, DispatchPCs
<1>12. RestIsSettled(m)
  BY <1>5 DEF RestIsSettled
<1> QED
  BY <1>1, <1>6, <1>11, <1>12, QuietSequentialStep

LEMMA VerifyAlone ==
    ASSUME OneAtATime, SequentialInv, LedgerInv', NEW p \in Procs, Verify(p)
    PROVE  SequentialInv'
<1> DEFINE r == [proc[p] EXCEPT !.pc = "execute"]
<1>1. /\ proc[p].pc = "verify"
      /\ proc' = [proc EXCEPT ![p] = r]
      /\ UNCHANGED <<ledger, effects>>
  BY DEF Verify, At
<1>2. /\ r.pc = "execute" /\ r.mem = proc[p].mem /\ r.step = proc[p].step
      /\ r.todo = proc[p].todo
  BY AloneFacts DEF Process
<1> HIDE DEF r
<1>3. GrantAt(r) = GrantAt(proc[p]) /\ {proc[p].pc, r.pc} \subseteq HoldingPCs
  BY <1>1, <1>2 DEF GrantAt, HoldingPCs, DispatchPCs
<1>4. AloneOK(r, manifest, approvals, grants, receipts, effects)
  BY <1>1, <1>2, <1>3, HoldingFacts, HoldingAlone
<1> QED
  BY <1>1, <1>4, AloneFacts, QuietSequentialStep DEF ledger

\* A command that gives up or is killed leaves every file as it is.
LEMMA AbandonAlone ==
    ASSUME OneAtATime, SequentialInv, LedgerInv', NEW p \in Procs, Refuse(p) \/ Crash(p)
    PROVE  SequentialInv'
<1>1. Return(p) /\ UNCHANGED <<ledger, effects>>
  BY DEF Refuse, Crash
<1> QED
  BY <1>1, AloneFacts, QuietReturn DEF ledger

LEMMA PublishResultAlone ==
    ASSUME OneAtATime, SequentialInv, LedgerInv', NEW p \in Procs, PublishResult(p)
    PROVE  SequentialInv'
<1> DEFINE m0 == proc[p].mem
           failed == m0.steps[proc[p].step].state = "failed"
<1>1. /\ proc[p].pc = "settle"
      /\ UNCHANGED <<payload, approvals, bound, grants, receipts, effects>>
  BY DEF PublishResult, At
<1>2. /\ m0 \in Manifest /\ AllSettled(m0) /\ m0.state = "running"
      /\ Accounts(m0, approvals, grants, receipts, effects)
      /\ \A t \in proc[p].todo : m0.steps[t].state = "pending"
  BY <1>1, AloneFacts, DispatchFacts DEF AloneOK, OneStepOpen, DispatchPCs
<1>3. CASE failed
  <2>1. manifest' = WithRun(m0, "failed") /\ Return(p)
    BY <1>3 DEF PublishResult
  <2> HIDE DEF m0
  <2>2. Accounts(manifest', approvals, grants, receipts, effects) /\ AllSettled(manifest')
    BY <1>2, <2>1, AccountsRun, SettledRun DEF RunStates
  <2> QED
    BY <1>1, <2>1, <2>2, QuietReturn DEF RestIsSettled
<1>4. CASE ~failed
  <2> DEFINE r == [proc[p] EXCEPT !.pc = "loop", !.step = None,
                                  !.todo = NextPass(proc[p].todo, m0)]
  <2>1. manifest' = m0 /\ proc' = [proc EXCEPT ![p] = r]
    BY <1>4 DEF PublishResult
  <2>2. \A t \in NextPass(proc[p].todo, m0) : m0.steps[t].state = "pending"
    BY <1>2 DEF NextPass, Runnable, StepsIn
  <2>3. r.pc = "loop" /\ r.mem = m0 /\ r.todo = NextPass(proc[p].todo, m0)
    BY AloneFacts DEF Process
  <2> HIDE DEF r, m0
  <2>4. AloneOK(r, m0, approvals, grants, receipts, effects)
    BY <1>2, <2>2, <2>3, LoopAlone
  <2>5. RestIsSettled(m0)
    BY <1>2 DEF RestIsSettled
  <2> QED
    BY <1>1, <1>2, <2>1, <2>4, <2>5, QuietSequentialStep
<1> QED
  BY <1>3, <1>4

\* The writes after which a command returns.
LEMMA FinishAlone ==
    ASSUME OneAtATime, SequentialInv, LedgerInv', NEW p \in Procs, Finish(p) \/ Publish(p)
    PROVE  SequentialInv'
<1>1. /\ Return(p)
      /\ UNCHANGED <<payload, approvals, bound, grants, receipts, effects>>
  BY DEF Finish, Publish
<1>2. Accounts(manifest', approvals, grants, receipts, effects) /\ RestIsSettled(manifest')
  <2>1. CASE Finish(p)
    <3> DEFINE m0 == proc[p].mem
    <3>1. proc[p].pc = "loop" /\ manifest' = WithRun(m0, FinalRunState(m0))
      BY <2>1 DEF Finish, At
    <3>2. /\ m0 \in Manifest /\ AllSettled(m0)
          /\ Accounts(m0, approvals, grants, receipts, effects)
      BY <3>1, AloneFacts DEF AloneOK, OneStepOpen
    <3> HIDE DEF m0
    <3>3. FinalRunState(m0) \in RunStates
      BY <3>2, DerivedType
    <3> QED
      BY <3>1, <3>2, <3>3, AccountsRun, SettledRun DEF RestIsSettled
  <2>2. CASE Publish(p)
    BY <2>2, AloneFacts DEF Publish, At, AloneOK, RunStateOK
  <2> QED
    BY <2>1, <2>2
<1> QED
  BY <1>1, <1>2, QuietReturn

LEMMA StartApproveAlone ==
    ASSUME OneAtATime, SequentialInv, LedgerInv', NEW p \in Procs, StartApprove(p)
    PROVE  SequentialInv'
<1>1. UNCHANGED <<ledger, effects>>
  BY DEF StartApprove
<1>2. PICK s \in Elevated :
        proc' = [proc EXCEPT ![p] = [Idle EXCEPT !.pc = "approve", !.task = "approve",
                                                 !.mem = manifest, !.step = s]]
  BY DEF StartApprove
<1> DEFINE r == [Idle EXCEPT !.pc = "approve", !.task = "approve", !.mem = manifest, !.step = s]
<1>3. r.pc = "approve" /\ r.mem = manifest
  BY DEF Idle
<1>4. proc' = [proc EXCEPT ![p] = r]
  BY <1>2
<1> HIDE DEF r
<1>5. AloneOK(r, manifest, approvals, grants, receipts, effects)
  <2>1. Accounts(manifest, approvals, grants, receipts, effects)
    BY AloneFacts
  <2>2. /\ r.pc \in {"recover", "reload", "begin", "start", "approve", "approving"}
        /\ r.pc \notin {"recover", "reload", "begin", "start"}
    BY <1>3
  <2> QED
    BY <1>3, <2>1, <2>2, ReadingAlone
<1> QED
  BY <1>1, <1>4, <1>5, AloneFacts, QuietSequentialStep DEF ledger

LEMMA StartCancelAlone ==
    ASSUME OneAtATime, SequentialInv, LedgerInv', NEW p \in Procs, StartCancel(p)
    PROVE  SequentialInv'
<1> DEFINE m == Cancelled(manifest)
           r == [Idle EXCEPT !.pc = "publish", !.task = "cancel", !.mem = m]
<1>1. /\ UNCHANGED <<ledger, effects>>
      /\ proc' = [proc EXCEPT ![p] = r]
      /\ manifest.state \notin {"cancelled", "rejected"}
  BY DEF StartCancel, Cancellable
<1>2. /\ m.state = "cancelled"
      /\ \A s \in Steps :
           /\ m.steps[s].grant = manifest.steps[s].grant
           /\ m.steps[s].receipt = manifest.steps[s].receipt
           /\ \/ m.steps[s] = manifest.steps[s]
              \/ /\ m.steps[s].state = "cancelled"
                 /\ manifest.steps[s].state \notin {"succeeded", "failed", "quarantined"}
  <2>1. manifest \in Manifest
    BY AloneFacts
  <2>2. m.state = "cancelled"
    BY DEF Cancelled
  <2>3. ASSUME NEW s \in Steps
        PROVE  m.steps[s] = IF s \in StepsIn(manifest, {"pending", "awaiting_approval", "grant_issued",
                                                        "running"})
                            THEN [manifest.steps[s] EXCEPT !.state = "cancelled"]
                            ELSE manifest.steps[s]
    BY <2>3 DEF Cancelled
  <2>4. ASSUME NEW s \in Steps
        PROVE  /\ m.steps[s].grant = manifest.steps[s].grant
               /\ m.steps[s].receipt = manifest.steps[s].receipt
               /\ \/ m.steps[s] = manifest.steps[s]
                  \/ /\ m.steps[s].state = "cancelled"
                     /\ manifest.steps[s].state \notin {"succeeded", "failed", "quarantined"}
    <3>1. CASE s \in StepsIn(manifest, {"pending", "awaiting_approval", "grant_issued", "running"})
      <4>1. m.steps[s] = [manifest.steps[s] EXCEPT !.state = "cancelled"]
        BY <2>3, <3>1
      <4>2. manifest.steps[s] \in StepManifest
        BY <2>1, StepType
      <4> QED
        BY <3>1, <4>1, <4>2 DEF StepsIn, StepManifest
    <3>2. CASE s \notin StepsIn(manifest, {"pending", "awaiting_approval", "grant_issued", "running"})
      BY <2>3, <3>2
    <3> QED
      BY <3>1, <3>2
  <2> QED
    BY <2>2, <2>4
<1> HIDE DEF m
<1>3. Accounts(m, approvals, grants, receipts, effects)
  <2> SUFFICES ASSUME NEW s \in Steps
               PROVE  StepAccounts(m.steps[s], s, approvals, grants, receipts, effects)
    BY DEF Accounts
  <2>1. StepAccounts(manifest.steps[s], s, approvals, grants, receipts, effects)
    BY AloneFacts DEF Accounts
  <2> QED
    BY <1>2, <2>1, UnfinishedAccounts
<1>4. r.pc = "publish" /\ r.mem = m
  BY DEF Idle
<1> HIDE DEF r
<1>5. AloneOK(r, manifest, approvals, grants, receipts, effects)
  BY <1>1, <1>2, <1>3, <1>4, PublishAlone DEF RestIsSettled
<1> QED
  BY <1>1, <1>5, AloneFacts, QuietSequentialStep DEF ledger

LEMMA BeginRecoveryAlone ==
    ASSUME OneAtATime, SequentialInv, LedgerInv', NEW p \in Procs,
           StartRecover(p) \/ ResumeRecovers(p)
    PROVE  SequentialInv'
<1>1. PICK task \in {"recover", "resume"} : BeginRecovery(p, task)
  BY DEF StartRecover, ResumeRecovers
<1> DEFINE r == [Idle EXCEPT !.pc = "inspect", !.task = task, !.mem = manifest, !.todo = Steps]
<1>2. /\ proc' = [proc EXCEPT ![p] = r]
      /\ UNCHANGED <<ledger, effects>>
  BY <1>1 DEF BeginRecovery
<1>3. r.pc = "inspect" /\ r.mem = manifest
  BY DEF Idle
<1> HIDE DEF r
<1>4. AloneOK(r, manifest, approvals, grants, receipts, effects)
  BY <1>3, AloneFacts, InspectAlone
<1> QED
  BY <1>2, <1>4, AloneFacts, QuietSequentialStep DEF ledger

LEMMA NextNodeAlone ==
    ASSUME OneAtATime, SequentialInv, LedgerInv', NEW p \in Procs, proc[p].pc = "inspect",
           NEW s \in Steps, NEW m, NextNode(p, s, m),
           StepAccounts(m.steps[s], s, approvals, grants, receipts, effects),
           \A t \in Steps \ {s} : m.steps[t] = proc[p].mem.steps[t],
           UNCHANGED <<ledger, effects>>
    PROVE  SequentialInv'
<1> DEFINE r == [proc[p] EXCEPT !.pc = "inspect", !.mem = m, !.todo = proc[p].todo \ {s}]
<1>1. proc' = [proc EXCEPT ![p] = r]
  BY DEF NextNode
<1>2. r.pc = "inspect" /\ r.mem = m
  BY AloneFacts DEF Process
<1> HIDE DEF r
<1>3. Accounts(proc[p].mem, approvals, grants, receipts, effects)
  BY AloneFacts DEF AloneOK
<1>4. Accounts(m, approvals, grants, receipts, effects)
  BY <1>3, AccountsEdit
<1>5. AloneOK(r, manifest, approvals, grants, receipts, effects)
  BY <1>2, <1>4, InspectAlone
<1> QED
  BY <1>1, <1>5, AloneFacts, QuietSequentialStep DEF ledger

\* An interrupted step, and what its grant may be.
LEMMA InterruptedFacts ==
    ASSUME LedgerInv, NEW m \in Manifest, Truthful(m, grants, effects), NEW s \in Steps,
           ~Settled(m, s)
    PROVE  /\ m.steps[s].state \in {"grant_issued", "running", "cancelled"}
           /\ m.steps[s].grant # None =>
                /\ m.steps[s].grant \in Grants
                /\ grants[m.steps[s].grant] # None
                /\ grants[m.steps[s].grant].step = s
<1>1. m.steps[s].state \in {"grant_issued", "running", "cancelled"}
  BY StepType DEF Settled, StepStates
<1>2. StepTruthful(m, s, grants, effects)
  BY DEF Truthful
<1> QED
  BY <1>1, <1>2, StepType DEF StepTruthful, GrantOf

LEMMA RecoverStepAlone ==
    ASSUME OneAtATime, SequentialInv, LedgerInv', NEW p \in Procs, RecoverStep(p)
    PROVE  SequentialInv'
<1> DEFINE m == proc[p].mem
<1>1. proc[p].pc = "inspect" /\ UNCHANGED <<ledger, effects>>
  BY DEF RecoverStep, At
<1>2. PICK s \in Steps :
        \/ KeepStep(p, s, m)
        \/ AdoptReceipt(p, s, m)
        \/ SettleUngranted(p, s, m)
        \/ FindIssued(p, s, m)
        \/ SettleConsumed(p, s, m)
        \/ SettleDead(p, s, m)
  BY DEF RecoverStep
<1>3. /\ LedgerInv /\ m \in Manifest /\ Truthful(m, grants, effects)
      /\ ReceiptsAreNamed(grants)
      /\ Accounts(m, approvals, grants, receipts, effects)
      /\ StepAccounts(m.steps[s], s, approvals, grants, receipts, effects)
  BY <1>1, AloneFacts, MemTruthful DEF AloneOK, Accounts
<1>4. CASE KeepStep(p, s, m)
  BY <1>1, <1>3, <1>4, NextNodeAlone DEF KeepStep
<1>5. CASE AdoptReceipt(p, s, m)
  <2> DEFINE g  == FoundReceipt(m.steps[s])
             m2 == Reconciled(m, s, g, receipts[g])
  <2>1. g # None /\ NextNode(p, s, m2)
    BY <1>5 DEF AdoptReceipt
  <2>2. /\ g \in Grants /\ GrantOf(s, g, grants)
        /\ receipts[g] = effects[g] /\ effects[g] \in Outcomes
    BY <1>3, <2>1, FoundReceiptTrue
  <2> HIDE DEF g
  <2>3. /\ m2.steps[s].state = effects[g] /\ m2.steps[s].receipt = g
        /\ \A t \in Steps \ {s} : m2.steps[t] = m.steps[t]
    BY <1>3, <2>2, ReconciledType
  <2> HIDE DEF m2
  <2>4. effects[g] # "none"
    BY <2>2 DEF Outcomes
  <2>5. StepAccounts(m2.steps[s], s, approvals, grants, receipts, effects)
    BY <2>2, <2>3, <2>4, ReportedAccounts DEF GrantOf
  <2> QED
    BY <1>1, <2>1, <2>3, <2>5, NextNodeAlone
<1>6. CASE SettleUngranted(p, s, m)
  <2>1. PICK v \in {"quarantined", "pending"} : NextNode(p, s, WithStep(m, s, v))
    BY <1>6 DEF SettleUngranted
  <2> DEFINE m2 == WithStep(m, s, v)
  <2>2. ~Settled(m, s) /\ m.steps[s].grant = None
    BY <1>6 DEF SettleUngranted, Interrupted
  <2>3. /\ m2.steps[s].receipt = m.steps[s].receipt /\ m2.steps[s].grant = None
        /\ \A t \in Steps \ {s} : m2.steps[t] = m.steps[t]
    <3>1. v \in StepStates
      BY DEF StepStates
    <3>2. m \in Manifest
      BY <1>3
    <3> HIDE DEF m
    <3> QED
      BY <2>2, <3>1, <3>2, WithStepType
  <2> HIDE DEF m2
  <2>4. m.steps[s].state \in {"grant_issued", "running", "cancelled"}
    BY <1>3, <2>2, InterruptedFacts
  <2>5. StepAccounts(m2.steps[s], s, approvals, grants, receipts, effects)
    BY <1>3, <2>2, <2>3, <2>4, UnusedAccounts
  <2> QED
    BY <1>1, <2>1, <2>3, <2>5, NextNodeAlone DEF m2
<1>7. CASE FindIssued(p, s, m)
  <2> DEFINE r == [proc[p] EXCEPT !.pc = "void", !.step = s]
  <2>1. proc' = [proc EXCEPT ![p] = r] /\ grants[m.steps[s].grant].state = "issued"
    BY <1>7 DEF FindIssued
  <2>2. r.pc = "void" /\ r.mem = m /\ r.step = s
    BY AloneFacts DEF Process
  <2> HIDE DEF r
  <2>3. GrantAt(r) = m.steps[s].grant
    BY <2>2 DEF GrantAt
  <2>4. AloneOK(r, manifest, approvals, grants, receipts, effects)
    BY <1>3, <2>1, <2>2, <2>3
    DEF AloneOK, MemoryIsCurrent, RunStateOK, OneStepOpen, GrantHeld, HoldingPCs, DispatchPCs
  <2> QED
    BY <1>1, <2>1, <2>4, AloneFacts, QuietSequentialStep DEF ledger
<1>8. CASE SettleConsumed(p, s, m)
  <2>1. /\ ~Settled(m, s) /\ FoundReceipt(m.steps[s]) = None /\ m.steps[s].grant # None
        /\ grants[m.steps[s].grant].state = "consumed"
    BY <1>8 DEF SettleConsumed, Interrupted
  <2>2. /\ m.steps[s].state \in {"grant_issued", "running", "cancelled"}
        /\ m.steps[s].grant \in Grants /\ grants[m.steps[s].grant] # None
        /\ grants[m.steps[s].grant].step = s
    BY <1>3, <2>1, InterruptedFacts
  <2>3. receipts[m.steps[s].grant] = "none"
    BY <1>3, <2>1, <2>2, NotFoundIsLost
  <2>4. PICK m2 :
          /\ NextNode(p, s, m2)
          /\ \A t \in Steps \ {s} : m2.steps[t] = m.steps[t]
          /\ m2.steps[s].receipt = m.steps[s].receipt
          /\ \/ m2.steps[s].state = "quarantined" /\ m2.steps[s].grant = m.steps[s].grant
             \/ m2.steps[s].state = "pending" /\ ~ReviewRequired(s)
    <3>1. CASE ReviewRequired(s)
      <4>1. NextNode(p, s, WithStep(m, s, "quarantined"))
        BY <1>8, <3>1 DEF SettleConsumed
      <4>2. m \in Manifest /\ "quarantined" \in StepStates
        BY <1>3 DEF StepStates
      <4> DEFINE m3 == WithStep(m, s, "quarantined")
      <4> HIDE DEF m
      <4>3. /\ m3.steps[s].state = "quarantined"
            /\ m3.steps[s].grant = m.steps[s].grant
            /\ m3.steps[s].receipt = m.steps[s].receipt
            /\ \A t \in Steps \ {s} : m3.steps[t] = m.steps[t]
        BY <4>2, WithStepType
      <4> QED
        BY <4>1, <4>3
    <3>2. CASE ~ReviewRequired(s)
      <4>1. NextNode(p, s, ClearedForReplay(m, s))
        BY <1>8, <3>2 DEF SettleConsumed
      <4> QED
        BY <1>3, <3>2, <4>1, ClearedType
    <3> QED
      BY <3>1, <3>2
  <2>5. StepAccounts(m2.steps[s], s, approvals, grants, receipts, effects)
    BY <1>3, <2>1, <2>2, <2>3, <2>4, LostAccounts
  <2> QED
    BY <1>1, <2>4, <2>5, NextNodeAlone
<1>9. CASE SettleDead(p, s, m)
  <2> DEFINE m2 == ClearedForReplay(m, s)
  <2>1. /\ ~Settled(m, s) /\ grants[m.steps[s].grant].state \in {"expired", "void"}
        /\ NextNode(p, s, m2)
    BY <1>9 DEF SettleDead, Interrupted
  <2>2. /\ m2.steps[s].receipt = m.steps[s].receipt /\ m2.steps[s].state = "pending"
        /\ \A t \in Steps \ {s} : m2.steps[t] = m.steps[t]
    BY <1>3, ClearedType
  <2> HIDE DEF m2
  <2>3. m.steps[s].state \in {"grant_issued", "running", "cancelled"}
    BY <1>3, <2>1, InterruptedFacts
  <2>4. StepAccounts(m2.steps[s], s, approvals, grants, receipts, effects)
    BY <1>3, <2>1, <2>2, <2>3, UnusedAccounts
  <2> QED
    BY <1>1, <2>1, <2>2, <2>4, NextNodeAlone
<1> QED
  BY <1>2, <1>4, <1>5, <1>6, <1>7, <1>8, <1>9

LEMMA PublishRecoveryAlone ==
    ASSUME OneAtATime, SequentialInv, LedgerInv', NEW p \in Procs, PublishRecovery(p)
    PROVE  SequentialInv'
<1> DEFINE m0 == proc[p].mem
           v  == DeriveRunState(m0)
           m  == WithRun(m0, v)
           r  == [proc[p] EXCEPT !.pc = "reload", !.mem = m]
<1>1. /\ proc[p].pc = "inspect" /\ proc[p].todo = {}
      /\ manifest' = m
      /\ IF proc[p].task = "resume" THEN proc' = [proc EXCEPT ![p] = r] ELSE Return(p)
      /\ UNCHANGED <<payload, approvals, bound, grants, receipts, effects>>
  BY DEF PublishRecovery, At
<1>2. m0 \in Manifest /\ Accounts(m0, approvals, grants, receipts, effects)
  BY <1>1, AloneFacts DEF AloneOK
<1>3. AllSettled(m0)
  BY <1>1, AloneFacts DEF LedgerInv, ProcessOK, RecoveryOK, AllSettled
<1> HIDE DEF m0
<1>4. v \in RunStates \ {"running", "cancelled", "rejected"}
  <2>1. v \in RunStates
    BY <1>2, DerivedType
  <2>2. v \in {"ready", "awaiting_approval", "quarantined", "failed", "succeeded"}
    BY <1>2, <1>3, SettledRunState DEF AllSettled
  <2> QED
    BY <2>1, <2>2
<1> HIDE DEF v
<1>5. /\ Accounts(m, approvals, grants, receipts, effects)
      /\ AllSettled(m) /\ m.state = v
  BY <1>2, <1>3, <1>4, AccountsRun, SettledRun, WithRunType
<1> HIDE DEF m
<1>6. RestIsSettled(m)
  BY <1>5 DEF RestIsSettled
<1>7. CASE Return(p)
  BY <1>1, <1>5, <1>6, <1>7, QuietReturn
<1>8. CASE ~Return(p)
  <2>1. r.pc = "reload" /\ r.mem = m
    BY AloneFacts DEF Process
  <2>2. proc' = [proc EXCEPT ![p] = r]
    BY <1>1, <1>8
  <2> HIDE DEF r
  <2>3. AloneOK(r, m, approvals, grants, receipts, effects)
    BY <1>4, <1>5, <2>1, ReadingAlone
  <2> QED
    BY <1>1, <1>5, <1>6, <2>2, <2>3, QuietSequentialStep
<1> QED
  BY <1>7, <1>8

-----------------------------------------------------------------------------
(* One command at a time: the steps that write grants, receipts and        *)
(* approvals, and those of the environment.                                *)

AllAge == \A s \in Steps : Ages(s, approvals, grants, receipts, effects,
                                approvals', grants', receipts', effects')

LEMMA AgedAccounts ==
    ASSUME SequentialInv, NEW p \in Procs, AllAge
    PROVE  /\ Accounts(manifest, approvals', grants', receipts', effects')
           /\ proc[p].pc # "idle" =>
                Accounts(proc[p].mem, approvals', grants', receipts', effects')
<1>1. /\ LedgerInv
      /\ Accounts(manifest, approvals, grants, receipts, effects)
      /\ proc[p].pc # "idle" => Accounts(proc[p].mem, approvals, grants, receipts, effects)
  BY AloneFacts DEF AloneOK
<1>2. /\ manifest \in Manifest /\ Truthful(manifest, grants, effects)
      /\ proc[p].mem \in Manifest /\ Truthful(proc[p].mem, grants, effects)
  BY <1>1, MemTruthful
<1> DEFINE m == proc[p].mem
<1> HIDE DEF m
<1>3. Accounts(manifest, approvals', grants', receipts', effects')
  BY <1>1, <1>2, AccountsAge DEF AllAge
<1>4. ASSUME proc[p].pc # "idle"
      PROVE  Accounts(m, approvals', grants', receipts', effects')
  BY <1>1, <1>2, <1>4, AccountsAge DEF AllAge, m
<1> QED
  BY <1>3, <1>4 DEF m

\* The grant in use, seen from outside the dispatch of its step.
LEMMA HeldGrant ==
    ASSUME SequentialInv, NEW p \in Procs, proc[p].pc \in HoldingPCs \cup {"void"}
    PROVE  LET g == GrantAt(proc[p])
           IN  /\ CurrentGrant(p) = g
               /\ g \in Grants /\ g # None
               /\ grants[g] # None /\ grants[g] \in GrantRecord
               /\ grants[g].step = proc[p].step /\ proc[p].step \in Steps
               /\ grants[g].state = "issued"
<1> DEFINE g == GrantAt(proc[p])
<1>1. LedgerInv /\ AloneOK(proc[p], manifest, approvals, grants, receipts, effects)
  BY AloneFacts
<1>2. CurrentGrant(p) = g /\ grants[g].state = "issued"
  BY <1>1 DEF CurrentGrant, GrantAt, AloneOK, GrantHeld
<1>3. /\ g \in Grants /\ grants[g] # None
      /\ grants[g].step = proc[p].step /\ proc[p].step \in Steps
  <2>1. CASE proc[p].pc \in HoldingPCs
    BY <1>1, <2>1, DispatchFacts DEF HoldingPCs
  <2>2. CASE proc[p].pc = "void"
    <3>1. proc[p].step \in Steps /\ ~Settled(proc[p].mem, proc[p].step) /\ g # None
      BY <1>1, <2>2, AloneFacts DEF LedgerInv, ProcessOK, RecoveryOK, Process
    <3>2. proc[p].mem.steps[proc[p].step].grant = g
      BY DEF GrantAt
    <3>3. proc[p].mem \in Manifest /\ Truthful(proc[p].mem, grants, effects)
      BY <1>1, MemTruthful
    <3> HIDE DEF g
    <3> QED
      BY <1>1, <3>1, <3>2, <3>3, InterruptedFacts
  <2> QED
    BY <2>1, <2>2
<1> QED
  BY <1>1, <1>2, <1>3, GrantIdAssumption, LedgerFacts

LEMMA MintAlone ==
    ASSUME OneAtATime, SequentialInv, LedgerInv', NEW p \in Procs, Mint(p)
    PROVE  SequentialInv'
<1>1. /\ proc[p].pc = "loop"
      /\ UNCHANGED <<manifest, payload, approvals, bound, receipts, effects>>
  BY DEF Mint, At
<1>2. PICK s \in Steps, g \in Grants :
        /\ First(proc[p].todo, s)
        /\ grants[g] = None
        /\ grants' = [grants EXCEPT ![g] =
                        [step |-> s, payload |-> proc[p].plan[s], approval |-> approvals[s],
                         state |-> "issued", receipt |-> None]]
        /\ proc' = [proc EXCEPT ![p] = [@ EXCEPT
                      !.pc = "minted", !.step = s, !.todo = proc[p].todo \ {s},
                      !.mem = WithGrant(proc[p].mem, s, g)]]
  BY DEF Mint
<1> DEFINE rec == [step |-> s, payload |-> proc[p].plan[s], approval |-> approvals[s],
                   state |-> "issued", receipt |-> None]
           m0  == proc[p].mem
           m   == WithGrant(m0, s, g)
           r   == [proc[p] EXCEPT !.pc = "minted", !.step = s, !.todo = proc[p].todo \ {s},
                                  !.mem = m]
<1>3. grants' = [grants EXCEPT ![g] = rec] /\ proc' = [proc EXCEPT ![p] = r]
  BY <1>2
<1>4. rec.step = s /\ rec.state = "issued" /\ rec.approval = approvals[s]
  OBVIOUS
<1> HIDE DEF rec
<1>5. grants'[g] = rec /\ \A h \in Grants \ {g} : grants'[h] = grants[h]
  BY <1>2, <1>3, AloneFacts DEF LedgerInv, TypeOK
<1>6. rec # None
  <2>1. LedgerInv'
    OBVIOUS
  <2>2. grants'[g] \in GrantRecord \/ grants'[g] = None
    BY <2>1 DEF LedgerInv, TypeOK
  <2>3. m.steps[s].grant = g /\ g # None
    BY <1>2, AloneFacts, WithGrantType, GrantIdAssumption
  <2>4. proc'[p] = r /\ r.mem = m
    BY <1>3, AloneFacts DEF Process
  <2>5. StepTruthful(m, s, grants', effects')
    BY <1>2, <2>1, <2>4 DEF LedgerInv, ProcessOK, Truthful
  <2> QED
    BY <1>5, <2>3, <2>5 DEF StepTruthful, GrantOf
<1>7. AllAge
  <2>1. Minted(grants, effects)
    BY AloneFacts, LedgerFacts
  <2> QED
    BY <1>1, <1>2, <1>4, <1>5, <1>6, <2>1 DEF AllAge, Ages, Minted
<1>8. ReceiptsAreNamed(grants')
  BY <1>4, <1>5, AloneFacts DEF ReceiptsAreNamed
<1>9. /\ Accounts(manifest, approvals', grants', receipts', effects')
      /\ Accounts(m0, approvals', grants', receipts', effects')
  BY <1>1, <1>7, AgedAccounts
<1>10. /\ m0 \in Manifest /\ s \in proc[p].todo /\ manifest.state = "running"
       /\ AllSettled(m0) /\ \A t \in proc[p].todo : m0.steps[t].state = "pending"
       /\ proc[p].todo \subseteq Steps
  BY <1>1, <1>2, AloneFacts DEF AloneOK, OneStepOpen, RunStateOK, First, Process
<1> HIDE DEF m0
<1>11. /\ m.steps[s].state = "grant_issued" /\ m.steps[s].grant = g
       /\ m.steps[s].receipt = m0.steps[s].receipt
       /\ \A t \in Steps \ {s} : m.steps[t] = m0.steps[t]
  BY <1>2, <1>10, WithGrantType
<1> HIDE DEF m
<1>12. Accounts(m, approvals', grants', receipts', effects')
  <2>1. StepAccounts(m0.steps[s], s, approvals', grants', receipts', effects')
    BY <1>2, <1>9 DEF Accounts
  <2>2. StepAccounts(m.steps[s], s, approvals', grants', receipts', effects')
    BY <1>2, <1>10, <1>11, <2>1, PendingAccounts
  <2> QED
    BY <1>2, <1>9, <1>11, <2>2, AccountsEdit
<1>13. r.pc = "minted" /\ r.mem = m /\ r.step = s /\ r.todo = proc[p].todo \ {s}
  BY AloneFacts DEF Process
<1> HIDE DEF r
<1>14. GrantAt(r) = g
  BY <1>11, <1>13 DEF GrantAt
<1>15. /\ \A t \in Steps \ {r.step} : Settled(r.mem, t)
       /\ \A t \in r.todo : r.mem.steps[t].state = "pending"
  BY <1>10, <1>11, <1>13 DEF AllSettled, Settled
<1>16. AloneOK(r, manifest', approvals', grants', receipts', effects')
  <2>1. r.pc \in HoldingPCs /\ manifest'.state = "running"
    BY <1>1, <1>10, <1>13 DEF HoldingPCs, DispatchPCs
  <2>2. /\ grants'[GrantAt(r)].state = "issued"
        /\ grants'[GrantAt(r)].approval = approvals'[r.step]
    BY <1>1, <1>4, <1>5, <1>13, <1>14
  <2>3. r.mem.steps[r.step].state \in {"grant_issued", "running"}
    BY <1>11, <1>13
  <2> QED
    BY <1>12, <1>13, <1>15, <2>1, <2>2, <2>3, HoldingAlone
<1> QED
  BY <1>1, <1>3, <1>8, <1>9, <1>16, AloneFacts, SequentialStep

LEMMA ExecuteAlone ==
    ASSUME OneAtATime, SequentialInv, LedgerInv', NEW p \in Procs, Execute(p)
    PROVE  SequentialInv'
<1> DEFINE g == GrantAt(proc[p])
           r == [proc[p] EXCEPT !.pc = "receipt"]
<1>1. /\ proc[p].pc = "execute" /\ UNCHANGED ledger
  BY DEF Execute, At
<1>2. proc[p].pc \in HoldingPCs
  BY <1>1 DEF HoldingPCs, DispatchPCs
<1>3. PICK outcome \in Outcomes \cup {"threw"} :
        /\ effects' = [effects EXCEPT ![g] = outcome]
        /\ IF outcome = "threw" THEN Return(p) ELSE proc' = [proc EXCEPT ![p] = r]
  BY <1>2, HeldGrant DEF Execute
<1>4. AllAge
  <2>1. Minted(grants, effects)
    BY AloneFacts, LedgerFacts
  <2>2. effects \in [Grants -> Outcomes \cup {"none", "threw"}]
    BY AloneFacts DEF LedgerInv, TypeOK
  <2>3. \A h \in Grants : effects[h] # "none" => effects'[h] # "none"
    BY <1>3, <2>2 DEF Outcomes
  <2> QED
    BY <1>1, <2>1, <2>3 DEF AllAge, Ages, Minted, ledger
<1>5. /\ Accounts(manifest', approvals', grants', receipts', effects')
      /\ Accounts(proc[p].mem, approvals', grants', receipts', effects')
  BY <1>1, <1>4, AgedAccounts DEF ledger
<1>6. ReceiptsAreNamed(grants') /\ RestIsSettled(manifest')
  BY <1>1, AloneFacts DEF ledger
<1>7. CASE Return(p)
  BY <1>5, <1>6, <1>7, AloneFacts, IdleAlone, SequentialStep DEF Return
<1>8. CASE ~Return(p)
  <2>1. proc' = [proc EXCEPT ![p] = r]
    BY <1>3, <1>8
  <2>2. /\ r.pc = "receipt" /\ r.mem = proc[p].mem /\ r.step = proc[p].step
        /\ r.todo = proc[p].todo
    BY AloneFacts DEF Process
  <2> HIDE DEF r
  <2>3. GrantAt(r) = g /\ r.pc \in HoldingPCs
    BY <2>2 DEF GrantAt, HoldingPCs, DispatchPCs
  <2>4. AloneOK(r, manifest', approvals', grants', receipts', effects')
    BY <1>1, <1>2, <1>5, <2>2, <2>3, HoldingFacts, HoldingAlone DEF ledger
  <2> QED
    BY <1>5, <1>6, <2>1, <2>4, AloneFacts, SequentialStep
<1> QED
  BY <1>7, <1>8

LEMMA WriteReceiptAlone ==
    ASSUME OneAtATime, SequentialInv, LedgerInv', NEW p \in Procs, WriteReceipt(p)
    PROVE  SequentialInv'
<1> DEFINE g == GrantAt(proc[p])
           r == [proc[p] EXCEPT !.pc = "consume"]
<1>1. /\ proc[p].pc = "receipt"
      /\ proc' = [proc EXCEPT ![p] = r]
      /\ receipts' = [receipts EXCEPT ![CurrentGrant(p)] = effects[CurrentGrant(p)]]
      /\ UNCHANGED <<manifest, payload, approvals, bound, grants, effects>>
  BY DEF WriteReceipt, At
<1>2. proc[p].pc \in HoldingPCs
  BY <1>1 DEF HoldingPCs, DispatchPCs
<1>3. g \in Grants /\ CurrentGrant(p) = g /\ grants[g].state = "issued"
  BY <1>2, HeldGrant
<1>4. AllAge
  <2>1. Minted(grants, effects)
    BY AloneFacts, LedgerFacts
  <2>2. receipts \in [Grants -> Outcomes \cup {"none"}]
    BY AloneFacts DEF LedgerInv, TypeOK
  <2>3. \A h \in Grants \ {g} : receipts'[h] = receipts[h]
    BY <1>1, <1>3, <2>2
  <2> QED
    BY <1>1, <1>3, <2>1, <2>3 DEF AllAge, Ages, Minted
<1>5. /\ Accounts(manifest', approvals', grants', receipts', effects')
      /\ Accounts(proc[p].mem, approvals', grants', receipts', effects')
  BY <1>1, <1>4, AgedAccounts
<1>6. /\ r.pc = "consume" /\ r.mem = proc[p].mem /\ r.step = proc[p].step
      /\ r.todo = proc[p].todo
  BY AloneFacts DEF Process
<1> HIDE DEF r
<1>7. GrantAt(r) = g /\ r.pc \in HoldingPCs
  BY <1>6 DEF GrantAt, HoldingPCs, DispatchPCs
<1>8. AloneOK(r, manifest', approvals', grants', receipts', effects')
  BY <1>1, <1>2, <1>5, <1>6, <1>7, HoldingFacts, HoldingAlone
<1> QED
  BY <1>1, <1>5, <1>8, AloneFacts, SequentialStep

\* The record of the grant in use is rewritten.
LEMMA GrantRewritten ==
    ASSUME LedgerInv, NEW g \in Grants, grants[g] # None,
           NEW v \in {"issued", "consumed", "expired", "void"}, NEW kept \in {None, g},
           grants' = [grants EXCEPT ![g] = [@ EXCEPT !.state = v, !.receipt = kept]]
    PROVE  /\ grants'[g] # None
           /\ grants'[g].step = grants[g].step /\ grants'[g].approval = grants[g].approval
           /\ grants'[g].state = v /\ grants'[g].receipt = kept
           /\ \A h \in Grants \ {g} : grants'[h] = grants[h]
<1> DEFINE rec == [grants[g] EXCEPT !.state = v, !.receipt = kept]
<1>1. grants \in [Grants -> GrantRecord \cup {None}] /\ grants[g] \in GrantRecord
  BY LedgerFacts DEF LedgerInv, TypeOK
<1>2. /\ rec \in GrantRecord
      /\ rec.step = grants[g].step /\ rec.approval = grants[g].approval
      /\ rec.state = v /\ rec.receipt = kept
  BY <1>1 DEF GrantRecord
<1>3. rec # None
  BY <1>2, RecordAssumption
<1>4. grants' = [grants EXCEPT ![g] = rec]
  OBVIOUS
<1> HIDE DEF rec
<1> QED
  BY <1>1, <1>2, <1>3, <1>4

LEMMA ConsumeGrantAlone ==
    ASSUME OneAtATime, SequentialInv, LedgerInv', NEW p \in Procs, ConsumeGrant(p)
    PROVE  SequentialInv'
<1> DEFINE g == GrantAt(proc[p])
           s == proc[p].step
           m0 == proc[p].mem
           m == Reconciled(m0, s, g, effects[g])
           r == [proc[p] EXCEPT !.pc = "settle", !.mem = m]
<1>1. proc[p].pc = "consume" /\ UNCHANGED <<manifest, payload, approvals, bound, receipts, effects>>
  BY DEF ConsumeGrant, At
<1>2. proc[p].pc \in HoldingPCs /\ proc[p].pc \in DispatchPCs
  BY <1>1 DEF HoldingPCs, DispatchPCs
<1>3. /\ CurrentGrant(p) = g /\ g \in Grants /\ grants[g] # None /\ grants[g].step = s
      /\ s \in Steps /\ grants[g].state = "issued" /\ g # None
  BY <1>2, HeldGrant
<1>4. effects[g] \in Outcomes /\ effects[g] # "none"
  BY <1>1, <1>2, AloneFacts DEF LedgerInv, ProcessOK, DispatchOK, Outcomes
<1>5. /\ grants' = [grants EXCEPT ![g] = [@ EXCEPT !.state = "consumed", !.receipt = g]]
      /\ proc' = [proc EXCEPT ![p] = r]
  BY <1>3 DEF ConsumeGrant
<1>6. /\ m0 = manifest /\ manifest.state = "running"
      /\ m0.steps[s].state \in {"grant_issued", "running"}
      /\ \A t \in Steps \ {s} : Settled(m0, t)
      /\ \A t \in proc[p].todo : m0.steps[t].state = "pending"
      /\ m0 \in Manifest /\ m0.steps[s].grant = g
      /\ proc[p].todo \subseteq Steps
  BY <1>1, <1>2, HoldingFacts, AloneFacts DEF GrantAt, Process
<1>7. /\ LedgerInv /\ ReceiptsAreNamed(grants)
      /\ Truthful(m0, grants, effects)
      /\ Accounts(m0, approvals, grants, receipts, effects)
  BY <1>6, AloneFacts, MemTruthful
<1> HIDE DEF g, s, m0
<1>8. /\ grants'[g] # None /\ grants'[g].step = s /\ grants'[g].approval = grants[g].approval
      /\ grants'[g].state = "consumed" /\ grants'[g].receipt = g
      /\ \A h \in Grants \ {g} : grants'[h] = grants[h]
  BY <1>3, <1>5, <1>7, GrantRewritten
<1>9. ReceiptsAreNamed(grants')
  BY <1>7, <1>8 DEF ReceiptsAreNamed
<1>10. ASSUME NEW t \in Steps \ {s}
       PROVE  StepAccounts(m0.steps[t], t, approvals', grants', receipts', effects')
  <2>1. Minted(grants, effects)
    BY <1>7, LedgerFacts
  <2>2. Ages(t, approvals, grants, receipts, effects, approvals', grants', receipts', effects')
    BY <1>1, <1>3, <1>8, <1>10, <2>1 DEF Ages, Minted
  <2>3. StepAccounts(m0.steps[t], t, approvals, grants, receipts, effects)
    BY <1>7 DEF Accounts
  <2>4. m0.steps[t].grant # None => m0.steps[t].grant \in Grants /\ grants[m0.steps[t].grant] # None
    BY <1>6, <1>7, StepType DEF Truthful, StepTruthful, GrantOf
  <2> QED
    BY <2>2, <2>3, <2>4, AccountAges
<1>11. StepAccounts(m0.steps[s], s, approvals', grants', receipts', effects')
  <2> DEFINE st == m0.steps[s]
  <2>1. st.state \in {"grant_issued", "running"} /\ st.grant = g
    BY <1>6
  <2>2. StepAccounts(st, s, approvals, grants, receipts, effects)
    BY <1>3, <1>7 DEF Accounts
  <2> HIDE DEF st
  <2>3. ASSUME NEW h \in Grants, grants'[h] # None, grants'[h].step = s
        PROVE  /\ OnlyOutcome(h, approvals', grants', receipts', effects') =>
                    st.receipt = h \/ LeftOpen(st, h)
               /\ Consumed(h, approvals', grants') =>
                    \/ Replayable(h, grants', receipts')
                    \/ st.state \in {"succeeded", "failed", "quarantined"}
                    \/ LeftOpen(st, h)
    <3>1. CASE h = g
      BY <2>1, <3>1 DEF LeftOpen
    <3>2. CASE h # g
      <4>1. grants'[h] = grants[h]
        BY <1>8, <3>2
      <4>2. ~OnlyOutcome(h, approvals', grants', receipts', effects')
        BY <1>1, <1>3, <1>4, <1>8, <2>3, <3>2 DEF OnlyOutcome
      <4>3. Consumed(h, approvals', grants') => Consumed(h, approvals, grants)
        BY <1>1, <4>1 DEF Consumed
      <4>4. Replayable(h, grants, receipts) => Replayable(h, grants', receipts')
        BY <1>1, <4>1 DEF Replayable
      <4> QED
        BY <2>2, <2>3, <4>1, <4>2, <4>3, <4>4 DEF StepAccounts
    <3> QED
      BY <3>1, <3>2
  <2>4. st.state # "quarantined"
    BY <2>1
  <2>5. StepAccounts(st, s, approvals', grants', receipts', effects')
    BY <2>3, <2>4 DEF StepAccounts
  <2> QED
    BY <2>5 DEF st
<1>12. Accounts(m0, approvals', grants', receipts', effects')
  BY <1>10, <1>11 DEF Accounts
<1>13. /\ m.steps[s].state \in Outcomes /\ m.steps[s].receipt = g
       /\ \A t \in Steps \ {s} : m.steps[t] = m0.steps[t]
  BY <1>3, <1>4, <1>6, ReconciledType
<1> HIDE DEF m
<1>14. Accounts(m, approvals', grants', receipts', effects')
  <2>1. StepAccounts(m.steps[s], s, approvals', grants', receipts', effects')
    BY <1>1, <1>3, <1>4, <1>8, <1>13, ReportedAccounts
  <2> QED
    BY <1>3, <1>12, <1>13, <2>1, AccountsEdit
<1>15. r.pc = "settle" /\ r.mem = m /\ r.todo = proc[p].todo
  BY AloneFacts DEF Process
<1> HIDE DEF r
<1>16. AllSettled(m)
  BY <1>6, <1>13 DEF AllSettled, Settled, Outcomes
<1>17. \A t \in r.todo : m.steps[t].state = "pending"
  BY <1>6, <1>13, <1>15
<1>18. AloneOK(r, manifest', approvals', grants', receipts', effects')
  BY <1>1, <1>6, <1>14, <1>15, <1>16, <1>17
  DEF AloneOK, MemoryIsCurrent, RunStateOK, OneStepOpen, GrantHeld, HoldingPCs, DispatchPCs
<1>19. RestIsSettled(manifest') /\ Accounts(manifest', approvals', grants', receipts', effects')
  BY <1>1, <1>6, <1>12 DEF RestIsSettled
<1> QED
  BY <1>5, <1>9, <1>18, <1>19, AloneFacts, SequentialStep

LEMMA VoidGrantAlone ==
    ASSUME OneAtATime, SequentialInv, LedgerInv', NEW p \in Procs, VoidGrant(p)
    PROVE  SequentialInv'
<1> DEFINE g == GrantAt(proc[p])
           s == proc[p].step
           m0 == proc[p].mem
           m == ClearedForReplay(m0, s)
           r == [proc[p] EXCEPT !.pc = "inspect", !.step = None, !.todo = proc[p].todo \ {s},
                                !.mem = m]
<1>1. /\ proc[p].pc = "void"
      /\ UNCHANGED <<manifest, payload, approvals, bound, receipts, effects>>
      /\ proc' = [proc EXCEPT ![p] = r]
  BY DEF VoidGrant, At
<1>2. /\ CurrentGrant(p) = g /\ g \in Grants /\ grants[g] # None /\ grants[g].step = s
      /\ s \in Steps /\ grants[g].state = "issued"
  BY <1>1, HeldGrant
<1>3. /\ LedgerInv /\ ReceiptsAreNamed(grants)
      /\ m0 \in Manifest /\ Truthful(m0, grants, effects)
      /\ m0.steps[s].grant = g /\ ~Settled(m0, s)
  BY <1>1, AloneFacts, MemTruthful DEF LedgerInv, ProcessOK, RecoveryOK, GrantAt
<1>4. PICK dead \in {"expired", "void"}, kept \in {None, grants[g].receipt} :
        grants' = [grants EXCEPT ![g] = [@ EXCEPT !.state = dead, !.receipt = kept]]
  BY <1>2 DEF VoidGrant
<1>5. kept \in {None, g}
  BY <1>2, <1>3, <1>4 DEF LedgerInv, GrantsOK
<1> HIDE DEF g, s, m0
<1>6. /\ grants'[g] # None /\ grants'[g].step = s /\ grants'[g].state = dead
      /\ \A h \in Grants \ {g} : grants'[h] = grants[h]
  BY <1>2, <1>3, <1>4, <1>5, GrantRewritten
<1>7. AllAge
  <2>1. Minted(grants, effects)
    BY <1>3, LedgerFacts
  <2> QED
    BY <1>1, <1>2, <1>6, <2>1 DEF AllAge, Ages, Minted
<1>8. ReceiptsAreNamed(grants')
  BY <1>3, <1>6 DEF ReceiptsAreNamed
<1>9. /\ Accounts(manifest', approvals', grants', receipts', effects')
      /\ Accounts(m0, approvals', grants', receipts', effects')
  BY <1>1, <1>7, AgedAccounts DEF m0
<1>10. /\ m.steps[s].state = "pending" /\ m.steps[s].receipt = m0.steps[s].receipt
       /\ \A t \in Steps \ {s} : m.steps[t] = m0.steps[t]
  BY <1>2, <1>3, ClearedType
<1> HIDE DEF m
<1>11. Accounts(m, approvals', grants', receipts', effects')
  <2>1. m0.steps[s].state \in {"grant_issued", "running", "cancelled"}
    BY <1>2, <1>3, InterruptedFacts
  <2>2. StepAccounts(m0.steps[s], s, approvals', grants', receipts', effects')
    BY <1>2, <1>9 DEF Accounts
  <2>3. grants'[m0.steps[s].grant].state # "consumed"
    BY <1>3, <1>6
  <2>4. StepAccounts(m.steps[s], s, approvals', grants', receipts', effects')
    BY <1>2, <1>10, <2>1, <2>2, <2>3, UnusedAccounts
  <2> QED
    BY <1>2, <1>9, <1>10, <2>4, AccountsEdit
<1>12. r.pc = "inspect" /\ r.mem = m
  BY AloneFacts DEF Process
<1> HIDE DEF r
<1>13. AloneOK(r, manifest', approvals', grants', receipts', effects')
  BY <1>11, <1>12, InspectAlone
<1> QED
  BY <1>1, <1>8, <1>9, <1>13, AloneFacts, SequentialStep

LEMMA WriteApprovalAlone ==
    ASSUME OneAtATime, SequentialInv, LedgerInv', NEW p \in Procs, WriteApproval(p)
    PROVE  SequentialInv'
<1> DEFINE s == proc[p].step
           m0 == proc[p].mem
           m == Approved(m0, s)
           r == [proc[p] EXCEPT !.pc = "publish", !.mem = m]
<1>1. /\ proc[p].pc = "approving"
      /\ proc' = [proc EXCEPT ![p] = r]
      /\ UNCHANGED <<manifest, payload, grants, receipts, effects>>
  BY DEF WriteApproval, At
<1>2. PICK a \in Approvals : bound[a] = None /\ approvals' = [approvals EXCEPT ![s] = a]
  BY DEF WriteApproval
<1>3. s \in Elevated /\ s \in Steps
  BY <1>1, AloneFacts, GraphAssumption DEF LedgerInv, ProcessOK, GraphOK
<1>4. LedgerInv /\ m0 = manifest /\ m0 \in Manifest /\ RestIsSettled(m0)
  BY <1>1, AloneFacts DEF AloneOK, MemoryIsCurrent
<1> HIDE DEF s, m0
<1>5. approvals'[s] = a /\ \A t \in Steps \ {s} : approvals'[t] = approvals[t]
  BY <1>2, <1>3, <1>4 DEF LedgerInv, TypeOK
<1>6. \A g \in Grants : grants[g] # None /\ grants[g].step = s => grants[g].approval # a
  BY <1>2, <1>3, <1>4 DEF LedgerInv, GrantsOK
<1>7. AllAge
  <2>1. Minted(grants, effects)
    BY <1>4, LedgerFacts
  <2> QED
    BY <1>1, <1>5, <1>6, <2>1 DEF AllAge, Ages, Minted
<1>8. /\ Accounts(manifest', approvals', grants', receipts', effects')
      /\ Accounts(m0, approvals', grants', receipts', effects')
  BY <1>1, <1>7, AgedAccounts DEF m0
<1>9. /\ m.state = IF m0.state = "awaiting_approval" THEN "ready" ELSE m0.state
      /\ m.steps[s].state = "pending"
      /\ \A t \in Steps \ {s} : m.steps[t] = m0.steps[t]
  <2> DEFINE m1 == WithStep(m0, s, "pending")
             v  == IF m0.state = "awaiting_approval" THEN "ready" ELSE m0.state
  <2>1. /\ m1 \in Manifest /\ m1.steps[s].state = "pending"
        /\ \A t \in Steps \ {s} : m1.steps[t] = m0.steps[t]
    <3>1. "pending" \in StepStates
      BY DEF StepStates
    <3> QED
      BY <1>3, <1>4, <3>1, WithStepType
  <2>2. v \in RunStates
    BY <1>4 DEF Manifest, RunStates
  <2>3. m = WithRun(m1, v)
    BY DEF Approved
  <2> HIDE DEF m1, v, m
  <2>4. m.state = v /\ m.steps = m1.steps
    BY <2>1, <2>2, <2>3, WithRunType
  <2> QED
    BY <2>1, <2>4 DEF v
<1> HIDE DEF m
<1>10. Accounts(m, approvals', grants', receipts', effects')
  <2>1. \A g \in Grants : grants'[g] # None /\ grants'[g].step = s =>
          ~Consumed(g, approvals', grants')
    BY <1>1, <1>5, <1>6 DEF Consumed
  <2>2. StepAccounts(m.steps[s], s, approvals', grants', receipts', effects')
    BY <1>3, <1>9, <2>1, RenewedAccounts
  <2> QED
    BY <1>3, <1>8, <1>9, <2>2, AccountsEdit
<1>11. RestIsSettled(m)
  BY <1>4, <1>9 DEF RestIsSettled, AllSettled, Settled
<1>12. manifest.state \in {"cancelled", "rejected"} => m.state = manifest.state
  BY <1>4, <1>9
<1>13. r.pc = "publish" /\ r.mem = m
  BY AloneFacts DEF Process
<1> HIDE DEF r
<1>14. AloneOK(r, manifest', approvals', grants', receipts', effects')
  BY <1>1, <1>10, <1>11, <1>12, <1>13, PublishAlone
<1> QED
  BY <1>1, <1>8, <1>14, AloneFacts, SequentialStep

LEMMA PowerLossAlone ==
    ASSUME OneAtATime, SequentialInv, LedgerInv', PowerLoss
    PROVE  SequentialInv'
<1>1. /\ proc' = [p \in Procs |-> Idle]
      /\ UNCHANGED <<manifest, payload, approvals, bound, grants, effects>>
  BY DEF PowerLoss
<1>2. PICK g \in Grants : receipts' = [receipts EXCEPT ![g] = "none"]
  BY DEF PowerLoss
<1>3. LedgerInv /\ ReceiptsAreNamed(grants) /\ RestIsSettled(manifest)
      /\ manifest \in Manifest /\ Truthful(manifest, grants, effects)
      /\ Accounts(manifest, approvals, grants, receipts, effects)
  BY MemTruthful DEF SequentialInv
<1>4. \A s \in Steps : Ages(s, approvals, grants, receipts, effects,
                            approvals', grants', receipts', effects')
  <2>1. Minted(grants, effects)
    BY <1>3, LedgerFacts
  <2>2. receipts \in [Grants -> Outcomes \cup {"none"}]
    BY <1>3 DEF LedgerInv, TypeOK
  <2>3. \A h \in Grants : receipts'[h] \in {receipts[h], "none"}
    BY <1>2, <2>2
  <2> QED
    BY <1>1, <2>1, <2>3 DEF Ages, Minted
<1>5. Accounts(manifest, approvals', grants', receipts', effects')
  BY <1>3, <1>4, AccountsAge
<1>6. \A p \in Procs : AloneOK(proc'[p], manifest', approvals', grants', receipts', effects')
  BY <1>1, IdleAlone
<1> QED
  BY <1>1, <1>3, <1>5, <1>6 DEF SequentialInv

LEMMA OtherwiseAlone ==
    ASSUME SequentialInv, LedgerInv', EditPayload \/ UNCHANGED vars
    PROVE  SequentialInv'
<1>1. UNCHANGED <<manifest, approvals, grants, receipts, effects, proc>>
  BY DEF EditPayload, vars, ledger
<1> QED
  BY <1>1 DEF SequentialInv

LEMMA InitAlone == Init => SequentialInv
<1> SUFFICES ASSUME Init
             PROVE  SequentialInv
  OBVIOUS
<1>1. PICK v \in {"ready", "rejected"} : manifest = NewManifest(v)
  BY DEF Init
<1>2. \A s \in Steps : manifest.steps[s] = [state |-> "pending", grant |-> None, receipt |-> None]
  BY <1>1, NewManifestType DEF RunStates
<1>3. \A g \in Grants : grants[g] = None
  BY DEF Init
<1>4. Accounts(manifest, approvals, grants, receipts, effects)
  BY <1>2, <1>3 DEF Accounts, StepAccounts
<1>5. RestIsSettled(manifest) /\ ReceiptsAreNamed(grants)
  BY <1>2, <1>3 DEF RestIsSettled, AllSettled, Settled, ReceiptsAreNamed
<1>6. \A p \in Procs : AloneOK(proc[p], manifest, approvals, grants, receipts, effects)
  BY IdleAlone DEF Init
<1> QED
  BY <1>4, <1>5, <1>6, InitInv DEF SequentialInv

LEMMA NextAlone ==
    ASSUME OneAtATime
    PROVE  SequentialInv /\ [Next]_vars => SequentialInv'
<1> SUFFICES ASSUME SequentialInv, [Next]_vars
             PROVE  SequentialInv'
  OBVIOUS
<1>0. LedgerInv'
  BY NextInv DEF SequentialInv
<1>1. ASSUME NEW p \in Procs, Engine(p)
      PROVE  SequentialInv'
  <2>1. CASE Reload(p) \/ ReadGraph(p) \/ Begin(p)
    BY <1>0, <2>1, ReloadAlone, ReadGraphAlone, BeginAlone
  <2>2. CASE AwaitApproval(p) \/ Mint(p) \/ PublishRunning(p)
    BY <1>0, <2>2, AskForAlone, MintAlone, PublishRunningAlone
  <2>3. CASE Verify(p) \/ Refuse(p) \/ Execute(p)
    BY <1>0, <2>3, VerifyAlone, AbandonAlone, ExecuteAlone
  <2>4. CASE WriteReceipt(p) \/ ConsumeGrant(p)
    BY <1>0, <2>4, WriteReceiptAlone, ConsumeGrantAlone
  <2>5. CASE PublishResult(p) \/ Finish(p)
    BY <1>0, <2>5, PublishResultAlone, FinishAlone
  <2> QED
    BY <1>1, <2>1, <2>2, <2>3, <2>4, <2>5 DEF Engine
<1>2. ASSUME NEW p \in Procs, Recovery(p)
      PROVE  SequentialInv'
  BY <1>0, <1>2, BeginRecoveryAlone, RecoverStepAlone, VoidGrantAlone, PublishRecoveryAlone
  DEF Recovery
<1>3. ASSUME NEW p \in Procs, Operator(p)
      PROVE  SequentialInv'
  BY <1>0, <1>3, WriteApprovalAlone, FinishAlone DEF Operator
<1>4. ASSUME NEW p \in Procs, Start(p)
      PROVE  SequentialInv'
  BY <1>0, <1>4, StartResumeAlone, StartApproveAlone, StartCancelAlone, BeginRecoveryAlone DEF Start
<1>5. ASSUME NEW p \in Procs, Crash(p)
      PROVE  SequentialInv'
  BY <1>0, <1>5, AbandonAlone
<1>6. CASE PowerLoss \/ EditPayload \/ UNCHANGED vars
  BY <1>0, <1>6, PowerLossAlone, OtherwiseAlone
<1> QED
  BY <1>1, <1>2, <1>3, <1>4, <1>5, <1>6 DEF Next, Continue

\* With one process, and so one command at a time, the manifest and the copy of
\* it in memory account for every grant that was consumed.
THEOREM ManifestsAccount ==
    ASSUME OneAtATime
    PROVE  Spec => []SequentialInv
<1>1. Init => SequentialInv
  BY InitAlone
<1>2. SequentialInv /\ [Next]_vars => SequentialInv'
  BY NextAlone
<1> QED
  BY <1>1, <1>2, PTL DEF Spec

\* recoverStep's search of the two receipt ids misses no outcome: the manifest
\* at rest names the receipt of work that was carried out once.
THEOREM OutcomesAreReported ==
    ASSUME OneAtATime
    PROVE  Spec => []OnlyOutcomeIsReported
<1>1. SequentialInv => OnlyOutcomeIsReported
  <2> SUFFICES ASSUME SequentialInv, manifest.state \notin {"running", "cancelled"},
                      NEW g \in Grants, receipts[g] # "none", grants[g].state = "consumed",
                      grants[g].approval = approvals[grants[g].step],
                      \A h \in Acted \ {g} : grants[h].step # grants[g].step
               PROVE  manifest.steps[grants[g].step].receipt = g
    BY DEF OnlyOutcomeIsReported
  <2>1. LedgerInv
    BY DEF SequentialInv
  <2>2. effects[g] # "none"
    BY <2>1 DEF LedgerInv, ReceiptsOK
  <2>3. grants[g] # None
    BY <2>1, <2>2, LedgerFacts DEF Minted
  <2>4. grants[g].step \in Steps
    BY <2>1, <2>3, LedgerFacts DEF GrantRecord
  <2>5. OnlyOutcome(g, approvals, grants, receipts, effects)
    BY <2>3 DEF OnlyOutcome, Consumed, Acted
  <2> DEFINE s == grants[g].step
  <2>6. StepAccounts(manifest.steps[s], s, approvals, grants, receipts, effects)
    BY <2>4 DEF SequentialInv, Accounts
  <2>7. ~LeftOpen(manifest.steps[s], g)
    BY <2>4 DEF SequentialInv, RestIsSettled, AllSettled, Settled, LeftOpen
  <2> QED
    BY <2>3, <2>5, <2>6, <2>7 DEF StepAccounts
<1> QED
  BY <1>1, ManifestsAccount, PTL

\* recoverStep quarantines a granted step only when it was really used up and
\* nothing tells with what outcome.
THEOREM QuarantinesAreExplained ==
    ASSUME OneAtATime
    PROVE  Spec => []QuarantineMeansLostReceipt
<1>1. SequentialInv => QuarantineMeansLostReceipt
  BY DEF SequentialInv, Accounts, StepAccounts, QuarantineMeansLostReceipt, StepsIn
<1> QED
  BY <1>1, ManifestsAccount, PTL

\* Outside recovery, a cancelled or rejected run stays so, and no handler acts.
THEOREM RevivalsAreRecoveries ==
    ASSUME OneAtATime
    PROVE  Spec => OnlyRecoverRevives
<1>1. SequentialInv /\ [Next]_vars =>
        (manifest.state \in {"cancelled", "rejected"} =>
           /\ UNCHANGED effects
           /\ \/ manifest'.state = manifest.state
              \/ \E p \in Procs : PublishRecovery(p))
  <2> SUFFICES ASSUME SequentialInv, [Next]_vars, manifest.state \in {"cancelled", "rejected"}
               PROVE  /\ UNCHANGED effects
                      /\ \/ manifest'.state = manifest.state
                         \/ \E p \in Procs : PublishRecovery(p)
    OBVIOUS
  <2>1. ASSUME NEW p \in Procs
        PROVE  /\ proc[p].pc \notin {"start", "loop", "minted", "execute", "settle"}
               /\ proc[p].pc = "publish" => proc[p].mem.state = manifest.state
    BY AloneFacts DEF AloneOK, RunStateOK, DispatchPCs
  <2>2. ASSUME NEW p \in Procs, Continue(p)
        PROVE  /\ UNCHANGED effects
               /\ manifest'.state = manifest.state \/ PublishRecovery(p)
    <3>1. CASE Engine(p)
      <4>1. UNCHANGED <<manifest, effects>>
        BY <2>1, <3>1 DEF Engine, Reload, ReadGraph, Begin, AwaitApproval, Mint, PublishRunning,
                          Verify, Refuse, Execute, WriteReceipt, ConsumeGrant, PublishResult, Finish,
                          At, ledger
      <4> QED
        BY <4>1
    <3>2. CASE Recovery(p)
      BY <3>2 DEF Recovery, ResumeRecovers, BeginRecovery, RecoverStep, VoidGrant, PublishRecovery,
                  ledger
    <3>3. CASE Operator(p)
      BY <2>1, <3>3 DEF Operator, WriteApproval, Publish, At
    <3> QED
      BY <2>2, <3>1, <3>2, <3>3 DEF Continue
  <2>3. ASSUME NEW p \in Procs, Start(p) \/ Crash(p)
        PROVE  UNCHANGED <<manifest, effects>>
    BY <2>3 DEF Start, StartResume, StartApprove, StartCancel, StartRecover, BeginRecovery, Crash, ledger
  <2>4. CASE PowerLoss \/ EditPayload \/ UNCHANGED vars
    BY <2>4 DEF PowerLoss, EditPayload, vars, ledger
  <2> QED
    BY <2>2, <2>3, <2>4 DEF Next
<1> QED
  BY <1>1, ManifestsAccount, PTL DEF Spec, OnlyRecoverRevives

\* Only Execute lets a handler act.
LEMMA OnlyExecuteActs ==
    ASSUME [Next]_vars, effects' # effects
    PROVE  \E p \in Procs : Execute(p)
<1>1. ASSUME NEW p \in Procs, Continue(p)
      PROVE  UNCHANGED effects \/ Execute(p)
  BY <1>1 DEF Continue, Engine, Reload, ReadGraph, Begin, AwaitApproval, Mint, PublishRunning, Verify,
              Refuse, WriteReceipt, ConsumeGrant, PublishResult, Finish, Recovery, ResumeRecovers,
              BeginRecovery, RecoverStep, VoidGrant, PublishRecovery, Operator, WriteApproval, Publish
<1>2. ASSUME NEW p \in Procs, Start(p) \/ Crash(p)
      PROVE  UNCHANGED effects
  BY <1>2 DEF Start, StartResume, StartApprove, StartCancel, StartRecover, BeginRecovery, Crash
<1>3. PowerLoss \/ EditPayload \/ UNCHANGED vars => UNCHANGED effects
  BY DEF PowerLoss, EditPayload, vars
<1> QED
  BY <1>1, <1>2, <1>3 DEF Next

\* The recovery service never offers consumed work again to an operator who runs
\* one command at a time, unless its receipt is lost and it may be replayed.
THEOREM ConsumedWorkIsDoneOnce ==
    ASSUME OneAtATime
    PROVE  Spec => ConsumedWorkIsNotRedone
<1>1. SequentialInv /\ [Next]_vars =>
        (\A g \in Grants :
           effects[g] = "none" /\ effects'[g] # "none" =>
             \A h \in Grants :
               SameWarrant(g, h) /\ grants[h].state = "consumed" =>
                 receipts[h] = "none" /\ ~ReviewRequired(grants[h].step))
  <2> SUFFICES ASSUME SequentialInv, [Next]_vars,
                      NEW g \in Grants, effects[g] = "none", effects'[g] # "none",
                      NEW h \in Grants, SameWarrant(g, h), grants[h].state = "consumed"
               PROVE  receipts[h] = "none" /\ ~ReviewRequired(grants[h].step)
    OBVIOUS
  <2>1. PICK p \in Procs : Execute(p)
    BY OnlyExecuteActs
  <2> DEFINE r == proc[p]
             s == r.step
  <2>2. r.pc = "execute" /\ r.pc \in HoldingPCs
    BY <2>1 DEF Execute, At, HoldingPCs, DispatchPCs
  <2>3. /\ CurrentGrant(p) = GrantAt(r) /\ GrantAt(r) \in Grants
        /\ grants[GrantAt(r)].step = s /\ s \in Steps
    BY <2>2, HeldGrant
  <2>4. GrantAt(r) = g
    <3>1. effects \in [Grants -> Outcomes \cup {"none", "threw"}]
      BY AloneFacts DEF LedgerInv, TypeOK
    <3>2. PICK outcome : effects' = [effects EXCEPT ![GrantAt(r)] = outcome]
      BY <2>1, <2>3 DEF Execute
    <3> QED
      BY <2>3, <3>1, <3>2
  <2>5. grants[h] # None /\ h # g /\ grants[h].step = s /\ grants[h].approval = approvals[s]
    BY <2>2, <2>3, <2>4, HoldingFacts DEF SameWarrant
  <2>6. Consumed(h, approvals, grants)
    BY <2>5 DEF Consumed
  <2>7. /\ r.mem.steps[s].state \in {"grant_issued", "running"}
        /\ r.mem.steps[s].grant = g
        /\ StepAccounts(r.mem.steps[s], s, approvals, grants, receipts, effects)
    BY <2>2, <2>3, <2>4, HoldingFacts DEF GrantAt, Accounts
  <2> HIDE DEF s, r
  <2>8. Replayable(h, grants, receipts)
    BY <2>5, <2>6, <2>7 DEF StepAccounts, LeftOpen
  <2> QED
    BY <2>8 DEF Replayable
<1> QED
  BY <1>1, ManifestsAccount, PTL DEF Spec, ConsumedWorkIsNotRedone
=============================================================================
