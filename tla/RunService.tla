----------------------------- MODULE RunService -----------------------------
(***************************************************************************)
(* The run service of ToolFlow's control plane over the ledger directory   *)
(* of one run.                                                             *)
(*                                                                         *)
(* Every command (run/resume, approve, cancel, recover) is a process of    *)
(* its own, so any number of them work on the same files at once.  A       *)
(* command reads the manifest into memory, works on that copy, and writes  *)
(* the whole file back at fixed points; nothing locks the directory.  The  *)
(* unit of atomicity here is therefore one visible file access: an action  *)
(* is one write together with the reads and the local computation around   *)
(* it that no other process can tell apart from it.                        *)
(*                                                                         *)
(* Left out: the progress monitor and the event log, which are never read  *)
(* back; the step outputs under artifacts/; and the TaskFlow mirror, which *)
(* is written after every manifest and never read by these functions.      *)
(***************************************************************************)
EXTENDS RunManifest

CONSTANTS
    Procs,      \* operating-system processes that run ToolFlow commands
    Commands,   \* the commands they may be given
    Payloads,   \* bindings of a step: its payload hash and its policy hash
    Editable,   \* nodes whose payload in compiled-graph.json may be rewritten
    Approvals,  \* approval hashes: what approveStep hashes has a time in it
    Faults      \* what may go wrong: "crash", "power_loss"

ASSUME EnvironmentAssumption ==
    /\ Commands \subseteq {"resume", "approve", "cancel", "recover"}
    /\ Editable \subseteq Steps
    /\ Faults \subseteq {"crash", "power_loss"}
    /\ None \notin Approvals
    /\ None \notin Payloads

VARIABLES
    (* The files of the run directory. *)
    manifest,   \* manifest.json
    payload,    \* compiled-graph.json: the payload (and policy) bound to each node
    approvals,  \* approvals/<step>.json: the hash of the approval on file
    bound,      \* what each approval hash covers: a step and its payload
    grants,     \* grants/<id>.json
    receipts,   \* receipts/<id>.json: the status it reports, "none" if there is no file
    (* What the handlers did; no file says it. *)
    effects,    \* grant |-> outcome of the handler that ran under it
    (* The processes. *)
    proc        \* process |-> program counter and local variables

ledger == <<manifest, payload, approvals, bound, grants, receipts>>
vars == <<ledger, effects, proc>>

Outcomes == {"succeeded", "failed"}

GrantRecord == [step : Steps, payload : Payloads, approval : Approvals \cup {None},
                state : {"issued", "consumed", "expired", "void"},
                receipt : Grants \cup {None}]

\* What an approval binds.
Binding == [step : Steps, payload : Payloads]

ASSUME RecordAssumption == None \notin GrantRecord /\ None \notin Binding

\* A process between two commands.
Idle == [pc |-> "idle", task |-> None, mem |-> NewManifest("ready"),
         plan |-> [s \in Steps |-> None], todo |-> {}, step |-> None]

Init ==
    /\ \E verdict \in {"ready"} \cup (IF Elevated = {} THEN {} ELSE {"rejected"}) :
          manifest = NewManifest(verdict)
    /\ payload \in [Steps -> Payloads]
    /\ approvals = [s \in Steps |-> None]
    /\ bound = [a \in Approvals |-> None]
    /\ grants = [g \in Grants |-> None]
    /\ receipts = [g \in Grants |-> "none"]
    /\ effects = [g \in Grants |-> "none"]
    /\ proc = [p \in Procs |-> Idle]

-----------------------------------------------------------------------------
(* Local helpers.                                                          *)

At(p, pc) == proc[p].pc = pc

\* The grant the engine dispatches is the one it noted in its manifest.
CurrentGrant(p) == proc[p].mem.steps[proc[p].step].grant

Return(p) == proc' = [proc EXCEPT ![p] = Idle]

\* The receipt file that a receiptId field leads to, if it can be read.
Readable(g) == g \in Grants /\ receipts[g] # "none"

-----------------------------------------------------------------------------
(* resumeWorkflow.                                                         *)

StartResume(p) ==
    /\ "resume" \in Commands
    /\ At(p, "idle")
    /\ Resumable(manifest)
    /\ proc' = [proc EXCEPT ![p] =
                  [Idle EXCEPT !.pc = IF manifest.state = "running" THEN "recover" ELSE "begin",
                               !.task = "resume", !.mem = manifest]]
    /\ UNCHANGED <<ledger, effects>>

\* The second read of the manifest, after recoverRun.
Reload(p) ==
    /\ At(p, "reload")
    /\ IF Resumable(manifest)
       THEN proc' = [proc EXCEPT ![p] = [@ EXCEPT !.pc = "begin", !.mem = manifest]]
       ELSE Return(p)
    /\ UNCHANGED <<ledger, effects>>

\* The graph is read once; every node's payload is fixed from here on.  approveRunStep
\* reads it too, after the manifest.
ReadGraph(p) ==
    /\ proc[p].pc \in {"begin", "approve"}
    /\ proc' = [proc EXCEPT ![p] = [@ EXCEPT
                  !.pc = IF At(p, "begin") THEN "start" ELSE "approving",
                  !.plan = payload]]
    /\ UNCHANGED <<ledger, effects>>

Begin(p) ==
    LET m == WithRun(proc[p].mem, "running")
    IN  /\ At(p, "start")
        /\ manifest' = m
        /\ proc' = [proc EXCEPT ![p] = [@ EXCEPT !.pc = "loop", !.mem = m, !.todo = Runnable(m)]]
        /\ UNCHANGED <<payload, approvals, bound, grants, receipts, effects>>

\* An elevated step s that needs an approval stops the loop.
AskFor(p, s) ==
    proc' = [proc EXCEPT ![p] = [@ EXCEPT
               !.pc = "publish",
               !.mem = WithRun(WithStep(proc[p].mem, s, "awaiting_approval"), "awaiting_approval")]]

AwaitApproval(p) ==
    /\ At(p, "loop")
    /\ \E s \in Elevated : First(proc[p].todo, s) /\ approvals[s] = None /\ AskFor(p, s)
    /\ UNCHANGED <<ledger, effects>>

\* mintStepGrant
Mint(p) ==
    /\ At(p, "loop")
    /\ \E s \in Steps, g \in Grants :
         /\ First(proc[p].todo, s)
         /\ s \in Elevated => approvals[s] # None
         /\ grants[g] = None
         /\ grants' = [grants EXCEPT ![g] =
                         [step |-> s, payload |-> proc[p].plan[s], approval |-> approvals[s],
                          state |-> "issued", receipt |-> None]]
         /\ proc' = [proc EXCEPT ![p] = [@ EXCEPT
                       !.pc = "minted", !.step = s, !.todo = proc[p].todo \ {s},
                       !.mem = WithGrant(proc[p].mem, s, g)]]
    /\ UNCHANGED <<manifest, payload, approvals, bound, receipts, effects>>

PublishRunning(p) ==
    LET m == WithStep(proc[p].mem, proc[p].step, "running")
    IN  /\ At(p, "minted")
        /\ manifest' = m
        /\ proc' = [proc EXCEPT ![p] = [@ EXCEPT !.pc = "verify", !.mem = m]]
        /\ UNCHANGED <<payload, approvals, bound, grants, receipts, effects>>

-----------------------------------------------------------------------------
(* dispatchStep: SameProcessBridge.execute and ElevatedBridge.execute.     *)

\* verifyGrantForRequest: signature and bindings hold, the request being built
\* from the step the grant was minted for; what can fail is the record's state
\* and the expiry time (see Refuse).
GrantLive(g) == grants[g].state = "issued"

\* Mutant: an approval of the step covers any payload.
ApprovalCoversStep(g) ==
    grants[g].step \in Elevated =>
      /\ grants[g].approval # None
      /\ approvals[grants[g].step] = grants[g].approval

\* ensureApprovalForElevatedRequest
ApprovalCovers(g) ==
    LET s == grants[g].step
    IN  s \in Elevated =>
          /\ grants[g].approval # None
          /\ approvals[s] = grants[g].approval
          /\ bound[approvals[s]].payload = grants[g].payload

Verify(p) ==
    /\ At(p, "verify")
    /\ GrantLive(CurrentGrant(p))
    /\ ApprovalCovers(CurrentGrant(p))
    /\ proc' = [proc EXCEPT ![p].pc = "execute"]
    /\ UNCHANGED <<ledger, effects>>

\* A check throws, the grant has expired, or the cell refuses the request
\* before acting (allowlist, missing arguments): resumeWorkflow has no catch, so
\* the exception leaves the run as it is on disk.
Refuse(p) ==
    /\ At(p, "verify")
    /\ Return(p)
    /\ UNCHANGED <<ledger, effects>>

\* The handler acts.  It may throw after it has acted (runApplyPatch reads
\* verifyFile after git apply), which leaves the run as it is on disk too.
Execute(p) ==
    /\ At(p, "execute")
    /\ \E outcome \in Outcomes \cup {"threw"} :
         /\ effects' = [effects EXCEPT ![CurrentGrant(p)] = outcome]
         /\ IF outcome = "threw"
            THEN Return(p)
            ELSE proc' = [proc EXCEPT ![p].pc = "receipt"]
    /\ UNCHANGED ledger

WriteReceipt(p) ==
    /\ At(p, "receipt")
    /\ receipts' = [receipts EXCEPT ![CurrentGrant(p)] = effects[CurrentGrant(p)]]
    /\ proc' = [proc EXCEPT ![p].pc = "consume"]
    /\ UNCHANGED <<manifest, payload, approvals, bound, grants, effects>>

\* consumeGrant, and back in the loop reconcileReceipt on the manifest in memory.
ConsumeGrant(p) ==
    LET g == CurrentGrant(p)
        s == proc[p].step
    IN  /\ At(p, "consume")
        /\ grants' = [grants EXCEPT ![g] = [@ EXCEPT !.state = "consumed", !.receipt = g]]
        /\ proc' = [proc EXCEPT ![p] = [@ EXCEPT !.pc = "settle",
                                                 !.mem = Reconciled(proc[p].mem, s, g, effects[g])]]
        /\ UNCHANGED <<manifest, payload, approvals, bound, receipts, effects>>

\* The step's result reaches the manifest; a failed step ends the run.
PublishResult(p) ==
    LET failed == proc[p].mem.steps[proc[p].step].state = "failed"
        m      == IF failed THEN WithRun(proc[p].mem, "failed") ELSE proc[p].mem
    IN  /\ At(p, "settle")
        /\ manifest' = m
        /\ IF failed
           THEN Return(p)
           ELSE proc' = [proc EXCEPT ![p] = [@ EXCEPT !.pc = "loop", !.step = None,
                                                      !.todo = NextPass(proc[p].todo, m)]]
        /\ UNCHANGED <<payload, approvals, bound, grants, receipts, effects>>

\* Nothing is runnable any more.
Finish(p) ==
    /\ At(p, "loop")
    /\ proc[p].todo = {}
    /\ manifest' = WithRun(proc[p].mem, FinalRunState(proc[p].mem))
    /\ Return(p)
    /\ UNCHANGED <<payload, approvals, bound, grants, receipts, effects>>

\* The last write of AwaitApproval, approveRunStep and cancelRun.
Publish(p) ==
    /\ At(p, "publish")
    /\ manifest' = proc[p].mem
    /\ Return(p)
    /\ UNCHANGED <<payload, approvals, bound, grants, receipts, effects>>

-----------------------------------------------------------------------------
(* approveRunStep and cancelRun.                                           *)

\* Neither the state of the run nor that of the step is looked at.
StartApprove(p) ==
    /\ "approve" \in Commands
    /\ At(p, "idle")
    /\ \E s \in Elevated :
         proc' = [proc EXCEPT ![p] = [Idle EXCEPT !.pc = "approve", !.task = "approve",
                                                  !.mem = manifest, !.step = s]]
    /\ UNCHANGED <<ledger, effects>>

\* approveStep: a new binding replaces the one on file.
WriteApproval(p) ==
    LET s == proc[p].step
    IN  /\ At(p, "approving")
        /\ \E a \in Approvals :
             /\ bound[a] = None
             /\ bound' = [bound EXCEPT ![a] = [step |-> s, payload |-> proc[p].plan[s]]]
             /\ approvals' = [approvals EXCEPT ![s] = a]
        /\ proc' = [proc EXCEPT ![p] = [@ EXCEPT !.pc = "publish",
                                                 !.mem = Approved(proc[p].mem, s)]]
        /\ UNCHANGED <<manifest, payload, grants, receipts, effects>>

StartCancel(p) ==
    /\ "cancel" \in Commands
    /\ At(p, "idle")
    /\ Cancellable(manifest)
    /\ proc' = [proc EXCEPT ![p] = [Idle EXCEPT !.pc = "publish", !.task = "cancel",
                                                !.mem = Cancelled(manifest)]]
    /\ UNCHANGED <<ledger, effects>>

-----------------------------------------------------------------------------
(* recoverRun: the recover command, and the first thing a resume of a      *)
(* running run does.  It settles the nodes in order in a copy of the       *)
(* manifest and then writes that copy back.                                *)

BeginRecovery(p, task) ==
    /\ proc' = [proc EXCEPT ![p] = [Idle EXCEPT !.pc = "inspect", !.task = task,
                                                !.mem = manifest, !.todo = Steps]]
    /\ UNCHANGED <<ledger, effects>>

StartRecover(p) == "recover" \in Commands /\ At(p, "idle") /\ BeginRecovery(p, "recover")

ResumeRecovers(p) == At(p, "recover") /\ BeginRecovery(p, "resume")

\* Mutant: the loop does not advance.
NextNodeStays(p, s, m) ==
    proc' = [proc EXCEPT ![p] = [@ EXCEPT !.pc = "inspect", !.mem = m]]

\* p is done with node s, with m as the manifest in memory.
NextNode(p, s, m) ==
    proc' = [proc EXCEPT ![p] = [@ EXCEPT !.pc = "inspect", !.mem = m,
                                          !.todo = proc[p].todo \ {s}]]

\* Mutant: the receipt that the grant record names is not looked for.
FoundReceiptOfManifest(st) == IF Readable(st.receipt) THEN st.receipt ELSE None

\* The terminal receipt recoverStep finds for a node: the one the manifest
\* names, else the one the node's grant record names.
FoundReceipt(st) ==
    IF Readable(st.receipt) THEN st.receipt
    ELSE IF st.grant # None /\ Readable(grants[st.grant].receipt) THEN grants[st.grant].receipt
    ELSE None

KeepStep(p, s, m) == Settled(m, s) /\ NextNode(p, s, m)

AdoptReceipt(p, s, m) ==
    LET g == FoundReceipt(m.steps[s])
    IN  ~Settled(m, s) /\ g # None /\ NextNode(p, s, Reconciled(m, s, g, receipts[g]))

\* The branches below are those of an interrupted step without a receipt.
Interrupted(m, s) == ~Settled(m, s) /\ FoundReceipt(m.steps[s]) = None

SettleUngranted(p, s, m) ==
    /\ Interrupted(m, s)
    /\ m.steps[s].grant = None
    /\ NextNode(p, s, WithStep(m, s, IF ReviewRequired(s) THEN "quarantined" ELSE "pending"))

FindIssued(p, s, m) ==
    /\ Interrupted(m, s)
    /\ m.steps[s].grant # None
    /\ grants[m.steps[s].grant].state = "issued"
    /\ proc' = [proc EXCEPT ![p] = [@ EXCEPT !.pc = "void", !.step = s]]

\* Mutant: a consumed grant is replayed whatever the replay class.
SettleConsumedReplaying(p, s, m) ==
    /\ Interrupted(m, s)
    /\ m.steps[s].grant # None
    /\ grants[m.steps[s].grant].state = "consumed"
    /\ NextNode(p, s, ClearedForReplay(m, s))

SettleConsumed(p, s, m) ==
    /\ Interrupted(m, s)
    /\ m.steps[s].grant # None
    /\ grants[m.steps[s].grant].state = "consumed"
    /\ NextNode(p, s, IF ReviewRequired(s) THEN WithStep(m, s, "quarantined")
                                           ELSE ClearedForReplay(m, s))

\* Mutant: a dead grant is treated as a consumed one.
SettleDeadAsConsumed(p, s, m) ==
    /\ Interrupted(m, s)
    /\ m.steps[s].grant # None
    /\ grants[m.steps[s].grant].state \in {"expired", "void"}
    /\ NextNode(p, s, IF ReviewRequired(s) THEN WithStep(m, s, "quarantined")
                                           ELSE ClearedForReplay(m, s))

SettleDead(p, s, m) ==
    /\ Interrupted(m, s)
    /\ m.steps[s].grant # None
    /\ grants[m.steps[s].grant].state \in {"expired", "void"}
    /\ NextNode(p, s, ClearedForReplay(m, s))

\* recoverStep up to the first write
RecoverStep(p) ==
    /\ At(p, "inspect")
    /\ \E s \in Steps :
         /\ First(proc[p].todo, s)
         /\ \/ KeepStep(p, s, proc[p].mem)
            \/ AdoptReceipt(p, s, proc[p].mem)
            \/ SettleUngranted(p, s, proc[p].mem)
            \/ FindIssued(p, s, proc[p].mem)
            \/ SettleConsumed(p, s, proc[p].mem)
            \/ SettleDead(p, s, proc[p].mem)
    /\ UNCHANGED <<ledger, effects>>

\* expireGrant or voidGrant, by the clock.  Both read the record again and write
\* it back: a consumption in between is overwritten, and whether its receipt id
\* survives depends on which side of the read it fell.
VoidGrant(p) ==
    LET g == CurrentGrant(p)
    IN  /\ At(p, "void")
        /\ \E dead \in {"expired", "void"}, kept \in {None, grants[g].receipt} :
             grants' = [grants EXCEPT ![g] = [@ EXCEPT !.state = dead, !.receipt = kept]]
        /\ proc' = [proc EXCEPT ![p] = [@ EXCEPT
                      !.pc = "inspect", !.step = None, !.todo = proc[p].todo \ {proc[p].step},
                      !.mem = ClearedForReplay(proc[p].mem, proc[p].step)]]
        /\ UNCHANGED <<manifest, payload, approvals, bound, receipts, effects>>

PublishRecovery(p) ==
    LET m == WithRun(proc[p].mem, DeriveRunState(proc[p].mem))
    IN  /\ At(p, "inspect")
        /\ proc[p].todo = {}
        /\ manifest' = m
        /\ IF proc[p].task = "resume"
           THEN proc' = [proc EXCEPT ![p] = [@ EXCEPT !.pc = "reload", !.mem = m]]
           ELSE Return(p)
        /\ UNCHANGED <<payload, approvals, bound, grants, receipts, effects>>

-----------------------------------------------------------------------------
(* The environment.                                                        *)

\* A process dies between two file accesses.
Crash(p) ==
    /\ "crash" \in Faults
    /\ ~At(p, "idle")
    /\ Return(p)
    /\ UNCHANGED <<ledger, effects>>

\* The machine goes down: every process dies, and a receipt that was written
\* but not yet on stable storage (writeFileSync does not fsync) is gone.
PowerLoss ==
    /\ "power_loss" \in Faults
    /\ \E g \in Grants : receipts' = [receipts EXCEPT ![g] = "none"]
    /\ proc' = [p \in Procs |-> Idle]
    /\ UNCHANGED <<manifest, payload, approvals, bound, grants, effects>>

\* Someone rewrites a payload and its hash in compiled-graph.json.
EditPayload ==
    /\ \E s \in Editable, v \in Payloads : payload' = [payload EXCEPT ![s] = v]
    /\ UNCHANGED <<manifest, approvals, bound, grants, receipts, effects, proc>>

-----------------------------------------------------------------------------
Engine(p) ==
    \/ Reload(p) \/ ReadGraph(p) \/ Begin(p) \/ AwaitApproval(p) \/ Mint(p)
    \/ PublishRunning(p) \/ Verify(p) \/ Refuse(p) \/ Execute(p) \/ WriteReceipt(p)
    \/ ConsumeGrant(p) \/ PublishResult(p) \/ Finish(p)

Recovery(p) ==
    ResumeRecovers(p) \/ RecoverStep(p) \/ VoidGrant(p) \/ PublishRecovery(p)

Operator(p) == WriteApproval(p) \/ Publish(p)

\* A command that has started goes on by itself.
Continue(p) == Engine(p) \/ Recovery(p) \/ Operator(p)

Start(p) == StartResume(p) \/ StartApprove(p) \/ StartCancel(p) \/ StartRecover(p)

Next ==
    \/ \E p \in Procs : Continue(p) \/ Start(p) \/ Crash(p)
    \/ PowerLoss
    \/ EditPayload

Spec == Init /\ [][Next]_vars
-----------------------------------------------------------------------------
(* What holds whatever the processes do.                                   *)

PCs == {"idle", "recover", "reload", "begin", "start", "loop", "minted", "verify", "execute",
        "receipt", "consume", "settle", "publish", "approve", "approving", "inspect", "void"}

Process == [pc : PCs, task : {"resume", "approve", "cancel", "recover", None}, mem : Manifest,
            plan : [Steps -> Payloads \cup {None}], todo : SUBSET Steps,
            step : Steps \cup {None}]

\* Every file and every local variable holds what the code puts there.
TypeOK ==
    /\ manifest \in Manifest
    /\ payload \in [Steps -> Payloads]
    /\ approvals \in [Steps -> Approvals \cup {None}]
    /\ bound \in [Approvals -> Binding \cup {None}]
    /\ grants \in [Grants -> GrantRecord \cup {None}]
    /\ receipts \in [Grants -> Outcomes \cup {"none"}]
    /\ effects \in [Grants -> Outcomes \cup {"none", "threw"}]
    /\ proc \in [Procs -> Process]

\* The grants under which a handler acted, and the steps it finished.
Acted == {g \in Grants : effects[g] # "none"}
Done == {grants[g].step : g \in {h \in Grants : effects[h] = "succeeded"}}

\* An elevated handler acts only on a payload that an operator approved for
\* that very step, however approvals, edits of the graph and several resumes
\* interleave between the minting of the grant and its use.
ApprovedPayloadOnly ==
    \A g \in Acted :
      grants[g].step \in Elevated =>
        /\ grants[g].approval # None
        /\ bound[grants[g].approval] = [step |-> grants[g].step, payload |-> grants[g].payload]

\* A handler acts only after every step its node depends on was really carried
\* out, although the list of runnable steps is computed from a copy of the
\* manifest that recovery, approvals and other engines rewrite.
DependenciesFirst ==
    \A g \in Acted : DependsOn[grants[g].step] \subseteq Done

\* A step is reported succeeded only on a receipt of that step for work that
\* did succeed, and a run only if every one of its steps did, whichever stale
\* copy of the manifest was the last to be written.
SuccessIsEarned ==
    /\ \A s \in StepsIn(manifest, {"succeeded"}) :
         LET g == manifest.steps[s].receipt
         IN  g \in Acted /\ grants[g].step = s /\ effects[g] = "succeeded"
    /\ manifest.state = "succeeded" => Done = Steps

\* A run that says it waits for approval names a step that waits.
WaitingNamesAStep ==
    manifest.state = "awaiting_approval" => StepsIn(manifest, {"awaiting_approval"}) # {}

\* What recovery publishes is settled: no step is left in the middle of an
\* execution and the run is not left "running", so that a second recover has
\* nothing to do.
RecoverySettles ==
    [][\A p \in Procs : PublishRecovery(p) =>
         /\ \A s \in Steps : Settled(manifest', s)
         /\ manifest'.state \in {"ready", "awaiting_approval", "quarantined", "failed", "succeeded"}]_vars

-----------------------------------------------------------------------------
(* What holds when the operator runs one command at a time.                *)

\* Two grants for the same step under the same approval (of an ordinary step:
\* any two grants).
SameWarrant(g, h) ==
    /\ g # h
    /\ grants[h] # None
    /\ grants[g].step = grants[h].step
    /\ grants[g].approval = grants[h].approval

\* A step whose grant was consumed runs again only if its receipt is lost and
\* its replay class allows it; a review_before_replay step never does without
\* a new approval, however often the run is interrupted and recovered.
ConsumedWorkIsNotRedone ==
    [][\A g \in Grants :
         effects[g] = "none" /\ effects'[g] # "none" =>
           \A h \in Grants :
             SameWarrant(g, h) /\ grants[h].state = "consumed" =>
               receipts[h] = "none" /\ ~ReviewRequired(grants[h].step)]_vars

\* The outcome of a step that was carried out once is never overlooked: when no
\* command is under way and the run is neither cancelled nor left "running", the
\* manifest names its receipt, unless the operator has approved the step anew.
OnlyOutcomeIsReported ==
    (\A p \in Procs : At(p, "idle")) /\ manifest.state \notin {"running", "cancelled"} =>
      \A g \in Grants :
        /\ receipts[g] # "none"
        /\ grants[g].state = "consumed"
        /\ grants[g].approval = approvals[grants[g].step]
        /\ \A h \in Acted \ {g} : grants[h].step # grants[g].step
        => manifest.steps[grants[g].step].receipt = g

\* A granted step is quarantined only when its grant was consumed and its
\* receipt is lost.
QuarantineMeansLostReceipt ==
    \A s \in StepsIn(manifest, {"quarantined"}) :
      LET g == manifest.steps[s].grant
      IN  g # None => grants[g].state = "consumed" /\ receipts[g] = "none"

\* A run that was cancelled, or that preflight rejected, stays so until it is
\* recovered, and until then nothing more is carried out for it.
OnlyRecoverRevives ==
    [][manifest.state \in {"cancelled", "rejected"} =>
         /\ UNCHANGED effects
         /\ \/ manifest'.state = manifest.state
            \/ \E p \in Procs : PublishRecovery(p)]_vars

-----------------------------------------------------------------------------
(* What must happen.  A command that has started goes on; an operator who  *)
(* is asked for something, or whose run was interrupted, comes back to it. *)

OperatorResumes(p) == manifest.state \in {"ready", "running"} /\ StartResume(p)

OperatorApproves(p) == manifest.state = "awaiting_approval" /\ StartApprove(p)

Fairness ==
    \A p \in Procs :
      /\ WF_vars(Continue(p))
      /\ SF_vars(OperatorResumes(p))
      /\ SF_vars(OperatorApproves(p))

FairSpec == Spec /\ Fairness

\* The model has no fresh identity left for a command that needs one.
Starved ==
    \E p \in Procs :
      \/ At(p, "loop") /\ proc[p].todo # {} /\ \A g \in Grants : grants[g] # None
      \/ At(p, "approving") /\ \A a \in Approvals : bound[a] # None

\* Every command that is not killed returns.
CommandsReturn ==
    \A p \in Procs : ~At(p, "idle") ~> (At(p, "idle") \/ Starved)

\* Resuming and approving lead somewhere: unless the process is killed again
\* and again, no run goes round for ever between ready, running and waiting.
RunReachesAnEnd ==
    (<>[][\A p \in Procs : ~Crash(p)]_vars) =>
      <>(manifest.state \in {"succeeded", "failed", "quarantined", "cancelled", "rejected"}
         \/ Starved)

-----------------------------------------------------------------------------
(* What the documents say of the program, and the code does not keep.      *)

\* Recovery never lets a review_before_replay step act twice on one approval.
NoSilentReplay ==
    \A g, h \in Acted : SameWarrant(g, h) => ~ReviewRequired(grants[g].step)

\* When no command is under way, a step waits for approval only while none is
\* on file.
ApprovalEndsTheWait ==
    (\A p \in Procs : At(p, "idle")) =>
      \A s \in StepsIn(manifest, {"awaiting_approval"}) : approvals[s] = None
=============================================================================
