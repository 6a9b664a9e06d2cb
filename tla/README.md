# ToolFlow in TLA+

This directory models the core of ToolFlow (`src/packages/`) in TLA+, checks the model on small
instances with TLC, and proves its main safety properties for every instance with TLAPS.
Paths below are relative to the repository; `run-service.ts`, `recovery-service.ts` and the other
control-plane files are in `src/packages/runtime/src/control-plane/`.

## 1. The system

ToolFlow compiles a JSON workflow into a graph of steps, classifies it (preflight), and executes the
steps one after the other. Everything it knows about a run is in files under
`data/ledger/runs/<run id>/`. There is no server: every command (`run`, `resume`, `approve`,
`cancel`, `recover`) is a process of its own that reads those files, works on a copy in memory and
writes whole files back. The OpenClaw plugin calls the same functions inside a long-lived process.
Nothing locks a run directory.

| Component | State it keeps | Operations | Properties that make it correct |
|---|---|---|---|
| Run service (`run-service.ts`, with `scheduler.ts`, `grant-service.ts`, `approval-service.ts`, `receipt-service.ts`, `dispatcher.ts`) | `manifest.json`, `compiled-graph.json`, `policy-artifact.json` of a run; a copy of the manifest in memory while it works | `prepareRun`, `resumeWorkflow`, `approveRunStep`, `cancelRun` | steps act in dependency order; success is reported only when earned; cancelled and rejected runs do not go on by themselves; an approval ends the wait for it |
| Recovery service (`recovery-service.ts`, `policy/replay-rules.ts`) | none of its own; settles the manifest and the grant records | `recoverRun` | an outcome on file is found; consumed work is repeated only where the replay class allows it; nothing is left half-way |
| Bridges and grants (`bridges/base/`, `packages/elevated/src/bridge/`, `ledger/grants.ts`, `ledger/receipts.ts`, `ledger/approvals.ts`) | `grants/<id>.json`, `receipts/<id>.json`, `approvals/<step>.json` | mint, verify, execute, write the receipt, consume; expire or void | an elevated handler acts only on a payload approved for its step |
| Elevated cell (`packages/elevated/src/cell/runner.ts`) and ordinary cells | child processes and a timer on each | `exec_command`, `apply_patch`, reads and notes | success is that of a child that is gone; no child outlives its request; a timeout bounds a child that obeys |
| Compiler and preflight (`compiler/`, `classifier/`, `policy/compile-policy.ts`) | none: pure functions | `compileWorkflow`, `buildProofBundle`, `compilePolicyArtifact` | an accepted graph is acyclic and can be executed to the end; elevated steps are accepted only where the lane is enabled |
| TaskFlow mirror (`taskflow-mirror.ts`) | `taskflow-mirror/runs/<id>.json` and an index | `syncTaskflowMirror`, `readTaskflowMirror` | the mirror says what the ledger says |
| TaskFlow controller (`taskflow-controller.ts`) | `controller/flows/<id>.json` and an index | create, launch, reconcile, update | linked runs are not lost; the flow's status follows its runs |
| Progress monitor (`progress-reporter.ts`) | a timer and two flags | start, stop, four notifications | nothing is reported after the run ended; long runs are announced |
| Ledger store, keyring (`ledger/store.ts`, `crypto/keyring.ts`) | the directories of runs, two key files | `ensureRun`, `writeJson`, `readJson`, `latestRunId`, `loadKey` | what is read is whole or refused; a torn file misleads nobody; a settled key is kept |
| Native controller prototype (`src/prototypes/native-taskflow-controller/`) | a flow with a revision, kept by an external service | `create`, `advance`, `onWake` | no linked run is lost to a rejected revision |
| Plugin (`packages/plugin/src/`), command line (`cli/toolflow.ts`) | none of their own; the plugin is one long-lived process | each tool, method and command calls one of the functions above | calls that overlap leave the ledger readable |
| Configuration, gateway clients, schemas, hashing | none | thin wrappers, formatting | - |

**How they interact.** `resumeWorkflow` reads the manifest (and calls `recoverRun` first if it says
"running"), reads the graph, and loops: the scheduler picks the runnable steps, a grant is minted and
written, the step is published as running, the dispatcher hands a request to a bridge, the bridge
verifies the grant (and the approval), lets the cell act, writes the receipt and consumes the grant,
and the result goes into the manifest. The approval files are the only thing another command can say
to a loop that is under way. After each write of the manifest the mirror is written; the
controller reads the mirror.

**What is hard.** Two commands on one run directory overwrite each other's manifest, because each
writes back its own old copy. A process may die between any two file accesses: between the handler's
effect and the receipt, or between the receipt and the consumption of the grant. It may also die within
one: `writeFileSync` empties a file before it fills it, and nothing is written elsewhere and renamed.
A power failure may take a receipt that was written but not synced. A child process may ignore the
signal that is to end it. The handler may throw after it has acted. Grants
expire and are voided while somebody is about to use them. Approvals are replaced and graphs edited
while a run is under way. `PROJECT.json` lists these hazards, each at its line, with the properties
that watch them.
## 2. The modules

**`RunManifest`** - data only. The manifest as a record of a run state and, per step, a state, a
grant id and a receipt id; and the pure functions on it: `Runnable` (`scheduler.ts`), `Reconciled`
(`receipt-service.ts`), `FinalRunState`, `Approved`, `Cancelled` (`run-service.ts`), `Settled`,
`ClearedForReplay`, `DeriveRunState` (`recovery-service.ts`). A grant is dispatched at most once, so
one id stands for the grant and for the receipt it leads to.

**`RunService`** - the files of one run as variables (`manifest`, `payload`, `approvals`, `bound`,
`grants`, `receipts`), what the handlers really did (`effects`, which no file records), and for each
process a program counter and its local variables (`proc`). An action is one visible file access
with the computation around it: where two file accesses in a row cannot be told apart from one by
any other process, they are one action (the read of an approval and the write of the grant in `Mint`,
for instance). The commands are

| Command | Actions in order |
|---|---|
| resume | `StartResume`, (`ResumeRecovers`, recovery, `Reload`,) `ReadGraph`, `Begin`, then per step `Mint`, `PublishRunning`, `Verify`, `Execute`, `WriteReceipt`, `ConsumeGrant`, `PublishResult`, and at the end `Finish`; or `AwaitApproval`, `Publish`; or `Refuse` when a check throws |
| approve | `StartApprove`, `ReadGraph`, `WriteApproval`, `Publish` |
| cancel | `StartCancel`, `Publish` |
| recover | `StartRecover`, then per node `RecoverStep` (`KeepStep`, `AdoptReceipt`, `SettleUngranted`, `FindIssued`, `SettleConsumed`, `SettleDead`) and `VoidGrant`, and `PublishRecovery` |

The environment kills a process (`Crash`), takes the power (`PowerLoss`: all processes and one
unsynced receipt) and rewrites a payload in `compiled-graph.json` (`EditPayload`, as
`src/tests/mvp.test.mjs` does). `EditPayload` changes payload and hash together; a payload that no
longer matches its hash is refused by `verifyGrantForRequest` and shows as `Refuse`.

**`ApprovalGate`** - what the run service promises, without processes, grants or files: a step acts
only after its dependencies are done and, if it is elevated, on an approved payload; the run reports
only what is done. **`RunServiceRefinement`** maps the run service to it.

**`RunServiceInvariant`** - the inductive invariant `LedgerInv`; **`SequentialInvariant`** - what holds
besides when commands do not overlap. **`RunServiceProofs`** - the theorems. **`MCRunService`** - the small instances.

**`TornLedger`** - the run service over files that are written in two steps. It extends `RunService` by
`text`, what a reader would find in the manifest, in each grant and in each approval (`"whole"`, `"empty"`,
`"garbled"`), and `open`, the processes that have emptied the file they are about to write. `Open` is the truncation in
`writeFileSync`, `Write` the rest of it together with the action of `RunService` that writes; two processes that both
emptied a file may garble it. `ReadManifest`, `ReadApproval`, `VerifyRead` and `RecoverRead` are the reads: a manifest or grant
that is not whole ends the command (`FailToRead`), an approval that is not whole counts as absent. `Crash` may
come between `Open` and `Write`. Its theorems are in `RunServiceProofs`; **`MCTornLedger`** has its small instances.

**`RunDirectory`** - all run directories and the two key files, with one command per caller as the sequence of its
file accesses (`Prepare`, `Resumes`, `Recover`, `Approve`, `Cancels`, `Status`, `Inspect`). Callers are
processes of the command line and calls under way in the plugin. `EnsureRun`, `OpenFile`, `FillFile`, `ReadFile` are the
store; `ReadKey`, `OpenKey`, `FillKey` are `loadKey`; `LatestRunId` is what a query without an id takes.
`raced` is history: the lanes whose first key two callers were making at once. **`RunDirectoryProofs`** has its theorems.

**`RunLife`** - data only: what each command may write next for a run, without grants and receipts
(`EngineMoves`, `Recoveries`, `Approved`, `Cancelled`, where every outcome that the run service decides
between is possible), and the mirror record of a manifest (`MapRunState`, `RecordOf`, from
`taskflow-mirror.ts`). The mirror and the controller are built on it. **`RunLifeProofs`** has the lemmas about it.

**`TaskflowMirror`** - `ledger`, `mirror` and `index` are the manifests, the mirror records and the
one index file; `at` is the `updatedAt` of a manifest, any of `Times`: `nowIso` reads a millisecond clock before the file is written,
so times may coincide or be out of order. A command is its sequence of manifests, and each is
followed by `WriteManifest`, `WriteRecord`, `ReadIndex`, `WriteIndex`: `persistManifest` and
`syncTaskflowMirror` with the file accesses apart. `Engine` goes on with the loop of a resume,
`Throw` ends it, `Crash` kills the process. The command `sync` is `syncTaskflowMirrorFromLedger`.
A process that dies while it writes the index leaves it empty, which is how an index that cannot be parsed is read.
Three variables are history: `said` has all that a manifest has said, with its times; `loose` has the runs of which the last command was overlapped, was killed or was
mirrored elsewhere, so that nothing brought their mirror up to date; `patchy` says whether two processes have been at
work at once or the index was torn. **`TaskflowMirrorProofs`** has its theorems.

**`ControllerFlow`** - `flows` and `index` are the controller's files, which `SaveFlow` and `UpsertIndex` write one after the other; `launch` holds the local variables of
each `launchControllerWorkflow` under way, `loop` those of a reconciliation. A launch is
`StartLaunch` (the flow is read), `Engine` (the run, manifest by manifest) and `Attach` (the copy
is saved with the link), or `LaunchThrows`; `Update` assigns any status and any wait; a reconciliation is `StartReconcile`, `ReconcileLink`
for each link and `EndReconcile`. Reconciliation is synchronous, so within the plugin's process nothing comes
between, but other processes go on with the runs (`Command`). `PluginDies` kills all of
it, and a save that is under way may leave the flow empty (`torn`), the index empty, or the index behind (`CutSave`).
`owner`, `dropped`, `stale` and `careless` are history: which flow a run was launched for, which runs no link names because their launch
threw, died or was overtaken, which flows a crash has left listed wrongly, and which an update has left waiting for nothing. **`ControllerFlowProofs`** has its theorems.

**`Preflight`** - one workflow on its way through `compileWorkflow` (`Normalize`, `CheckIds`, then the
recursive search of `detectCycles` with its stack spelled out: `VisitStep`, `VisitDependency`,
`Leave`, `EndVisits`), `buildProofBundle` (`Classify`) and an execution of what was accepted
(`Dispatch`, `Finish`). `InferCell`, `Failures`, `Decision`, `Allowed` and `Handled` are the tables of the
normaliser, the classifier, the policy artifact and the cells. An id is a number, and one number more
than there are steps is an id nobody has. **`PreflightProofs`** has its theorems.

**`NativeController`** - the prototype: `flow` is what the TaskFlow service keeps (external, modelled
from the binding the prototype declares: a mutation applies to the revision it expects), `runs` what ToolFlow
reports, `wake` the local variables of each `onWake`. Every await is a step: `Reconcile` (one
`getRunStatus`), `Review`, `Decide`, `Launch`, `Mutate`, or `Unsupported` for a decision `advance`
has no branch for. `lost` is history: the runs that only a wake knew of whose mutation was not applied.
**`NativeControllerProofs`** has its theorems.

**`ProgressMonitor`** - discrete time; `phase` is where `resumeWorkflow` is, and `Start`, `ApprovalWait`, `StepStarted`,
`StepCompleted`, `RunCompleted` and `Throw` are its calls to the monitor; `timer`,
`longRunningStarted` and `lastLongRunningAt` are the monitor's variables, `Tick` is the interval. `emitted` is
what the last action told the reporter, as a set. `Resolved` is what `resolveConfig` makes of a
setting. Its theorems are in `LongCommandsProofs`.

**`ElevatedCell`** - one request to the elevated cell: `RunElevatedCell` up to its first wait, `PatchWritten`, then a child
with a timer (`Spawn`), which ends by itself or of the signal (`ChildExits`, `PipesClose`), the timer (`TimeIsUp`, `KillRefused`),
the `close` event (`Close`) and the answer (`Answered`). What a child does with SIGTERM is its nature: prompt, lingering
(a descendant keeps its pipes) or stubborn. `Delay` is what `setTimeout` makes of a delay that is out of its range.

**`LongCommands`** - the two on one event loop and one clock (**`Clock`**): a step of the resume starts a request and the monitor
hears of it, the answer ends the step, and time passes only when no callback of either is due. **`LongCommandsProofs`** has its theorems.

Each module with runs has a module of small instances, named after it with `MC`.

## 3. What the runs check

Small instances of the run service: either the chain of two steps of `MCRunService` (a read step,
then an elevated `review_before_replay` step that needs it), or a single elevated step. Each run
names the commands, faults, grants, approvals and processes it allows; grants and approvals bound how
often a step can be dispatched and approved, and so bound every behaviour. Identical grants,
approvals, payloads and processes are symmetric, except in `Liveness`, where symmetry would be unsound.

| Run | Instance | What it shows |
|---|---|---|
| `Sequential` | 2 steps, 1 process, 3 grants, 2 approvals, all commands, crashes and power loss between file accesses | An operator who runs one command at a time: no outcome on file is overlooked (`OnlyOutcomeIsReported`), a granted step is quarantined only when its receipt is lost (`QuarantineMeansLostReceipt`), and consumed work is done again only when its receipt is lost and its replay class allows it (`ConsumedWorkIsNotRedone`); a run that was cancelled or rejected is revived by no command but `recover` (`OnlyRecoverRevives`). `SequentialInv` is the invariant that the proofs of these use; it contains `LedgerInv` and the types. With one step in between, 3 grants are a first execution, a replay and a replay of the replay. |
| `Concurrent` | 2 steps, 2 processes, 2 grants, 1 approval; resume, approve, recover | `DependenciesFirst`, `SuccessIsEarned`, `WaitingNamesAStep`, `RecoverySettles` although both processes write back stale manifests. No faults: a process that is killed is a process that is not scheduled, as far as these properties go, except that its slot is free again. |
| `TornFiles` (`TornLedger`) | 1 step, 2 processes, 1 grant, 1 approval, 2 payloads, graph editable; resume (with its recovery), approve; crashes and power loss between and within file accesses | `ApprovedPayloadOnly` although approvals, edits and resumes race between minting and use, and grants, approvals and manifests are met empty or garbled; `LedgerInv`, the invariant the proofs use; a run whose manifest a crash has torn is carried on by no command (`TornRunIsFrozen`). One grant is one dispatch, for which both processes compete; the theorems below have no such bound. |
| `Liveness` | 2 steps, 1 process, 2 grants, 1 approval, 2 payloads, graph editable; resume, approve, recover; crashes, fair operator | `CommandsReturn`, `RunReachesAnEnd`, and the refinement `ImplementsApprovalGate`. |

The properties of `Sequential` are restricted on purpose: they are false when commands
overlap (a recovery then voids a grant that another process is using), which is why they are checked
with one process and proved for one (`OneAtATime`).

**Fairness** (`Liveness` only). A command that has started goes on (`WF` on `Continue`): its code
has no wait but the handler's, and a handler ends because `spawnCapture` signals a child that exceeds its timeout.
That is what `LongCommands` is about; a child that ignores the signal keeps the command waiting, and is left out of `Liveness`. An operator who is asked to resume or approve does so
again and again (`SF`, because a crash may interrupt each attempt). The code itself starts nothing:
without such an operator no run makes progress, so the assumption is the documented use (`src/docs/operator-playbook.md`).
`RunReachesAnEnd` excludes behaviours in which the process is killed for ever, and both properties
let a behaviour stop where the bound on grants or approvals is reached (`Starved`).

**Runs that end in a violation.** Each checks one statement of the documents that the code does not
keep; `PROJECT.json` quotes them.

| Run | What TLC finds |
|---|---|
| `SilentReplay` | the handler acts and then throws; recovery finds the grant still issued and requeues a `review_before_replay` step, which acts again on the same approval (the run has no faults; a process that dies after its handler acted leaves the same grant) |
| `LostApproval` | an approval given while a resume is under way is on file, and the step waits for it for ever |

### The mirror, the controllers, preflight, progress

| Run | Instance | What it shows |
|---|---|---|
| `Mirrors` | 2 runs of an elevated step; 2 processes, all commands, overlaps and crashes, an index torn once; recoveries mirrored elsewhere; 3 manifests, each stamped with either of 2 times | `MirrorNeverAhead`: a mirror record says, with its time, what the manifest has said at some time. It does not compare times: two manifests may have the same one, and the older may be written last. `MirrorFollowsLedger`: a run at rest shows what its manifest says, unless its last command was overlapped, killed or a recovery (`loose`). `IndexIsComplete`: so does the index, unless two processes were at work or it was torn. Three manifests are a preparation and two writes of commands that overlap, or two preparations and a command. |
| `ControllerFlows` | 1 flow, 2 runs, 2 launches that may overlap, 2 updates and commands from outside, the plugin killed at any time | `IndexIsTrue`: the index is wrong only about a flow whose save was cut, or about those not saved since it was emptied. `LinksAreKept`: a link is lost only to a launch that read the flow before it was made. `WaitsAreNamed`: a flow that waits for nothing was made to by an update, which may set anything. `LastStopDecides` while runs move between the reads of a reconciliation. |
| `Workflows` | all 4096 dependency relations over 3 steps and an unknown id; every id, cell and action of two steps; every lane setting | `CyclesAreFound` (the search rejects exactly the cyclic graphs, diamonds included), `AcceptedNeverStalls`, `Terminates`; `OnlyAllowedSucceed`: a step succeeds only with an action its cell handles and, if elevated, with the lane enabled, although the tables involved never look at each other; `DryRunForetells`: a dry run differs from the run only for an elevated step whose lane the caller configured. Three nodes have every shape of cycle and the smallest diamond with a shared end. |
| `WakesOverlap` | 2 wakes, 2 runs, 3 mutations, three statuses (one for each result of the mapping) | `LinksAreNeverLost`, `LinksNameRuns`, `DoneIsReviewed`, and `EveryRunIsReferenced` unless a mutation was not applied. Three mutations let a wake be overtaken, retried and overtaken again. |
| `LongCommands` | 2 steps, 3 settings of each duration (below the bounds of the timer, unset, invalid), 12 units of time; a binary on the allowlist and one that is not, a timeout of 3 and one that `setTimeout` cannot hold, every nature of child | `NoLongSilence`, `SilentAtRest` while children hang; `ResultIsEarned` (a success is that of a child that exited with 0 and left nobody its pipes; a request for a binary off the list never gets a child) and `NoChildIsLeft` although kills race with exits, pipes outlive children and kills are refused; `CommandTimeIsBounded`. Twelve units are three of the longest intervals, or the two longest commands one after the other. |
| `Directories` | 2 runs, a process of the command line, a call of the plugin, 3 secrets, kills at any access | `OnlyManifestFails`: whatever makes a run unreadable, the command fails on the manifest and not halfway. `HoldersAgree`, `KeysAreKept`: two commands hold different keys of a lane only if both were making the first one. Two runs make the latest differ from the other; three secrets are one on file and one for each caller. |

`Workflows` assumes weak fairness of `Next`: compile,
classify and the loop are one sequential program that nothing interrupts. In `ProgressMonitor` and `LongCommands` a callback that is
due runs before time goes on: the process waits for children and files without blocking its event loop.
The durations keep the order they have in the code (`MinGap`, `MinTick`, `MaxTick` for 1, 30 and 60 seconds) and not their size.

### Disagreements met while modelling that no run refutes

The models do what the code does in each of these cases; the properties above except them or say less than the document.

| Code | Document or test | Where the model has it |
|---|---|---|
| `recovery-service.ts:44`: `recover` makes a cancelled run ready, and `:115` one that preflight rejected | `tests/mvp.test.mjs:225` cancels a run as its end; `implementation-status.md:35-36`, the lane is disabled unless enabled | `Settled`, `DeriveRunState`; `OnlyRecoverRevives` excepts `recover` |
| `recovery-service.ts:48`: a step that is replayed keeps its old `receiptId`, which is looked at before the current grant | `architecture.md:11`, receipts are the canonical record | `FoundReceipt`; reached by approving a step that has finished |
| `recovery-service.ts:36`: a recovery is mirrored under the default root, whatever root is configured | `implementation-status.md:28` | `MirrorsElsewhere`; `MirrorFollowsLedger` excepts `loose` runs |
| `manifests.ts:6`: two manifests may have the same `updatedAt`, and one with an earlier time may be written after the other, so `taskflow-mirror.ts:139,173` may show another run than the latest, and a mirror record may have a later time than its manifest | the name, `latestRun` | `WriteManifest` takes any of `Times`; the order of the index is not modelled |
| `taskflow-controller.ts:221`: an update may set the status `waiting` without a `waitJson`, or take the `waitJson` away | `native-taskflow-integration-architecture.md:274`, "A TaskFlow cannot remain in `waiting` without structured `waitJson`." | `Update`; `WaitsAreNamed` excepts `careless` flows |
| `taskflow-controller.ts:181`: a launch saves the flow it read before the run, over the links other launches have made meanwhile | the same, `:270`, "Every ToolFlow run linked to a job must be referenced in TaskFlow `stateJson`." | `Attach`; `LinksAreKept` excepts `dropped` runs |
| `taskflow-controller.ts:164`: a launch that throws leaves a run that no flow references | the same, `:270` | `LaunchThrows` |
| `taskflow-controller.ts:205`: a reconciliation or a late launch makes a finished flow run again | the same, `:214-218` (terminal) | `Mapped`, `Attach` |
| `taskflow-controller.ts:205`: a finished run that is listed after a blocked one hides it | the same, `:224` | `Mapped`; `LastStopDecides` says which run decides |
| `controller-loop.ts:88`: a mutation that is refused is not retried, and the run launched before it is referenced by nobody | the same, `:338-340` | `Mutate`; `EveryRunIsReferenced` excepts `lost` runs |
| `run-service.ts:206`: a dry run ignores its caller's configuration | `implementation-status.md:22` | `DryRunEnabled`; `DryRunForetells` names the exception |
| `resolve.ts:12,19`: a duration that is unset is read as 0, and not as the default | `defaults.ts:11` | `Resolved` in `ProgressMonitor` |
| `store.ts:48`: the latest run is the greatest of random ids, so it may be any run, one that is only half prepared included | `entry.ts:88`, "Read ToolFlow run status for a specific run or the latest run." | `LatestRunId` |
| `runner.ts:18` (elevated): the cell reads the allowlist of its environment and not the one its caller configured | `runtime-client.ts:13`, `elevatedAllowedCommands` | `Allowed` in `ElevatedCell` |
| `store.ts:25`: a run whose manifest a crash has torn is read by no command, `recover` included | `operator-playbook.md:97-105`, recovery is the way back from an interruption | `TornRunIsFrozen` |
| `runner.ts:56` (elevated): a timeout beyond 2^31-1 ms is one of 1 ms | the payload's `timeoutMs` | `Delay`; `CommandTimeIsBounded` speaks of the delay that results |

## 4. What is proved

Every type invariant, safety invariant and action property that a passing run checks is also a theorem. What is left to TLC is
liveness: `CommandsReturn`, `RunReachesAnEnd` and `Terminates`, because fairness and `ENABLED` are out of reach of TLAPS,
and the violations of section 3. Each component has a module of proofs; the lemmas about manifests that several of
them need are in `RunLifeProofs`.

### The run service

`RunServiceProofs` proves, with no bound on steps, processes, grants, payloads or approvals and with all commands and
faults at once, from `GraphAssumption`, `GrantIdAssumption` and
`RecordAssumption` (a dependency is a step, an absent value is neither an id nor a record):

| Theorem | Statement |
|---|---|
| `LedgerHolds` | `Spec => []LedgerInv` |
| `TypeCorrect` | `Spec => []TypeOK` |
| `OnlyApprovedPayloads` | `Spec => []ApprovedPayloadOnly` |
| `DependenciesComeFirst` | `Spec => []DependenciesFirst` |
| `SuccessesAreEarned` | `Spec => []SuccessIsEarned` |
| `WaitsNameAStep` | `Spec => []WaitingNamesAStep` |
| `RecoverySettlesRuns` | `Spec => RecoverySettles` |
| `RunServiceImplementsGate` | `Spec => ImplementsApprovalGate` |

**The argument.** None of the properties is inductive. They hold although any process may write back
an arbitrarily old manifest, because everything a manifest claims is a fact that is never taken back: that a grant
belongs to a step, that an effect succeeded, that an approval binds a payload. `LedgerInv` says so
of the manifest on disk *and of every copy in memory* (`Truthful`), ties each program point to what
must be true there (`LoopOK`, `DispatchOK`, `RecoveryOK`, `GraphOK`), and says that no two processes dispatch
the same grant (`DispatchesDiffer`). Its parts take the grants, the bindings and the effects as
parameters; the lemma `KnowledgeGrows` shows that they survive when these grow (a new grant, a new
binding, a first effect), and `Frame` lifts that to all processes but the one that acts. Each action
then has a step of its own in `NextInv` that deals with what the action changes. The action property and the
refinement follow from the invariant in the state before the step.

It also proves, from the same assumptions, that none of it depends on files being written at once:

| Theorem | Statement |
|---|---|
| `LedgerHoldsTorn` | `TornSpec => []LedgerInv` |
| `OnlyApprovedPayloadsTorn` | `TornSpec => []ApprovedPayloadOnly` |
| `TornLedgerImplementsGate` | `TornSpec => ImplementsApprovalGate` |
| `TornRunsAreFrozen` | `TornSpec => TornRunIsFrozen` |

`TornLedger` is not a refinement of `RunService`: a command may return, or ask again for an approval that is on file,
where `RunService` would go on. `TornSteps` shows that every step is a step of `RunService`, a stutter, or one of those
two, and the lemmas `ReturnStep` and `AskForInv` deal with those.

**One command at a time.** The last five theorems have one more hypothesis, `OneAtATime`: any two processes are equal, which is
an operator who waits for a command to end or to be killed before the next. The statements are false without it.

| Theorem | Statement |
|---|---|
| `ManifestsAccount` | `OneAtATime` implies `Spec => []SequentialInv` |
| `OutcomesAreReported` | ... `Spec => []OnlyOutcomeIsReported` |
| `QuarantinesAreExplained` | ... `Spec => []QuarantineMeansLostReceipt` |
| `RevivalsAreRecoveries` | ... `Spec => OnlyRecoverRevives` |
| `ConsumedWorkIsDoneOnce` | ... `Spec => ConsumedWorkIsNotRedone` |

`LedgerInv` says that what a manifest claims is true; these need the converse, that a manifest claims *enough*. `SequentialInv` says
that the manifest and the one copy of it in memory account for every consumed grant (`StepAccounts`): the only outcome of a step
is named, or the step was left open under that grant, so that recovery will look; consumed work is not on offer again unless it
may be replayed; and a quarantine is explained. A run that is neither running nor cancelled has no step in the middle
(`RestIsSettled`), and that is why the first half of "named or left open" is all that remains when a run is at rest. `AloneOK` gives each
program point what the next action needs: that the copy in memory is still the manifest (`MemoryIsCurrent`), that one step
is open and the others are not (`OneStepOpen`), and that the grant in use was minted under the approval on file (`GrantHeld`). Steps that nothing is
done to age all the same, as other grants are minted and receipts are lost: `Ages` says how files may change for a step, and the lemma
`AccountAges` that what the manifest says of it still accounts for it. That a consumed grant's record names its receipt
(`ReceiptsAreNamed`) is what lets `FoundReceipt` find it without the manifest.

### The mirror

`TaskflowMirrorProofs` proves, for every graph and any number of runs, processes and manifests, from `MirrorAssumption`
and `GraphAssumption`:

| Theorem | Statement |
|---|---|
| `MirrorInvariant` | `Spec => []MirrorInv` |
| `MirrorIsNeverAhead` | `Spec => []MirrorNeverAhead` |
| `MirroredWaitsNameAStep` | a mirror record that says `waiting` says for which step |
| `MirrorsFollow` | `Spec => []MirrorFollowsLedger` |
| `IndexesAreComplete` | `Spec => []IndexIsComplete` |

The first property rests on `NeverAhead`: what a process has in hand between the manifest and the mirror is a manifest that the
manifest has said, with its stamp. The others tie the files to program points: a run that is not `loose` has one process
at work at most (`OneWorker`), and how far that one has got says which files agree (`Followed`); while no two processes
have overlapped (`OneProcess`) the index is the one that was read (`Indexed`).

### The controller

`ControllerFlowProofs` proves, for every graph and any number of flows, runs and launches, from `ControllerAssumption`, `StepAssumption` and
`GraphAssumption`:

| Theorem | Statement |
|---|---|
| `ControllerInvariant` | `Spec => []ControllerInv` |
| `IndexAlwaysTrue` | `Spec => []IndexIsTrue` |
| `LinksAreAlwaysKept` | `Spec => []LinksAreKept` |
| `WaitsAreAlwaysNamed` | `Spec => []WaitsAreNamed` |
| `LastStopAlwaysDecides` | `Spec => LastStopDecides` |

Links name prepared runs (`LinksOK`), every prepared run has an owner and a launch is of a run of its flow (`OwnersOK`), and a
reconciliation that is under way holds the links of the flow on file, with the status that the links it has come to call for
(`LoopOK`, an invariant of the loop). `LastStopDecides` follows from that at the loop's end; `WaitsAreNamed` needs the same of every copy
of a flow that is to be saved (`NamedOK`), and holds because a run that awaits approval has a step that does (`Waits`, from `RunLifeProofs`).

### Preflight

`PreflightProofs` proves, for any set of workflows of any size, from `WorkflowAssumption`:

| Theorem | Statement |
|---|---|
| `CyclesAreAlwaysFound` | `Spec => []CyclesAreFound` |
| `AcceptedRunsGoOn` | `Spec => []AcceptedNeverStalls` |
| `OnlyAllowedActionsSucceed` | `Spec => []OnlyAllowedSucceed` |
| `DryRunsForetell` | `Spec => []DryRunForetells` |

A graph is acyclic when its steps can be numbered so that every step comes after those it depends on (`Numbers`). `SearchInv` says what
the search knows meanwhile. The calls that are open are a path of dependencies along which the numbers of any numbering fall (`Path`), so a
call that is met again is a cycle. The calls that have ended can be numbered in the order in which they did (`Numbered`), so a search
that ends without a cycle has found a numbering. A run does not stall because the pending step of the least
number has all it depends on done (`AcceptedRunsGoOn`, with `ExecutionInv`).

### The native controller

`NativeControllerProofs` proves, for any number of runs, wakes and mutations, from `NativeAssumption`:

| Theorem | Statement |
|---|---|
| `NativeInvariant` | `Spec => []FlowInv` |
| `LinksNameRunsAlways` | `Spec => []LinksNameRuns` |
| `EveryRunIsReferencedAlways` | `Spec => []EveryRunIsReferenced` |
| `LinksAreNeverLostAlways` | `Spec => LinksAreNeverLost` |
| `DoneIsReviewedAlways` | `Spec => DoneIsReviewed` |

`WakeOK` says what a wake may hold while others overtake it: links that name existing runs, each once (`Sound`), and, before it launches
one, no run that the flow does not know (`OnlyKnown`). A wake that no mutation has overtaken (`Current`) goes on from the
flow's own list (`GoesOn`) and has looked at all of it (`Reviewed`). As a mutation applies only to the revision it expects,
that is all the service ever writes.

### Progress and long commands

`LongCommandsProofs` proves of `ProgressMonitor`, for every workflow, setting, default and timer period, from
`ProgressAssumption` (the constants are numbers, and marks such as `Unset` are not):

| Theorem | Statement |
|---|---|
| `ProgressTypeCorrect` | `Spec => []TypeOK` |
| `SilencesAreBounded` | `Spec => []NoLongSilence` |
| `RestIsSilent` | `Spec => SilentAtRest` |

`NoLongSilence` speaks of the time, which moves without anything happening, so it is not inductive.
What bounds the time is the timer: `TimerInTime` says that the next tick is at most one period after the
update that is due, and that an update once given is not held back by the threshold again; time
does not pass a tick.

It proves of `LongCommands`, for every list of binaries, timeout, default, grace and setting, from `ProgressAssumption` and `CellAssumption`:

| Theorem | Statement |
|---|---|
| `LongCommandsAreMonitored` | `LongSpec => Spec` (of `ProgressMonitor`) |
| `HangsAreReported` | `LongSpec => []NoLongSilence` |
| `ResultsAreEarned` | `LongSpec => []ResultIsEarned` |
| `ChildrenEnd` | `LongSpec => []NoChildIsLeft` |
| `CommandTimesAreBounded` | `LongSpec => []CommandTimeIsBounded` |

The first is a refinement: every step of the composition is a step of the monitor or a stutter, so that what is proved of the monitor
holds while children hang. The others need `CellInv`: while a request waits, either the timer is still set and due at
the start of the child plus its limit, or the signal was sent no earlier than that (`TimerOK`); a prompt
child is gone in time (`ChildOK`); and only a patch is written before a child is started, so that a request for a binary off the list has been refused
by then (`RestingOK`).

### Run directories and keys

`RunDirectoryProofs` proves, for any number of runs, callers and secrets, from `DirectoryAssumption`:

| Theorem | Statement |
|---|---|
| `DirectoryInvariant` | `Spec => [](KeyInv /\ DirInv)` |
| `HoldersOfKeysAgree` | `Spec => []HoldersAgree` |
| `SettledKeysAreKept` | `Spec => KeysAreKept` |
| `OnlyManifestsFail` | `Spec => []OnlyManifestFails` |

`KeyInv` says of each lane without a race that at most one caller makes its key, that there is none on file
meanwhile (`OneMaker`), and that what callers hold is what is on file (`Agreed`). The action property needs no invariant but the
types, as it speaks of lanes whose key nobody is making. `DirInv` says where each command stands: it is at a certain access of a
preparation, with exactly the files before that written (`Laid`), or it is about to read a manifest, or it works on a run that is complete
(`Commands`). Nobody prepares another's run (`OnePreparer`), and a manifest is begun only in a complete run (`ManifestIsLast`), so that a command
which has read one finds the rest.

## 5. What is left out

- *Of the run service:* event log and progress notifications (written, never read back), step outputs under `artifacts/`,
  error texts and timestamps. Signatures and hashes are taken to do their job: a request is built from the very graph
  node its grant was minted for.
- *Torn writes:* receipts and step outputs are new files that nothing names before they are whole, and are written in one
  step; a torn receipt that a crash leaves is named by nothing and only makes `getRunReceipts` fail, which parses all of them.
  `RunDirectory` has processes that are killed but no power failure. A file that is read while it is being filled is empty or whole,
  as the texts fit one `write` call.
- *Liveness with children that ignore SIGTERM* is not claimed, because the code does not end such a wait.
- `createdAt`-based expiry: whether a grant has expired is a free choice at `Refuse` and `VoidGrant`.
- *Mirror and controller:* summaries and texts. `IndexIsComplete` of the mirror with several processes is not claimed.
  The torn mirror index is bounded to one per behaviour, and the mirror record itself is written in one step.
- *Preflight:* variables, capabilities, side effects and cost are reported and decide nothing.
- *Progress:* the sinks. `onApprovalWait` reports a long run however short it was; the code forces it.
- *Elevated cell:* what a child prints, its working directory and arguments. A child that dies with the process that
  started it, or outlives it, is not modelled: the process of `LongCommands` is not killed.
- *Run directories:* what is in the files, and the grants, approvals and receipts, which `TornLedger` has. Calls of the plugin
  take turns at every access, while the code lets them do so only where a step is awaited: more interleavings than there are,
  which the command line's processes have anyway.
- *Keys:* signing and verifying. Nothing in the code verifies a receipt after it was written.
- *`receipts`, `doctor`, `validate`, templates, gateway clients, schemas, hashing:* no state of their own.

## 6. The plan

Done so far: the run service with recovery, bridges and approvals (modelled, checked, proved, with the refinement of
`ApprovalGate`), and the same over files that can be torn; the mirror and the controllers that are fed by it, preflight, and the progress
monitor; the elevated cell within a monitored resume; the run directories and keys; and proofs of all
safety properties of all of them. Next, in this order:

1. **Composition.** The mirror refines an abstract register that holds some manifest the ledger has held and is at rest the
   latest; the controller's flow as the composition of `TaskflowMirror` and `ControllerFlow`, whose reconciliation reads
   mirror records that lag behind instead of manifests; `LongCommands` with `Execute` of `RunService`, so that a process may be killed
   while a child goes on. Each of these is a refinement to be proved as well as checked.
2. **Smaller parts.** The ordinary cells' file access, and power failures in `RunDirectory`.


