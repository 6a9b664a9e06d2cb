----------------------------- MODULE TornLedger -----------------------------
(***************************************************************************)
(* The run service over files that are written in two steps.               *)
(*                                                                         *)
(* LedgerStore.writeJson calls writeFileSync, which opens the file with    *)
(* truncation and then writes the new text from its beginning.  Between    *)
(* the two the file is empty; a process that dies there leaves it so; and  *)
(* two processes that both truncated it first write over each other, which *)
(* garbles it when the second text is the shorter.  Readers of a file that *)
(* is not whole fail to parse it.  For the manifest and the grants the     *)
(* failure ends the command; an approval then counts as absent.            *)
(*                                                                         *)
(* A new grant or receipt needs no such care: no file names it before it   *)
(* is written.  The variables of RunService hold what was last written.    *)
(***************************************************************************)
EXTENDS RunServiceInvariant

VARIABLES
    text,   \* file |-> whether what is in it can be parsed
    open    \* the processes that have truncated the file they are about to write

tornVars == <<vars, text, open>>

ManifestFile == <<"manifest">>
GrantFile(g) == <<"grant", g>>
ApprovalFile(s) == <<"approval", s>>

Files == {ManifestFile} \cup {GrantFile(g) : g \in Grants} \cup {ApprovalFile(s) : s \in Elevated}

Whole(f) == text[f] = "whole"

TornInit ==
    /\ Init
    /\ text = [f \in Files |-> "whole"]
    /\ open = {}

-----------------------------------------------------------------------------
(* Writing.                                                                *)

WritesManifest(p) ==
    \/ proc[p].pc \in {"start", "minted", "settle", "publish"}
    \/ proc[p].pc \in {"loop", "inspect"} /\ proc[p].todo = {}

WritesGrant(p) == proc[p].pc \in {"consume", "void"}

WritesApproval(p) == At(p, "approving")

\* The file that p writes next.
Target(p) ==
    IF WritesManifest(p) THEN ManifestFile
    ELSE IF WritesGrant(p) THEN GrantFile(CurrentGrant(p))
    ELSE ApprovalFile(proc[p].step)

\* A grant is read again just before it is written.
Open(p) ==
    /\ p \notin open
    /\ WritesManifest(p) \/ WritesApproval(p) \/ (WritesGrant(p) /\ Whole(Target(p)))
    /\ open' = open \cup {p}
    /\ text' = [text EXCEPT ![Target(p)] = "empty"]
    /\ UNCHANGED vars

\* The text lands in an empty file, or over what another process has written
\* there since p truncated it.
Write(p) ==
    /\ p \in open
    /\ \/ Begin(p) \/ PublishRunning(p) \/ PublishResult(p) \/ Finish(p) \/ Publish(p)
       \/ PublishRecovery(p) \/ ConsumeGrant(p) \/ VoidGrant(p) \/ WriteApproval(p)
    /\ open' = open \ {p}
    /\ \E t \in {"whole"} \cup (IF text[Target(p)] = "empty" THEN {} ELSE {"garbled"}) :
         text' = [text EXCEPT ![Target(p)] = t]

-----------------------------------------------------------------------------
(* Reading.                                                                *)

\* Mutant: what cannot be parsed is taken for what the file held before.
ReadManifestAnyway(p) == Start(p) \/ ResumeRecovers(p) \/ Reload(p)

ReadManifest(p) ==
    /\ Whole(ManifestFile)
    /\ Start(p) \/ ResumeRecovers(p) \/ Reload(p)

\* readApproval: what cannot be parsed counts as absent.
OnFile(s) == approvals[s] # None /\ Whole(ApprovalFile(s))

\* The approval of the step that is next in the loop.
ReadApproval(p) ==
    \/ AwaitApproval(p)
    \/ Mint(p) /\ \A s \in Elevated : First(proc[p].todo, s) => OnFile(s)
    \/ /\ At(p, "loop")
       /\ \E s \in Elevated : First(proc[p].todo, s) /\ ~OnFile(s) /\ AskFor(p, s)
       /\ UNCHANGED <<ledger, effects>>

\* Both bridges read the grant, the elevated one also the approval.
VerifyRead(p) ==
    /\ Verify(p)
    /\ Whole(GrantFile(CurrentGrant(p)))
    /\ grants[CurrentGrant(p)].step \in Elevated => OnFile(grants[CurrentGrant(p)].step)

\* The grants that recoverStep reads for its next node: that of an interrupted
\* step whose receipt the manifest does not lead to.
GrantsRead(p) ==
    {proc[p].mem.steps[s].grant : s \in
       {t \in Steps : /\ First(proc[p].todo, t)
                      /\ ~Settled(proc[p].mem, t)
                      /\ ~Readable(proc[p].mem.steps[t].receipt)}} \ {None}

RecoverRead(p) ==
    /\ RecoverStep(p)
    /\ \A g \in GrantsRead(p) : Whole(GrantFile(g))

\* readManifest or readGrant throws, and no command catches it.
FailToRead(p) ==
    /\ \/ proc[p].pc \in {"recover", "reload"} /\ ~Whole(ManifestFile)
       \/ p \notin open /\ WritesGrant(p) /\ ~Whole(Target(p))
       \/ At(p, "inspect") /\ \E g \in GrantsRead(p) : ~Whole(GrantFile(g))
    /\ Return(p)
    /\ UNCHANGED <<ledger, effects>>

-----------------------------------------------------------------------------
\* The steps of RunService that read only the graph or write only a new file.
Alone(p) == ReadGraph(p) \/ Refuse(p) \/ Execute(p) \/ WriteReceipt(p)

Read(p) ==
    /\ \/ ReadManifest(p) \/ ReadApproval(p) \/ VerifyRead(p) \/ RecoverRead(p)
       \/ FailToRead(p) \/ Alone(p)
    /\ UNCHANGED <<text, open>>

\* A process that dies in the middle of a write leaves the file as it is.
TornCrash(p) ==
    /\ Crash(p)
    /\ open' = open \ {p}
    /\ UNCHANGED text

TornPowerLoss ==
    /\ PowerLoss
    /\ open' = {}
    /\ UNCHANGED text

TornNext ==
    \/ \E p \in Procs : Open(p) \/ Write(p) \/ Read(p) \/ TornCrash(p)
    \/ TornPowerLoss
    \/ EditPayload /\ UNCHANGED <<text, open>>

TornSpec == TornInit /\ [][TornNext]_tornVars
-----------------------------------------------------------------------------
(* What a crash in the middle of a write does to a run.                    *)

\* No command is under way and the manifest cannot be parsed.
Abandoned == (\A p \in Procs : At(p, "idle")) /\ ~Whole(ManifestFile)

\* A run whose manifest a crash has torn is frozen for good: no command, recover
\* included, reads it again, and none carries anything out for it or changes
\* what is recorded of it.
TornRunIsFrozen ==
    [][Abandoned => Abandoned' /\ UNCHANGED <<manifest, approvals, bound, grants, effects>>]_tornVars
=============================================================================
