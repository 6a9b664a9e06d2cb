------------------------ MODULE SequentialInvariant ------------------------
(***************************************************************************)
(* What is true besides LedgerInv when the operator runs one command at a  *)
(* time, which is to say when there is one process: it is the inductive    *)
(* invariant behind the properties of RunService about such an operator.   *)
(*                                                                         *)
(* The manifest and the one copy of it in memory may then be read together *)
(* with the other files: each accounts for every grant that was consumed.  *)
(* As in RunServiceInvariant the files are parameters: approvals (ap),     *)
(* grants (gr), receipts (rc) and the effects (ef).                        *)
(***************************************************************************)
EXTENDS RunServiceInvariant

\* One process runs one command after the other.
OneAtATime == \A p, q \in Procs : p = q

\* The grant was consumed under the approval that is still on file.
Consumed(g, ap, gr) ==
    gr[g] # None /\ gr[g].state = "consumed" /\ gr[g].approval = ap[gr[g].step]

\* Its receipt is the only outcome the step ever had.
OnlyOutcome(g, ap, gr, rc, ef) ==
    /\ Consumed(g, ap, gr)
    /\ rc[g] # "none"
    /\ \A h \in Grants \ {g} : ef[h] # "none" => gr[h].step # gr[g].step

Replayable(g, gr, rc) == rc[g] = "none" /\ ~ReviewRequired(gr[g].step)

\* The step record st was left in the middle of the execution under grant g.
LeftOpen(st, g) == st.grant = g /\ st.state \in {"grant_issued", "running", "cancelled"}

\* What the record st of step s in some copy of the manifest owes to the grants:
\* a quarantine is explained by a lost receipt; the only outcome is named, or
\* recovery will still find it; and work that was consumed is not on offer again
\* unless it may be replayed.
StepAccounts(st, s, ap, gr, rc, ef) ==
    /\ st.state = "quarantined" /\ st.grant # None =>
         gr[st.grant].state = "consumed" /\ rc[st.grant] = "none"
    /\ \A g \in Grants : gr[g] # None /\ gr[g].step = s =>
         /\ OnlyOutcome(g, ap, gr, rc, ef) => st.receipt = g \/ LeftOpen(st, g)
         /\ Consumed(g, ap, gr) =>
              \/ Replayable(g, gr, rc)
              \/ st.state \in {"succeeded", "failed", "quarantined"}
              \/ LeftOpen(st, g)

Accounts(m, ap, gr, rc, ef) ==
    \A s \in Steps : StepAccounts(m.steps[s], s, ap, gr, rc, ef)

AllSettled(m) == \A s \in Steps : Settled(m, s)

\* A run that is neither running nor cancelled has no step in the middle.
RestIsSettled(m) == m.state \notin {"running", "cancelled"} => AllSettled(m)

\* The record of a consumed grant names its receipt.
ReceiptsAreNamed(gr) ==
    \A g \in Grants : gr[g] # None /\ gr[g].state = "consumed" => gr[g].receipt = g

\* From the minting of a grant to its consumption.
HoldingPCs == DispatchPCs \ {"settle"}

\* Nobody else writes the manifest, so the copy in memory differs from it only
\* between an edit and the write that publishes it.
MemoryIsCurrent(r, m) ==
    r.pc \in {"recover", "reload", "begin", "start", "loop", "verify", "execute", "receipt",
              "consume", "approve", "approving"} => r.mem = m

\* The state of the run at each point of a command.
RunStateOK(r, m) ==
    /\ r.pc = "recover" => m.state = "running"
    /\ r.pc \in {"reload", "begin", "start"} => m.state \notin {"running", "cancelled", "rejected"}
    /\ r.pc \in DispatchPCs \cup {"loop"} => m.state = "running"
    /\ r.pc = "publish" =>
         /\ RestIsSettled(r.mem)
         /\ m.state \in {"cancelled", "rejected"} => r.mem.state = m.state

\* The engine works on one step; the others are at rest, and those on its list
\* are still pending.
OneStepOpen(r) ==
    /\ r.pc \in {"loop", "settle"} => AllSettled(r.mem)
    /\ r.pc \in HoldingPCs =>
         /\ r.mem.steps[r.step].state \in {"grant_issued", "running"}
         /\ \A s \in Steps \ {r.step} : Settled(r.mem, s)
    /\ r.pc \in DispatchPCs \cup {"loop"} =>
         \A s \in r.todo : r.mem.steps[s].state = "pending"

\* The grant in use is neither consumed nor dead, and was minted under the
\* approval on file.
GrantHeld(r, ap, gr) ==
    /\ r.pc \in HoldingPCs \cup {"void"} => gr[GrantAt(r)].state = "issued"
    /\ r.pc \in HoldingPCs => gr[GrantAt(r)].approval = ap[r.step]

AloneOK(r, m, ap, gr, rc, ef) ==
    /\ r.pc # "idle" => Accounts(r.mem, ap, gr, rc, ef)
    /\ MemoryIsCurrent(r, m)
    /\ RunStateOK(r, m)
    /\ OneStepOpen(r)
    /\ GrantHeld(r, ap, gr)

\* The invariant of an operator who runs one command at a time: every manifest,
\* on disk or in memory, accounts for every grant that bridges consumed and
\* recoverStep may come across.
SequentialInv ==
    /\ LedgerInv
    /\ ReceiptsAreNamed(grants)
    /\ Accounts(manifest, approvals, grants, receipts, effects)
    /\ RestIsSettled(manifest)
    /\ \A p \in Procs : AloneOK(proc[p], manifest, approvals, grants, receipts, effects)
=============================================================================
