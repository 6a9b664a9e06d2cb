------------------------ MODULE RunServiceInvariant ------------------------
(***************************************************************************)
(* The inductive invariant behind the safety properties of RunService.     *)
(* Each file, each copy of the manifest that some process holds and each   *)
(* point of the program is tied to what the handlers really did.           *)
(*                                                                         *)
(* The predicates about a copy of the manifest and about a process take    *)
(* the grants (gr), approval bindings (bd) and effects (ef) as parameters, *)
(* so that "it holds before" and "it holds after" are two instances of one *)
(* predicate and a proof can compare them.                                 *)
(***************************************************************************)
EXTENDS RunServiceRefinement

DoneBy(gr, ef) == {gr[g].step : g \in {h \in Grants : ef[h] = "succeeded"}}

\* The grant may be used: if its step is elevated, its approval covers the step
\* and the payload.
Authorised(g, gr, bd) ==
    gr[g].step \in Elevated =>
      /\ gr[g].approval # None
      /\ bd[gr[g].approval] = [step |-> gr[g].step, payload |-> gr[g].payload]

ApprovalsOK ==
    \A s \in Steps :
      approvals[s] # None => bound[approvals[s]] # None /\ bound[approvals[s]].step = s

\* A grant is minted with an approval of its step, if it needs one; whether the
\* payloads agree is left to verification.
GrantsOK ==
    \A g \in Grants : grants[g] # None =>
      /\ grants[g].receipt \in {None, g}
      /\ grants[g].step \in Elevated =>
           /\ grants[g].approval # None
           /\ bound[grants[g].approval] # None
           /\ bound[grants[g].approval].step = grants[g].step

EffectsOK ==
    \A g \in Grants : effects[g] # "none" =>
      /\ grants[g] # None
      /\ Authorised(g, grants, bound)
      /\ DependsOn[grants[g].step] \subseteq DoneBy(grants, effects)

ReceiptsOK == \A g \in Grants : receipts[g] # "none" => receipts[g] = effects[g]

\* A manifest names only grants of the right step, and reports a success only
\* on a receipt for one.  None of this is ever taken back, so a copy that was
\* truthful when it was read is truthful whenever it is written.
GrantOf(s, g, gr) == gr[g] # None /\ gr[g].step = s

StepTruthful(m, s, gr, ef) ==
    /\ m.steps[s].grant # None => GrantOf(s, m.steps[s].grant, gr)
    /\ m.steps[s].receipt # None => GrantOf(s, m.steps[s].receipt, gr)
    /\ m.steps[s].state = "succeeded" =>
         m.steps[s].receipt # None /\ ef[m.steps[s].receipt] = "succeeded"

RunTruthful(m, gr, ef) ==
    /\ m.state = "succeeded" => Steps \subseteq DoneBy(gr, ef)
    /\ m.state = "awaiting_approval" => \E s \in Steps : m.steps[s].state = "awaiting_approval"

Truthful(m, gr, ef) ==
    /\ \A s \in Steps : StepTruthful(m, s, gr, ef)
    /\ RunTruthful(m, gr, ef)

\* From the minting of a grant to the publication of its result.
DispatchPCs == {"minted", "verify", "execute", "receipt", "consume", "settle"}

GrantAt(r) == r.mem.steps[r.step].grant

\* The engine's loop: whatever is on the list of a pass may run.
LoopOK(r, gr, ef) ==
    r.pc \in DispatchPCs \cup {"loop"} =>
      /\ r.mem.state = "running"
      /\ r.plan \in [Steps -> Payloads]
      /\ \A s \in r.todo : DependsOn[s] \subseteq DoneBy(gr, ef)

\* The dispatch of one step.
DispatchOK(r, gr, bd, ef) ==
    r.pc \in DispatchPCs =>
      /\ r.step \in Steps
      /\ GrantAt(r) # None
      /\ DependsOn[r.step] \subseteq DoneBy(gr, ef)
      /\ r.pc \in {"minted", "verify", "execute"} => ef[GrantAt(r)] = "none"
      /\ r.pc = "execute" => Authorised(GrantAt(r), gr, bd)
      /\ r.pc \in {"receipt", "consume"} => ef[GrantAt(r)] \in Outcomes

\* The recovery loop: the nodes it is done with are settled.
RecoveryOK(r) ==
    /\ r.pc \in {"inspect", "void"} => \A s \in Steps \ r.todo : Settled(r.mem, s)
    /\ r.pc = "void" =>
         r.step \in r.todo /\ ~Settled(r.mem, r.step) /\ GrantAt(r) # None

\* Who has read the graph, and what is to be approved.
GraphOK(r) ==
    /\ r.pc \in {"start", "approving"} => r.plan \in [Steps -> Payloads]
    /\ r.pc \in {"approve", "approving"} => r.step \in Elevated

ProcessOK(r, gr, bd, ef) ==
    /\ Truthful(r.mem, gr, ef)
    /\ LoopOK(r, gr, ef)
    /\ DispatchOK(r, gr, bd, ef)
    /\ RecoveryOK(r)
    /\ GraphOK(r)

\* No two processes dispatch the same grant.
DispatchesDiffer ==
    \A p, q \in Procs :
      p # q /\ proc[p].pc \in DispatchPCs /\ proc[q].pc \in DispatchPCs =>
        GrantAt(proc[p]) # GrantAt(proc[q])

\* The ledger, every process and the separation of their dispatches: what each
\* step of each command relies on and leaves behind.
LedgerInv ==
    /\ TypeOK
    /\ ApprovalsOK
    /\ GrantsOK
    /\ EffectsOK
    /\ ReceiptsOK
    /\ Truthful(manifest, grants, effects)
    /\ \A p \in Procs : ProcessOK(proc[p], grants, bound, effects)
    /\ DispatchesDiffer
=============================================================================
