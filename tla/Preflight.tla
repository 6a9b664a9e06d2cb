------------------------------ MODULE Preflight ------------------------------
(***************************************************************************)
(* From a workflow file to an accepted run: normalization, the search for  *)
(* dependency cycles, the classifier with its decision, and the policy     *)
(* artifact; then the execution of an accepted graph as far as it depends  *)
(* on these: in which order the steps run and which cells know their       *)
(* actions.  Handlers that know an action succeed here.                    *)
(***************************************************************************)
EXTENDS Integers, Sequences

CONSTANTS
    N,          \* the number of steps of a workflow
    Workflows,  \* the workflows that are submitted
    Lanes,      \* values of enableElevated: of the environment and of the caller
    None        \* an optional field that is absent

Steps == 1..N

\* Step ids; N + 1 is the id of no step.
Ids == 1..(N + 1)

Actions == {"read_file", "list_files", "research_note", "session_note",
            "exec_command", "apply_patch"}

Cells == {"read", "research", "session", "elevated"}

Sources == [id : [Steps -> Steps], dependsOn : [Steps -> SUBSET Ids],
            action : [Steps -> Actions], cell : [Steps -> Cells \cup {None}]]

ASSUME WorkflowAssumption ==
    /\ N \in Nat \ {0}
    /\ Workflows \subseteq Sources
    /\ Lanes \subseteq [env : BOOLEAN, caller : BOOLEAN \cup {None}]

VARIABLES
    source,    \* the workflow
    lane,      \* the configuration it is submitted with
    pc,        \* how far the run is
    stack,     \* detectCycles: the calls of visit, each with the dependencies it has left
    visiting,  \* detectCycles: ids of those calls
    visited,   \* detectCycles: ids whose call is over
    next,      \* detectCycles: the step the outer loop takes next
    done,      \* steps that succeeded
    failed     \* steps that failed

vars == <<source, lane, pc, stack, visiting, visited, next, done, failed>>

Init ==
    /\ source \in Workflows
    /\ lane \in Lanes
    /\ pc = "source"
    /\ stack = <<>>
    /\ visiting = {}
    /\ visited = {}
    /\ next = 1
    /\ done = {}
    /\ failed = {}

-----------------------------------------------------------------------------
(* Normalization and the graph.                                            *)

InferCell(action) ==
    CASE action \in {"read_file", "list_files"} -> "read"
      [] action = "research_note"               -> "research"
      [] action = "session_note"                -> "session"
      [] OTHER                                  -> "elevated"

CellOf(s) == IF source.cell[s] # None THEN source.cell[s] ELSE InferCell(source.action[s])

\* replayClass is left to its default.
ReviewBeforeReplay(s) == CellOf(s) = "elevated"

Duplicates == {s \in Steps : \E t \in Steps : t < s /\ source.id[t] = source.id[s]}

Normalize ==
    /\ pc = "source"
    /\ pc' = IF Duplicates # {} THEN "duplicate" ELSE "normalized"
    /\ UNCHANGED <<source, lane, stack, visiting, visited, next, done, failed>>

NamedIds == {source.id[s] : s \in Steps}

\* The first part of buildGraph.
CheckIds ==
    /\ pc = "normalized"
    /\ pc' = IF \A s \in Steps : source.dependsOn[s] \subseteq NamedIds THEN "visit" ELSE "unknown"
    /\ UNCHANGED <<source, lane, stack, visiting, visited, next, done, failed>>

StepOf(id) == CHOOSE s \in Steps : source.id[s] = id

\* Mutant: an id that is being visited counts as visited.
VisitOnce(id, frames) ==
    IF id \in visiting \cup visited
    THEN /\ stack' = frames
         /\ UNCHANGED <<pc, visiting>>
    ELSE /\ stack' = Append(frames, [id |-> id, rest |-> source.dependsOn[StepOf(id)]])
         /\ visiting' = visiting \cup {id}
         /\ UNCHANGED pc

\* The body of visit, called with the given calls open.
Visit(id, frames) ==
    IF id \in visited
    THEN /\ stack' = frames
         /\ UNCHANGED <<pc, visiting>>
    ELSE IF id \in visiting
    THEN /\ pc' = "cycle"
         /\ UNCHANGED <<stack, visiting>>
    ELSE /\ stack' = Append(frames, [id |-> id, rest |-> source.dependsOn[StepOf(id)]])
         /\ visiting' = visiting \cup {id}
         /\ UNCHANGED pc

VisitStep ==
    /\ pc = "visit"
    /\ stack = <<>>
    /\ next =< N
    /\ next' = next + 1
    /\ Visit(source.id[next], stack)
    /\ UNCHANGED <<source, lane, visited, done, failed>>

Top == stack[Len(stack)]

Callers == SubSeq(stack, 1, Len(stack) - 1)

\* Mutant: a dependency is not taken off the list when it is visited.
VisitSameDependency ==
    /\ pc = "visit"
    /\ stack # <<>>
    /\ \E id \in Top.rest : Visit(id, stack)
    /\ UNCHANGED <<source, lane, visited, next, done, failed>>

\* The dependencies are taken in the order of the array, here in any order.
VisitDependency ==
    /\ pc = "visit"
    /\ stack # <<>>
    /\ \E id \in Top.rest : Visit(id, Append(Callers, [Top EXCEPT !.rest = @ \ {id}]))
    /\ UNCHANGED <<source, lane, visited, next, done, failed>>

Left == visiting \ {Top.id}

Leave ==
    /\ pc = "visit"
    /\ stack # <<>>
    /\ Top.rest = {}
    /\ stack' = Callers
    /\ visiting' = Left
    /\ visited' = visited \cup {Top.id}
    /\ UNCHANGED <<source, lane, pc, next, done, failed>>

EndVisits ==
    /\ pc = "visit"
    /\ stack = <<>>
    /\ next > N
    /\ pc' = "graph"
    /\ UNCHANGED <<source, lane, stack, visiting, visited, next, done, failed>>

-----------------------------------------------------------------------------
(* Classification and policy.                                              *)

StepsOf(cell) == {s \in Steps : CellOf(s) = cell}

\* Mutant: the disabled lane is no failure.
FailuresNone(enabled) == {}

\* classifyStructural and classifyCapabilities: all that normalized workflows
\* can still fail is the elevated lane.
Failures(enabled) == IF enabled THEN {} ELSE StepsOf("elevated")

Warnings == {s \in Steps : ReviewBeforeReplay(s)} \cup StepsOf("session")

\* decideOutcome of buildProofBundle
Decision(enabled) ==
    IF Failures(enabled) # {} THEN "reject"
    ELSE IF StepsOf("elevated") # {} THEN "requires_approval"
    ELSE IF Warnings # {} THEN "allow_with_warnings"
    ELSE "allow"

\* allowedActionsByCell of compilePolicyArtifact
Allowed(enabled, cell) ==
    CASE cell = "read"     -> {"read_file", "list_files"}
      [] cell = "research" -> {"research_note"}
      [] cell = "session"  -> {"session_note"}
      [] cell = "elevated" -> IF StepsOf("elevated") # {} /\ enabled
                              THEN {"exec_command", "apply_patch"} ELSE {}

\* resolveConfig: what the caller does not say, the environment does.
Resolved(caller) == IF caller # None THEN caller ELSE lane.env

RunEnabled == Resolved(lane.caller)

\* Mutant: a dry run has the default configuration.
DryRunDisabled == FALSE

\* dryRun takes no configuration.
DryRunEnabled == Resolved(None)

\* prepareRun after compileWorkflowFile
Classify ==
    /\ pc = "graph"
    /\ pc' = IF Decision(RunEnabled) = "reject" THEN "rejected" ELSE "accepted"
    /\ UNCHANGED <<source, lane, stack, visiting, visited, next, done, failed>>

-----------------------------------------------------------------------------
(* Execution.                                                              *)

\* The actions the cell runners know; the other ones end with ok: false.
Handled(cell, action) ==
    \/ cell = "read" /\ action \in {"read_file", "list_files"}
    \/ cell = "research" /\ action = "research_note"
    \/ cell = "session" /\ action = "session_note"
    \/ cell = "elevated" /\ action \in {"exec_command", "apply_patch"}

\* Mutant: a step may only need steps that are before it in the file.
NextRunnableInFileOrder ==
    {s \in Steps \ (done \cup failed) :
       source.dependsOn[s] \subseteq {source.id[t] : t \in done \cap 1..(s - 1)}}

\* nextRunnableSteps
NextRunnable ==
    {s \in Steps \ (done \cup failed) : source.dependsOn[s] \subseteq {source.id[t] : t \in done}}

\* A failed step ends the run.
Dispatch ==
    /\ pc = "accepted"
    /\ \E s \in NextRunnable :
         IF Handled(CellOf(s), source.action[s])
         THEN /\ done' = done \cup {s}
              /\ UNCHANGED <<pc, failed>>
         ELSE /\ failed' = failed \cup {s}
              /\ pc' = "failed"
              /\ UNCHANGED done
    /\ UNCHANGED <<source, lane, stack, visiting, visited, next>>

\* The loop finds nothing to run.
Finish ==
    /\ pc = "accepted"
    /\ NextRunnable = {}
    /\ pc' = IF done = Steps THEN "succeeded" ELSE "stalled"
    /\ UNCHANGED <<source, lane, stack, visiting, visited, next, done, failed>>

Next ==
    \/ Normalize \/ CheckIds
    \/ VisitStep \/ VisitDependency \/ Leave \/ EndVisits
    \/ Classify
    \/ Dispatch \/ Finish

\* Compilation and classification run to their end once they are called.
Spec == Init /\ [][Next]_vars /\ WF_vars(Next)

-----------------------------------------------------------------------------
Ends == {"duplicate", "unknown", "cycle", "rejected", "failed", "succeeded", "stalled"}

\* A graph without cycles is one that can be numbered so that every step comes
\* after the steps it depends on.
Acyclic ==
    \E rank \in [Steps -> Steps] :
      \A s \in Steps, t \in Steps : source.id[t] \in source.dependsOn[s] => rank[t] < rank[s]

\* The search reports a cycle exactly in the workflows that have one, in
\* whatever order it goes through the dependencies.
CyclesAreFound ==
    /\ pc = "cycle" => ~Acyclic
    /\ pc \in {"graph", "rejected", "accepted", "failed", "succeeded", "stalled"} => Acyclic

\* An accepted workflow always has a step to run until all are done: none is
\* reported as failed because it stalled.
AcceptedNeverStalls == pc # "stalled"

\* The classifier, the policy artifact and the cells, which never look at each
\* other, agree: a step succeeds only with an action that the policy artifact
\* of its run allows for its cell, and a run fails only for one it does not.
OnlyAllowedSucceed ==
    LET allowed(s) == source.action[s] \in Allowed(RunEnabled, CellOf(s))
    IN  /\ \A s \in done : allowed(s)
        /\ \A s \in failed : ~allowed(s)

\* The search and the execution come to an end on every workflow.
Terminates == <>(pc \in Ends)

\* A dry run, which does not know its caller's configuration, foretells the
\* decision of the run except where the caller's word on the elevated lane
\* differs from the environment's and the workflow has an elevated step.
DryRunForetells ==
    Decision(DryRunEnabled) # Decision(RunEnabled) =>
        lane.caller \notin {None, lane.env} /\ StepsOf("elevated") # {}
=============================================================================
