---------------------------- MODULE ApprovalGate ----------------------------
(***************************************************************************)
(* What ToolFlow promises about one run, without processes, grants, files  *)
(* or crashes.  A step acts on a payload only after the steps it depends   *)
(* on are done and, if it is elevated, only on a payload that was approved *)
(* for it; and the run never reports a step that is not done.              *)
(***************************************************************************)
CONSTANTS Steps, DependsOn, Elevated, Payloads

VARIABLES
    approved,   \* the pairs <<step, payload>> an operator has approved
    ran,        \* the pairs <<step, payload>> a handler has acted on
    done,       \* the steps a handler has carried out successfully
    reported    \* the steps the run reports as succeeded

gateVars == <<approved, ran, done, reported>>

Init ==
    /\ approved = {}
    /\ ran = {}
    /\ done = {}
    /\ reported = {}

Approve(s, v) ==
    /\ s \in Elevated
    /\ approved' = approved \cup {<<s, v>>}
    /\ UNCHANGED <<ran, done, reported>>

\* A step may act more than once: it is replayed after an interruption.
Run(s, v) ==
    /\ s \in Elevated => <<s, v>> \in approved
    /\ DependsOn[s] \subseteq done
    /\ ran' = ran \cup {<<s, v>>}
    /\ done' \in {done, done \cup {s}}
    /\ UNCHANGED <<approved, reported>>

\* The report may also be withdrawn, when a step is approved anew.
Report ==
    /\ reported' \in SUBSET done
    /\ UNCHANGED <<approved, ran, done>>

Next ==
    \/ \E s \in Steps, v \in Payloads : Approve(s, v) \/ Run(s, v)
    \/ Report

Spec == Init /\ [][Next]_gateVars
=============================================================================
