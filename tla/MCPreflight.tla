----------------------------- MODULE MCPreflight -----------------------------
(***************************************************************************)
(* Small sets of workflows: every graph of plain steps, and every          *)
(* combination of ids, cells and actions of two steps beside a plain one.  *)
(***************************************************************************)
EXTENDS Preflight

\* Every dependency relation over three steps and an unknown id.
MCGraphs ==
    {[id |-> [s \in Steps |-> s], dependsOn |-> d, action |-> [s \in Steps |-> "read_file"],
      cell |-> [s \in Steps |-> None]] : d \in [Steps -> SUBSET Ids]}

\* Every id, cell and action for two steps of which one may need the other.
MCProfiles ==
    {[id |-> <<i, j, 3>>, dependsOn |-> <<d, {}, {}>>, action |-> <<a, b, "read_file">>,
      cell |-> <<p, q, None>>] :
       i \in 1..2, j \in 1..2, d \in {{}, {2}}, a \in Actions, b \in Actions,
       p \in Cells \cup {None}, q \in Cells \cup {None}}

MCWorkflows == MCGraphs \cup MCProfiles

MCLanes == [env : BOOLEAN, caller : {TRUE, FALSE, None}]
=============================================================================
