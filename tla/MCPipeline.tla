----------------------------- MODULE MCPipeline -----------------------------
(* An instance of Pipeline: a task of either backend.                      *)
EXTENDS Pipeline

MCBackends == {"legacy", "agent_runtime"}

\* The runs there are, and those that open handoffs and a retry will start.
RunsTaken ==
    MaxRuns - Cardinality(NewRuns) + MapThenSumSet(LAMBDA r : Len(open[r]), RunID)
    + Cardinality({retrying} \ {0})

Kinds == { kind[a] : a \in ApprovalID }
Asks  == Cardinality({ a \in ApprovalID : kind[a] = "action" })

(* Until a pull request comes up, anything may meet.  Beyond that runs,    *)
(* trouble and what runs ask for on their way share a bound: three runs,   *)
(* or two and one trouble or question, or one run and one of each.  A run  *)
(* is taken when it is first spoken for, so that no handoff and no retry   *)
(* is stopped half way.                                                    *)
WithinBounds ==
    \/ "pr_create" \notin Kinds /\ remote = <<>>
    \/ RunsTaken + faults + redeliveries + Asks <= MaxRuns

Bounded == WithinBounds'

=============================================================================
