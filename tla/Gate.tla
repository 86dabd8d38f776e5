-------------------------------- MODULE Gate --------------------------------
(***************************************************************************)
(* The gate in front of an agent's tools: Runner.Run of the built-in       *)
(* runner, which asks a model for the next action, evaluates the capability*)
(* of every tool call, and for a call that needs a human stops with an     *)
(* approval; the ways an approval is answered (the API, a chat command, the*)
(* approvals service); and the worker's handlers, which queue the paused   *)
(* run again or fail it.                                                   *)
(*                                                                         *)
(* One run of one task.  Two runners may be at work on it, because a stale *)
(* admission claim is taken over (Admission).  A workspace is the number of*)
(* its git tree.                                                           *)
(***************************************************************************)
EXTENDS Policies, Tools

CONSTANTS
    Runner,        \* processes that execute runs
    Call,          \* the tool calls a model may ask for: <<tool, resource>>
    Workspace,     \* its runtime provider, whether it has a session, its branch
    Risk,          \* the risk level of the task
    MaxSteps,      \* model turns of one execution (50 in the code)
    TaskBudget,    \* limits of model, tool and shell calls, 0 for none, or NoBudget
    ProjectBudget, \* the same, for tasks that have no budget of their own
    MaxApprovals,  \* bound on the approvals that are asked for
    MaxTree,       \* bound on the revisions of the workspace
    Channel,       \* how people answer: see Channels
    Faults         \* what may go wrong: see FaultKinds

Channels == {"api", "chat", "service"}

FaultKinds == {"takeover",    \* a second runner starts on a claim that went stale
               "fail",        \* a load, the model, a tool or a statement fails
               "unreadable",  \* a budget or the steps are not found when they are looked up
               "publish",     \* an event is lost on its way to the bus
               "crash"}       \* the worker process dies

NoBudget == [model |-> 0, tool |-> 0, shell |-> 0]

ASSUME GateAssumption ==
    /\ IsFiniteSet(Runner)
    /\ MaxSteps \in Nat \ {0}
    /\ {TaskBudget, ProjectBudget} \subseteq [model : Nat, tool : Nat, shell : Nat]
    /\ runtimeProviderForWorkspace(Workspace) # "error"
    /\ MaxApprovals \in Nat /\ MaxTree \in Nat
    /\ Channel \subseteq Channels /\ Faults \subseteq FaultKinds

VARIABLES
    run,         \* agent_runs.status
    task,        \* tasks.status
    trig,        \* messages on runs.triggered
    steps,       \* the tool and shell calls recorded in agent_steps
    approvals,   \* the approvals of the run in the order they were asked for
    answers,     \* approval.approved and approval.rejected messages
    seen,        \* the approval the service has read as pending, 0 for none
    tree,        \* the revision of the workspace
    performed,   \* the sensitive tool calls carried out, and which approval paid
    pc,          \* where a runner is in Run
    local        \* a runner's RunState, tool call and candidates

vars == <<run, task, trig, steps, approvals, answers, seen, tree, performed, pc, local>>

Steps == {"idle", "load", "model", "authorize", "consume", "execute", "ask", "pause",
          "final", "complete", "fail"}

-----------------------------------------------------------------------------
(* Capabilities.                                                           *)

Context == [scope |-> Workspace.provider, branch |-> Workspace.branch, environment |-> Risk]

(* authorizeTool's request: an agent is no user and carries no budget.     *)
DecisionFor ==
    [c \in Call |-> Decision([op |-> toolOperation[c[1]], role |-> NoUser, context |-> Context,
                              sandbox |-> sandboxState(Workspace), overBudget |-> FALSE])]

Privileged(call) == RequiredApproval(DecisionFor[call])

NoRevision == -1

NoGrant == [op |-> "none", resource |-> "none", revision |-> NoRevision]

Grants == [op : { toolOperation[c[1]] : c \in Call }, resource : { c[2] : c \in Call },
           revision : 0..MaxTree \cup {NoRevision}] \cup {NoGrant}

GrantFor(call, rev) == [op |-> toolOperation[call[1]], resource |-> call[2], revision |-> rev]

NoCall == <<"none", "none">>

NoUse == [tool |-> 0, shell |-> 0]

Idle == [call |-> NoCall, grant |-> NoGrant, left |-> 0, used |-> NoUse, candidates |-> {}, paid |-> 0]

-----------------------------------------------------------------------------
(* Helpers.                                                                *)

Goto(w, step)     == pc' = [pc EXCEPT ![w] = step]
Remember(w, l)    == local' = [local EXCEPT ![w] = l]
Fails             == "fail" \in Faults

(* RunState.  A model call is counted within one execution only; a tool    *)
(* call also over the earlier ones.                                        *)
Count(used, tool) ==
    [tool |-> used.tool + 1, shell |-> used.shell + (IF tool \in {"run_command", "run_tests"} THEN 1 ELSE 0)]

Unreadable == "unreadable" \in Faults

loadProjectBudgetForTask == IF Unreadable THEN {ProjectBudget, NoBudget} ELSE {ProjectBudget}

(* Any error of the query, not only a missing row, falls to the project's. *)
loadTaskBudget ==
    (IF TaskBudget = NoBudget THEN {} ELSE {TaskBudget}) \cup
    (IF TaskBudget = NoBudget \/ Unreadable THEN loadProjectBudgetForTask ELSE {})

(* Engine.CheckRun: a limit is exceeded by more than the maximum.          *)
CheckRun(budget, used, models) ==
    /\ budget.tool > 0 => used.tool <= budget.tool
    /\ budget.shell > 0 => used.shell <= budget.shell
    /\ budget.model > 0 => models <= budget.model

(* checkBudget: without a budget, or when it cannot be read, all is allowed.*)
checkBudget(used, models) == { CheckRun(budget, used, models) : budget \in loadTaskBudget }

(* persistStep: that a step was not recorded is only logged.               *)
persistStep == IF Fails THEN BOOLEAN ELSE {TRUE}

(* loadRunHistory: steps that cannot be read are none.                     *)
loadRunHistory == IF Unreadable THEN {steps, NoUse} ELSE {steps}

\* Slip: the tool calls of an earlier execution are not counted.
SeedNothing(history) == NoUse

seedRunState(history) == history

Answered(a) == approvals[a].response # "none"

(* consumeApprovedAuthority's query and filter.  A grant without a         *)
(* resource is never asked for; a model's own request carries no grant.    *)
ApprovedAuthority(g) ==
    { a \in DOMAIN approvals : /\ approvals[a].response = "approved" /\ ~approvals[a].consumed
                               /\ approvals[a].grant = g }

Request(g) == Append(approvals, [grant |-> g, response |-> "none", consumed |-> FALSE])

-----------------------------------------------------------------------------
(* Runner.Run.                                                             *)

(* A run is executed when it is queued (Admission).  A message stays until *)
(* a handler returns; that of a claim that went stale reaches a second     *)
(* runner.                                                                 *)
Busy == { w \in Runner : pc[w] # "idle" }

Acknowledge == trig' = IF trig > 0 THEN trig - 1 ELSE 0

Admit(w) ==
    /\ pc[w] = "idle"
    /\ trig > 0
    /\ "takeover" \in Faults \/ Cardinality(Busy) < trig
    /\ IF run = "queued" THEN Goto(w, "load") /\ UNCHANGED trig
                         ELSE Acknowledge /\ UNCHANGED pc
    /\ UNCHANGED <<run, task, steps, approvals, answers, seen, tree, performed, local>>

(* A run that cannot be loaded, or set running, is left as it is; without  *)
(* its task or workspace it is failed.                                     *)
loadAgentRun(w) ==
    Fails /\ Goto(w, "idle") /\ Acknowledge /\ UNCHANGED <<run, local>>

loadTask(w) ==
    Fails /\ Goto(w, "fail") /\ UNCHANGED <<run, trig, local>>

loadWorkspace(w) ==
    Fails /\ Goto(w, "fail") /\ UNCHANGED <<run, trig, local>>

(* Set the run running, and seed the state from the steps of earlier       *)
(* executions.                                                             *)
LoadRun(w) ==
    /\ pc[w] = "load"
    /\ \/ /\ run' = "running"
          /\ \E history \in loadRunHistory :
                Remember(w, [Idle EXCEPT !.left = MaxSteps, !.used = seedRunState(history)])
          /\ Goto(w, "model") /\ UNCHANGED trig
       \/ loadAgentRun(w) \/ loadTask(w) \/ loadWorkspace(w)
    /\ UNCHANGED <<task, steps, approvals, answers, seen, tree, performed>>

(* A tool call of the model: its step is recorded as running.              *)
runToolStep(w, c) ==
    \E kept \in persistStep :
       /\ steps' = IF kept THEN Count(steps, c[1]) ELSE steps
       /\ Remember(w, [local[w] EXCEPT !.call = c, !.left = @ - 1])
       /\ Goto(w, "authorize")

(* A final response or a handoff ends the loop.                            *)
FinalResponse(w) == Goto(w, "final") /\ UNCHANGED <<steps, local>>

(* The model itself wants a human to look.                                 *)
AskHuman(w) ==
    /\ Remember(w, [local[w] EXCEPT !.grant = NoGrant, !.left = @ - 1])
    /\ Goto(w, "ask") /\ UNCHANGED steps

(* A model that does not answer, or answers nothing that can be read as an *)
(* action, ends the run.                                                   *)
NoAction(w) == Fails /\ Goto(w, "fail") /\ UNCHANGED <<steps, local>>

(* The model's next action, after which the budget is looked at.  After    *)
(* MaxSteps turns the loop ends by itself.                                 *)
nextModelAction(w) ==
    /\ pc[w] = "model"
    /\ IF local[w].left = 0 THEN FinalResponse(w)
       ELSE \/ NoAction(w)
            \/ \E allowed \in checkBudget(local[w].used, MaxSteps - local[w].left + 1) :
                  \/ ~allowed /\ Goto(w, "fail") /\ UNCHANGED <<steps, local>>
                  \/ /\ allowed
                     /\ (\E c \in Call : runToolStep(w, c)) \/ FinalResponse(w) \/ AskHuman(w)
    /\ UNCHANGED <<run, task, trig, approvals, answers, seen, tree, performed>>

(* The git tree of the files as they are now.                              *)
workspaceSubjectRevision == tree

(* authorizeTool up to the query of consumeApprovedAuthority.              *)
authorizeTool(w) ==
    /\ pc[w] = "authorize"
    /\ LET c   == local[w].call
           rev == IF c[1] \in toolRequiresWorkspaceRevision THEN workspaceSubjectRevision ELSE NoRevision
           g   == GrantFor(c, rev)
       IN  \/ /\ Fails \/ DecisionFor[c] = "deny"
              /\ Goto(w, "fail") /\ UNCHANGED local
           \/ /\ DecisionFor[c] = "allow"
              /\ Goto(w, "execute") /\ UNCHANGED local
           \/ /\ Privileged(c)
              /\ Remember(w, [local[w] EXCEPT !.grant = g, !.candidates = ApprovedAuthority(g)])
              /\ Goto(w, "consume")
    /\ UNCHANGED <<run, task, trig, steps, approvals, answers, seen, tree, performed>>

\* Slip: the update does not compare the metadata that was read.
ConsumeUnchecked(w) ==
    /\ pc[w] = "consume"
    /\ LET l == local[w] IN
       \/ l.candidates = {} /\ Goto(w, "ask") /\ UNCHANGED <<approvals, local>>
       \/ \E a \in l.candidates :
             /\ approvals' = [approvals EXCEPT ![a].consumed = TRUE]
             /\ Remember(w, [l EXCEPT !.paid = a, !.candidates = {}])
             /\ Goto(w, "execute")
    /\ UNCHANGED <<run, task, trig, steps, answers, seen, tree, performed>>

(* The compare-and-swap on one candidate after the other.  When none is    *)
(* left the call needs a new approval.  The order in which two approvals of*)
(* one grant are tried is that of their answers, here any.                 *)
consumeApprovedAuthority(w) ==
    /\ pc[w] = "consume"
    /\ LET l == local[w] IN
       \/ l.candidates = {} /\ Goto(w, "ask") /\ UNCHANGED <<approvals, local>>
       \/ \E a \in l.candidates :
             IF approvals[a].response = "approved" /\ ~approvals[a].consumed
             THEN /\ approvals' = [approvals EXCEPT ![a].consumed = TRUE]
                  /\ Remember(w, [l EXCEPT !.paid = a, !.candidates = {}])
                  /\ Goto(w, "execute")
             ELSE /\ Remember(w, [l EXCEPT !.candidates = @ \ {a}])
                  /\ UNCHANGED <<approvals, pc>>
       \/ Fails /\ Goto(w, "fail") /\ UNCHANGED <<approvals, local>>
    /\ UNCHANGED <<run, task, trig, steps, answers, seen, tree, performed>>

(* executeTool: the call is carried out, counted and the budget looked at  *)
(* once more.  A tool that fails ends the run.                             *)
After(changes) == IF changes THEN tree + 1 ELSE tree

Attempts(tool) == { o \in UNION { Outcomes(ToolsOf(Workspace)[tool], i) : i \in Inputs } :
                       /\ o.ends = "error" => Fails
                       /\ After(o.changes) <= MaxTree }

executeTool(w) ==
    /\ pc[w] = "execute"
    /\ LET l    == local[w]
           used == Count(l.used, l.call[1])
       IN  \E o \in Attempts(l.call[1]), allowed \in checkBudget(used, MaxSteps - l.left) :
              /\ tree' = After(o.changes)
              /\ performed' = IF Privileged(l.call)
                              THEN Append(performed, [grant |-> l.grant, paid |-> l.paid])
                              ELSE performed
              /\ Remember(w, [Idle EXCEPT !.left = l.left, !.used = used])
              /\ Goto(w, IF allowed /\ o.ends # "error" THEN "model" ELSE "fail")
    /\ UNCHANGED <<run, task, trig, steps, approvals, answers, seen>>

(* The approval is written and published, and then the run is paused.      *)
Ask(w) ==
    /\ pc[w] = "ask"
    /\ \/ /\ Len(approvals) < MaxApprovals
          /\ approvals' = Request(local[w].grant)
          /\ Goto(w, "pause")
       \/ Fails /\ Goto(w, "fail") /\ UNCHANGED approvals
    /\ UNCHANGED <<run, task, trig, steps, answers, seen, tree, performed, local>>

requestCapabilityApproval(w) == local[w].grant # NoGrant /\ Ask(w)

requestModelApproval(w) == local[w].grant = NoGrant /\ Ask(w)

(* pauseRun, failRun and updateRunCompletion: they ask for no status and   *)
(* ignore an error of the statement.                                       *)
Leave(w, s) ==
    /\ run' = s \/ (Fails /\ run' = run)
    /\ Goto(w, "idle")
    /\ Remember(w, Idle)
    /\ Acknowledge
    /\ UNCHANGED <<task, steps, approvals, answers, seen, tree, performed>>

pauseRun(w) == pc[w] = "pause" /\ Leave(w, "paused")

failRun(w) == pc[w] = "fail" /\ Leave(w, "failed")

updateRunCompletion(w) == pc[w] = "complete" /\ Leave(w, "completed")

(* runFinalChecks and the diff: run_tests and get_git_diff go through the  *)
(* gate like any tool; what they answer does not matter, but tests may     *)
(* write files.                                                            *)
runFinalChecks(w) ==
    /\ pc[w] = "final"
    /\ \E o \in Attempts("run_tests") : tree' = After(o.changes)
    /\ Goto(w, "complete")
    /\ UNCHANGED <<run, task, trig, steps, approvals, answers, seen, performed, local>>

CrashRunner(w) ==
    /\ "crash" \in Faults
    /\ pc[w] # "idle"
    /\ Goto(w, "idle")
    /\ Remember(w, Idle)
    /\ UNCHANGED <<run, task, trig, steps, approvals, answers, seen, tree, performed>>

-----------------------------------------------------------------------------
(* Answers.                                                                *)

Publish(a, response) ==
    \/ answers' = answers \cup {<<a, response>>}
    \/ "publish" \in Faults /\ UNCHANGED answers

SetResponse(a, response) == approvals' = [approvals EXCEPT ![a].response = response]

FailTask(response) == task' = IF response = "rejected" THEN "failed" ELSE task

(* The API's RespondApproval: once, then the event.                        *)
RespondApproval(a, response) ==
    /\ "api" \in Channel
    /\ ~Answered(a)
    /\ SetResponse(a, response)
    /\ FailTask(response)
    /\ Publish(a, response)
    /\ UNCHANGED <<run, trig, steps, seen, tree, performed, pc, local>>

(* approve and reject from a chat: no condition, and nobody is told.       *)
handleCommandEvent(a, response) ==
    /\ "chat" \in Channel
    /\ approvals[a].response # response
    /\ SetResponse(a, response)
    /\ UNCHANGED <<run, task, trig, steps, answers, seen, tree, performed, pc, local>>

(* Service.RespondApproval reads the approval as pending and writes later. *)
ServiceReads(a) ==
    /\ "service" \in Channel
    /\ seen = 0 /\ ~Answered(a)
    /\ seen' = a
    /\ UNCHANGED <<run, task, trig, steps, approvals, answers, tree, performed, pc, local>>

ServiceResponds(response) ==
    /\ seen # 0
    /\ SetResponse(seen, response)
    /\ FailTask(response)
    /\ Publish(seen, response)
    /\ seen' = 0
    /\ UNCHANGED <<run, trig, steps, tree, performed, pc, local>>

(* HandleApprovalApproved with resumePausedRun, and HandleApprovalRejected.*)
HandleApprovalApproved(a) ==
    /\ <<a, "approved">> \in answers
    /\ answers' = answers \ {<<a, "approved">>}
    /\ IF run = "paused"
       THEN run' = "queued" /\ task' = "running" /\ trig' = trig + 1
       ELSE UNCHANGED <<run, task, trig>>
    /\ UNCHANGED <<steps, approvals, seen, tree, performed, pc, local>>

HandleApprovalRejected(a) ==
    /\ <<a, "rejected">> \in answers
    /\ answers' = answers \ {<<a, "rejected">>}
    /\ task' = "failed"
    /\ run' = IF run \in {"completed", "paused"} THEN "failed" ELSE run
    /\ UNCHANGED <<trig, steps, approvals, seen, tree, performed, pc, local>>

(* CancelAgentRun: a running run, and nobody tells the runner.             *)
CancelAgentRun ==
    /\ run = "running"
    /\ run' = "cancelled"
    /\ UNCHANGED <<task, trig, steps, approvals, answers, seen, tree, performed, pc, local>>

(* A person edits a file of the workspace.                                 *)
EditWorkspace ==
    /\ tree < MaxTree
    /\ tree' = tree + 1
    /\ UNCHANGED <<run, task, trig, steps, approvals, answers, seen, performed, pc, local>>

-----------------------------------------------------------------------------
Init ==
    /\ run = "queued" /\ task = "running" /\ trig = 1
    /\ steps = NoUse /\ approvals = <<>> /\ answers = {} /\ seen = 0
    /\ tree = 0 /\ performed = <<>>
    /\ pc = [w \in Runner |-> "idle"]
    /\ local = [w \in Runner |-> Idle]

RunStep(w) ==
    \/ Admit(w) \/ LoadRun(w) \/ nextModelAction(w) \/ authorizeTool(w)
    \/ consumeApprovedAuthority(w) \/ executeTool(w) \/ requestCapabilityApproval(w)
    \/ requestModelApproval(w) \/ pauseRun(w)
    \/ failRun(w) \/ runFinalChecks(w) \/ updateRunCompletion(w) \/ CrashRunner(w)

AnswerStep(a) ==
    \/ \E response \in {"approved", "rejected"} :
          RespondApproval(a, response) \/ handleCommandEvent(a, response)
    \/ ServiceReads(a) \/ HandleApprovalApproved(a) \/ HandleApprovalRejected(a)

Next ==
    \/ \E w \in Runner : RunStep(w)
    \/ \E a \in DOMAIN approvals : AnswerStep(a)
    \/ \E response \in {"approved", "rejected"} : ServiceResponds(response)
    \/ CancelAgentRun \/ EditWorkspace

Spec == Init /\ [][Next]_vars

-----------------------------------------------------------------------------
(* Properties.                                                             *)

(* Every variable has its type, whichever answers and failures interleave. *)
TypeOK ==
    /\ run \in {"queued", "running", "paused", "completed", "failed", "cancelled"}
    /\ task \in {"running", "failed"}
    /\ trig \in Nat /\ steps \in [tool : Nat, shell : Nat] /\ seen \in 0..Len(approvals) /\ tree \in 0..MaxTree
    /\ approvals \in Seq([grant : Grants, response : {"none", "approved", "rejected"}, consumed : BOOLEAN])
    /\ answers \subseteq (DOMAIN approvals) \X {"approved", "rejected"}
    /\ performed \in Seq([grant : Grants, paid : Nat])
    /\ pc \in [Runner -> Steps]
    /\ local \in [Runner -> [call : Call \cup {NoCall}, grant : Grants,
                             left : 0..MaxSteps, used : [tool : Nat, shell : Nat],
                             candidates : SUBSET (DOMAIN approvals), paid : Nat]]

Paid(a) == \E k \in DOMAIN performed : performed[k].paid = a

LedgerState(a) ==
    IF      Paid(a) THEN "used"
    ELSE IF approvals[a].consumed THEN "spent"
    ELSE CASE approvals[a].response = "none"     -> "pending"
           [] approvals[a].response = "approved" -> "granted"
           [] approvals[a].response = "rejected" -> "refused"

Abstract == INSTANCE Authority WITH
    Grant  <- Grants,
    ledger <- [a \in DOMAIN approvals |-> [grant |-> approvals[a].grant, state |-> LedgerState(a)]],
    done   <- [k \in DOMAIN performed |-> performed[k].grant]

(* runner_authority.go:24-26: "consumeApprovedAuthority atomically consumes*)
(* one exact approved capability grant for a run.  Approval is single-use".*)
(* The runner implements Authority: with two runners on one run, answers   *)
(* that are changed, duplicated or lost and crashes between the consumption*)
(* and the call, no sensitive tool is carried out that a human did not     *)
(* approve for this operation, resource and revision, and no approval pays *)
(* twice.                                                                  *)
SingleUseAuthority == Abstract!Spec

(* budget.MaxToolCalls bounds the tool calls on record of a run over all   *)
(* its executions, because a resumed run counts the steps of the earlier   *)
(* ones (seedRunState): each runner is stopped by the first call over the  *)
(* limit.  A call whose step was lost (persistStep's error is only logged) *)
(* still counts for its own execution and is forgotten by the next one.    *)
ToolBudgetHeld ==
    \A budget \in loadTaskBudget :
        budget.tool > 0 => steps.tool <= Cardinality(Runner) * (budget.tool + 1)

=============================================================================
