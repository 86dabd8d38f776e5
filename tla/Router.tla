------------------------------- MODULE Router -------------------------------
(***************************************************************************)
(* What a run of the built-in runner pays for its models: the router asks  *)
(* the best model that is connected and then the others one after the      *)
(* other, the answer that comes back is charged to the run, and the run    *)
(* ends when it has spent more than its budget.  A run is paused for an    *)
(* approval and queued again: every execution starts from the cost the run *)
(* has on record.  A budget that cannot be read lets the run go on.        *)
(***************************************************************************)
EXTENDS Catalogue

CONSTANTS
    Connections,   \* the sets of providers whose key is configured
    Roles, Risks,  \* the agents' roles and the tasks' risks
    Sizes,         \* sizes of a prompt
    Tokens,        \* thousands of tokens of an answer: <<prompt, completion>>
    MaxCost,       \* budgets.max_cost
    MaxCalls,      \* bound on the calls of a run
    MaxLosses      \* bound on crashes and statements that fail

ASSUME RouterAssumption ==
    /\ \A c \in Connections : c \subseteq { m.provider : m \in AllModels }
    /\ Sizes \subseteq Nat /\ Tokens \subseteq Nat \X Nat
    /\ {MaxCost, MaxCalls, MaxLosses} \subseteq Nat

VARIABLES
    connected,   \* providers whose key is configured
    work,        \* the run's role and its task's risk
    paid,        \* agent_runs: status, total_cost; the rows of model_usage, added up
    execution,   \* Run: where it is, CostSoFar, and the call it makes
    spent,       \* what the answers have cost
    unrecorded,  \* how much of it no row of agent_runs has
    unread,      \* whether the last check of the budget could not read it
    calls, losses

routerVars == <<connected, work, paid, execution, spent, unrecorded, unread, calls, losses>>

None == [pc |-> "none"]

Cost(m, tokens) == tokens[1] * m.input + tokens[2] * m.output

-----------------------------------------------------------------------------
\* Slip: the cost on record is not looked at.
seedCostAnew == 0

seedCost == paid.total

(* Run, from the queue, or after a pause that an approval has ended.  A    *)
(* run that a crash left running is not claimed again.                     *)
StartExecution ==
    /\ execution = None /\ paid.status \in {"queued", "paused"}
    /\ paid' = [paid EXCEPT !.status = "running"]
    /\ execution' = [pc |-> "next", soFar |-> seedCost]
    /\ UNCHANGED <<connected, work, spent, unrecorded, calls, losses, unread>>

failModelRun ==
    /\ paid' = [paid EXCEPT !.status = "failed"]
    /\ execution' = None

\* Slip: the other models of the provider that failed are not asked.
OthersElsewhere(m) ==
    { k \in DOMAIN AllProviders : AllProviders[k].provider \in connected \ {m.provider} }

(* What tryFallback goes through: the places in the catalogue of the       *)
(* models of connected providers, all but the one that failed; neither the *)
(* size nor the cost is looked at again.                                   *)
Others(m) ==
    { k \in DOMAIN AllProviders : AllProviders[k].provider \in connected /\ AllProviders[k].name # m.name }

(* RouteCall: the provider of the model that was chosen must be connected, *)
(* which the default's may not be.                                         *)
RouteCall ==
    /\ execution.pc = "next" /\ calls < MaxCalls
    /\ calls' = calls + 1
    /\ \E size \in Sizes :
       \E m \in SelectModel(connected, taskTypeForRole(work.role), difficultyForRisk(work.risk), size, 0) :
          IF m.provider \in connected
          THEN /\ execution' = [pc |-> "call", soFar |-> execution.soFar,
                                model |-> m, left |-> Others(m), failed |-> {}]
               /\ UNCHANGED paid
          ELSE failModelRun
    /\ UNCHANGED <<connected, work, spent, unrecorded, losses, unread>>

(* estimateCost: by the name that was sent, in the list of the provider.   *)
estimateCost(name, provider, tokens) ==
    LET known == { m \in AllModels : m.name = name /\ m.provider = provider }
    IN  IF known = {} THEN 0 ELSE Cost(CHOOSE m \in known : TRUE, tokens)

(* A provider answers: with text, which the router labels with the model   *)
(* it asked for.                                                           *)
Answered(tokens) ==
    /\ execution' = [pc |-> "answer", soFar |-> execution.soFar,
                     model |-> execution.model.name, provider |-> execution.model.provider,
                     cost |-> estimateCost(execution.model.name, execution.model.provider, tokens)]
    /\ spent' = spent + Cost(execution.model, tokens)
    /\ UNCHANGED <<connected, work, paid, unrecorded, calls, losses, unread>>

(* The three protocols.  What fails them is the same for the router: no    *)
(* answer in time, a status that is not 2xx, or nothing to read in it.     *)
callOpenAICompatible(tokens) ==
    execution.model.provider \in {"openai", "groq", "fireworks", "bifrost"} /\ Answered(tokens)
callAnthropic(tokens) == execution.model.provider = "anthropic" /\ Answered(tokens)
callGemini(tokens)    == execution.model.provider = "gemini" /\ Answered(tokens)

Call ==
    /\ execution.pc = "call"
    /\ \E tokens \in Tokens :
          callOpenAICompatible(tokens) \/ callAnthropic(tokens) \/ callGemini(tokens)

(* The next model in the order of the catalogue.                           *)
tryFallback ==
    /\ execution.pc = "call"
    /\ LET e      == execution
           failed == e.failed \cup {e.model.name}
           next   == Min(e.left)
       IN  IF e.left = {}
           THEN /\ paid' = [paid EXCEPT !.status = "failed"]
                /\ execution' = [pc |-> "refused", failed |-> failed]
           ELSE /\ execution' = [pc |-> "call", soFar |-> e.soFar, model |-> AllProviders[next],
                                left |-> e.left \ {next}, failed |-> failed]
                /\ UNCHANGED paid
    /\ UNCHANGED <<connected, work, spent, unrecorded, calls, losses, unread>>

(* parseModelAction: an answer that is no action ends the run, and nobody  *)
(* writes down what it cost.                                               *)
parseModelAction ==
    /\ execution.pc = "answer"
    /\ failModelRun
    /\ unrecorded' = unrecorded + execution.cost
    /\ UNCHANGED <<connected, work, spent, calls, losses, unread>>

(* recordModelUsage: a row of model_usage and then the run's, the second   *)
(* only after the first; a failure is logged.  CostSoFar has it anyway.    *)
recordModelUsage ==
    /\ execution.pc = "answer"
    /\ \E written \in {{}, {"usage"}, {"usage", "run"}} :
          LET c == execution.cost IN
          /\ written # {"usage", "run"} => losses < MaxLosses
          /\ losses' = IF written = {"usage", "run"} THEN losses ELSE losses + 1
          /\ paid' = [paid EXCEPT !.usage = @ + IF "usage" \in written THEN c ELSE 0,
                                  !.total = @ + IF "run" \in written THEN c ELSE 0]
          /\ unrecorded' = unrecorded + IF "run" \in written THEN 0 ELSE c
          /\ execution' = [pc |-> "charged", soFar |-> execution.soFar + c]
    /\ UNCHANGED <<connected, work, spent, calls, unread>>

Exceeded == execution.soFar > MaxCost

(* checkBudget, once the answer is charged and again when a tool was called*)
(* for it.                                                                 *)
OverBudget ==
    /\ execution.pc \in {"charged", "tooled"} /\ Exceeded
    /\ failModelRun
    /\ UNCHANGED <<connected, work, spent, unrecorded, calls, losses, unread>>

(* The run may go on: it has kept to its budget, or neither the task's nor *)
(* the project's could be read.                                            *)
checkBudget ==
    \/ ~Exceeded /\ unread' = FALSE /\ UNCHANGED losses
    \/ losses < MaxLosses /\ losses' = losses + 1 /\ unread' = TRUE

(* What the model wanted: a tool; an approval, which pauses the run; the   *)
(* end, which writes CostSoFar over the cost on record; or what cannot be  *)
(* done.                                                                   *)
ActOnAnswer ==
    /\ execution.pc = "charged" /\ checkBudget
    /\ \/ execution' = [execution EXCEPT !.pc = "tooled"] /\ UNCHANGED paid
       \/ execution' = None /\ paid' = [paid EXCEPT !.status = "paused"]
       \/ /\ execution' = None
          /\ paid' = [paid EXCEPT !.status = "completed", !.total = execution.soFar]
       \/ failModelRun
    /\ UNCHANGED <<connected, work, spent, unrecorded, calls>>

ToolCalled ==
    /\ execution.pc = "tooled" /\ checkBudget
    /\ execution' = [execution EXCEPT !.pc = "next"]
    /\ UNCHANGED <<connected, work, paid, spent, unrecorded, calls>>

(* The worker dies, or cannot write how the run ended: the row stays       *)
(* running, and an answer that was not charged is forgotten.               *)
RunnerDies ==
    /\ execution.pc \in {"next", "call", "answer", "charged", "tooled"} /\ losses < MaxLosses
    /\ losses' = losses + 1
    /\ execution' = None
    /\ unrecorded' = unrecorded + IF execution.pc = "answer" THEN execution.cost ELSE 0
    /\ UNCHANGED <<connected, work, paid, spent, calls, unread>>

RouterInit ==
    /\ connected \in Connections
    /\ work \in [role : Roles, risk : Risks]
    /\ paid = [status |-> "queued", total |-> 0, usage |-> 0]
    /\ execution = None
    /\ spent = 0 /\ unrecorded = 0 /\ unread = FALSE /\ calls = 0 /\ losses = 0

RouterNext ==
    \/ StartExecution \/ RouteCall \/ Call \/ tryFallback \/ parseModelAction
    \/ recordModelUsage \/ OverBudget \/ ActOnAnswer \/ ToolCalled \/ RunnerDies

-----------------------------------------------------------------------------
(* Properties.                                                             *)

(* The budget's max_cost holds over all executions of a run: no model is   *)
(* asked for anything once what the run has on record costs more, however  *)
(* often it was paused and taken up again, unless the last check could not *)
(* read the budget, which lets the run go on (runner_budget.go:45-48,      *)
(* runner.go:203-207).  A run that completes has at least what was written *)
(* down on record, and exactly what it spent when no answer was lost       *)
(* (runner.go:186-198, 768; runner_approval.go:208).                       *)
CostHeld ==
    /\ execution.pc = "call" /\ ~unread => spent - unrecorded <= MaxCost
    /\ paid.status = "completed" =>
          /\ paid.total >= spent - unrecorded
          /\ unrecorded = 0 => paid.total = spent

(* RouteCall gives up ("all providers failed") only after every model of   *)
(* every connected provider was asked and failed.                          *)
GivesUpLast ==
    execution.pc = "refused" =>
        execution.failed = { m.name : m \in { o \in AllModels : o.provider \in connected } }

=============================================================================
