------------------------------- MODULE Specs -------------------------------
(***************************************************************************)
(* The specification of a task: the requests that create and update the    *)
(* task, the generator that writes its specification from the title, the   *)
(* description and the configuration of the repository, and the assessment *)
(* of its readiness, on which the approval and the ownership of a run rest.*)
(*                                                                         *)
(* A text is the set of the keywords it contains, a file of a              *)
(* specification the keyword it was guessed from, and a plan the set of its*)
(* sections.  Runs and what they make of the status are Launch's and       *)
(* Pipeline's; nothing here knows of them.                                 *)
(***************************************************************************)
EXTENDS Naturals, SequencesExt

CONSTANTS
    Title,          \* titles, each the keywords it contains
    Remark,         \* descriptions, the same
    RiskLevels,
    Commands,       \* configurations: which commands a repository has
    Generation,     \* requests for a specification
    MaxUpdates      \* bound on updates of the task

VARIABLES
    draft,          \* the task
    byHand,         \* history: the status was last written by UpdateTask
    config,         \* the commands of project_configs
    spec,           \* the row of task_specs
    generation,     \* the requests for a specification
    approving,      \* a request that approves it has found it ready
    update,         \* a request that updates the task
    updates

specVars == <<draft, byHand, config, spec, generation, approving, update, updates>>

NoSpec   == [plan |-> {}, change |-> {}, create |-> {}, criteria |-> {}, tests |-> {},
             risks |-> {}, rollback |-> {}, approvals |-> {}, agent |-> "none"]
Waiting  == [pc |-> "idle", task |-> [words |-> {}, remark |-> {}], config |-> {}]

-----------------------------------------------------------------------------
(* The texts of the generator.                                             *)

ChangeKeywords ==
    { "api", "handler", "route", "model", "database", "db", "migration", "config", "test",
      "style", "component", "page", "hook", "util", "middleware", "auth", "docker", "ci",
      "docs", "readme" }

CreateKeywords ==
    { "component", "hook", "util", "helper", "middleware", "test", "api", "handler", "model",
      "migration", "service", "config", "types" }

\* Slip: the table has no entry for documentation.
inferNoDocs(t) == { <<"change", k>> : k \in t.words \cap (ChangeKeywords \ {"docs"}) }

inferFilesToChange(t) == { <<"change", k>> : k \in t.words \cap ChangeKeywords }

(* Files for what is to be created, and tests unless the title is about    *)
(* tests or documentation.                                                 *)
inferFilesToCreate(t) ==
    LET typed == t.words \cap CreateKeywords
    IN  (IF t.words \cap {"create", "add", "new", "implement", "introduce"} = {} THEN {}
         ELSE IF typed = {} THEN {<<"new", "implementation">>} ELSE { <<"new", k>> : k \in typed })
        \cup (IF t.words \cap {"test", "docs"} = {} THEN {<<"corresponding", "tests">>} ELSE {})

buildImplementationPlan(c) ==
    {"analyze", "review", "implement", "add tests", "verify"}
    \cup (c \cap {"framework", "lint", "typecheck", "test"})

buildAcceptanceCriteria(t) ==
    {"satisfies the title", "existing tests pass", "coverage", "style"}
    \cup (t.remark \cap {"bullets"})

buildTestPlan(t, c) ==
    {"unit", "manual"} \cup (c \cap {"test"})
    \cup (IF t.words \cap {"api", "endpoint", "handler"} # {} THEN {"integration"} ELSE {})

buildRiskAssessment(t) ==
    LET risky == { <<"migration", {"database", "migration"}>>, <<"security", {"auth", "security"}>>,
                   <<"configuration", {"config", "environment"}>>, <<"deployment", {"docker", "deploy"}>> }
        found == { r[1] : r \in { q \in risky : q[2] \cap t.words # {} } }
                 \cup (IF {"api", "delete"} \subseteq t.words \/ "remove" \in t.words
                       THEN {"breaking"} ELSE {})
    IN  {"tests first"} \cup (IF found = {} THEN {"low"} ELSE found)

buildRollbackPlan == {"revert", "down-migration", "verify", "communicate"}

Agents ==
    << <<"test-engineer", {"test"}>>, <<"refactorer", {"refactor"}>>, <<"debugger", {"bug", "fix"}>>,
       <<"technical-writer", {"docs", "readme"}>>, <<"backend-engineer", {"api", "endpoint"}>>,
       <<"frontend-engineer", {"ui", "component", "style"}>>,
       <<"database-engineer", {"database", "migration", "schema"}>>,
       <<"devops-engineer", {"docker", "deploy", "ci"}>>,
       <<"security-engineer", {"security", "auth", "vulnerability"}>> >>

(* The first agent one of whose keywords is in the title or description.   *)
recommendAgent(t) ==
    LET k == SelectInSeq(Agents, LAMBDA a : a[2] \cap (t.words \cup t.remark) # {})
    IN  IF k = 0 THEN "fullstack-engineer" ELSE Agents[k][1]

(* Nothing ever requires an approval.                                      *)
generateMVPSpec(t, c) ==
    [plan |-> buildImplementationPlan(c), change |-> inferFilesToChange(t),
     create |-> inferFilesToCreate(t), criteria |-> buildAcceptanceCriteria(t),
     tests |-> buildTestPlan(t, c), risks |-> buildRiskAssessment(t),
     rollback |-> buildRollbackPlan, approvals |-> {}, agent |-> recommendAgent(t)]

-----------------------------------------------------------------------------
(* The readiness of a task.                                                *)

taskSpecCheck         == IF spec = NoSpec THEN "blocked" ELSE "ready"
taskPlanCheck         == IF spec.plan = {} THEN "attention" ELSE "ready"
taskScopeCheck        == IF spec.change \cup spec.create = {} THEN "attention" ELSE "ready"
taskAcceptanceCheck   == IF spec.criteria = {} THEN "blocked" ELSE "ready"

(* A plan for the tests, or a command of the repository.                   *)
taskVerificationCheck ==
    IF spec.tests = {} /\ "test" \notin config THEN "blocked" ELSE "ready"

taskRiskCheck(risk) ==
    CASE risk = "critical" /\ spec.approvals = {} -> "blocked"
      [] risk \in {"high", "critical"} /\ (spec.approvals = {} \/ spec.rollback = {}) -> "attention"
      [] OTHER -> "ready"

(* What is blocked is critical, and blocks the task.                       *)
summarize(checks) ==
    IF "blocked" \in checks THEN "blocked"
    ELSE IF checks = {"ready"} THEN "ready" ELSE "attention"

assessTaskReadiness(risk) ==
    summarize({taskSpecCheck, taskPlanCheck, taskScopeCheck, taskAcceptanceCheck,
               taskVerificationCheck, taskRiskCheck(risk)})

(* What a run of the task owns (SchedulerAdmission).  A run that owns      *)
(* nothing keeps every other one of the repository from being admitted.    *)
loadTaskSpecOwnership == spec.change \cup spec.create

-----------------------------------------------------------------------------
(* The requests.                                                           *)

insertDraft(words, remark, risk) ==
    /\ draft.status = "none"
    /\ draft' = [status |-> "backlog", words |-> words, remark |-> remark, risk |-> risk]
    /\ UNCHANGED <<byHand, config, spec, generation, approving, update, updates>>

CreateTask == \E words \in Title, remark \in Remark, risk \in RiskLevels : insertDraft(words, remark, risk)

(* The risk is the default.                                                *)
CreateVoiceTask == \E words \in Title, remark \in Remark : insertDraft(words, remark, "low")

(* Without a title it is "Build from Builder's Brief", which has the "ui"  *)
(* of "build".                                                             *)
CreateBriefHandoff ==
    \E words \in Title \cup {{"ui"}}, remark \in Remark, risk \in RiskLevels : insertDraft(words, remark, risk)

Generates(g, fields) == generation' = [generation EXCEPT ![g] = fields]

GenerateSpec(g) ==
    /\ generation[g].pc = "idle" /\ draft.status \in {"backlog", "failed"}
    /\ Generates(g, [Waiting EXCEPT !.pc = "load"])
    /\ UNCHANGED <<draft, byHand, config, spec, approving, update, updates>>

LoadTask(g) ==
    /\ generation[g].pc = "load"
    /\ Generates(g, [generation[g] EXCEPT !.pc = "config",
                     !.task = [words |-> draft.words, remark |-> draft.remark]])
    /\ UNCHANGED <<draft, byHand, config, spec, approving, update, updates>>

(* Without a configuration, or with one that cannot be read (a command     *)
(* that is NULL), it goes on.                                              *)
loadProjectConfig(g) ==
    /\ generation[g].pc = "config"
    /\ \E c \in {config, {}} : Generates(g, [generation[g] EXCEPT !.pc = "save", !.config = c])
    /\ UNCHANGED <<draft, byHand, config, spec, approving, update, updates>>

(* One row for a task: a later one overwrites it.  Every statement may fail.*)
saveSpec(g) ==
    /\ generation[g].pc = "save"
    /\ \/ /\ spec' = generateMVPSpec(generation[g].task, generation[g].config)
          /\ Generates(g, [generation[g] EXCEPT !.pc = "status"])
       \/ Generates(g, Waiting) /\ UNCHANGED spec
    /\ UNCHANGED <<draft, byHand, config, approving, update, updates>>

(* Whatever the status is by now.                                          *)
updateTaskStatus(g) ==
    /\ generation[g].pc = "status"
    /\ \/ draft' = [draft EXCEPT !.status = "spec_review"] /\ byHand' = FALSE
       \/ UNCHANGED <<draft, byHand>>
    /\ Generates(g, Waiting)
    /\ UNCHANGED <<config, spec, approving, update, updates>>

(* ApproveSpec assesses what it reads, then updates if the task is still in*)
(* review.                                                                 *)
ReadTaskToApprove ==
    /\ ~approving /\ draft.status = "spec_review" /\ assessTaskReadiness(draft.risk) # "blocked"
    /\ approving' = TRUE
    /\ UNCHANGED <<draft, byHand, config, spec, generation, update, updates>>

ApproveSpec ==
    /\ approving /\ approving' = FALSE
    /\ IF draft.status = "spec_review"
       THEN draft' = [draft EXCEPT !.status = "approved"] /\ byHand' = FALSE
       ELSE UNCHANGED <<draft, byHand>>
    /\ UNCHANGED <<config, spec, generation, update, updates>>

validStatusTransitions ==
    [backlog     |-> {"spec_review", "cancelled"},
     spec_review |-> {"approved", "backlog", "cancelled"},
     approved    |-> {"running", "cancelled"},
     running     |-> {"reviewing", "failed", "cancelled"},
     reviewing   |-> {"pr_created", "running", "failed", "cancelled"},
     pr_created  |-> {"deploying", "done", "running", "cancelled"},
     deploying   |-> {"done", "failed", "cancelled"},
     done        |-> {},
     failed      |-> {"backlog", "running", "cancelled"},
     cancelled   |-> {"backlog"}]

(* UpdateTask checks the new status against the one it read.               *)
ReadTaskToUpdate ==
    /\ update = "no" /\ updates < MaxUpdates /\ draft.status \in DOMAIN validStatusTransitions
    /\ \E s \in {"same", draft.status} \cup validStatusTransitions[draft.status] : update' = s
    /\ updates' = updates + 1
    /\ UNCHANGED <<draft, byHand, config, spec, generation, approving>>

UpdateTask ==
    /\ update # "no"
    /\ \E words \in Title \cup {draft.words}, remark \in Remark, risk \in RiskLevels :
          draft' = [status |-> IF update = "same" THEN draft.status ELSE update,
                    words |-> words, remark |-> remark, risk |-> risk]
    /\ byHand' = IF update = "same" THEN byHand ELSE TRUE
    /\ update' = "no"
    /\ UNCHANGED <<config, spec, generation, approving, updates>>

-----------------------------------------------------------------------------
SpecsInit ==
    /\ draft = [status |-> "none", words |-> {}, remark |-> {}, risk |-> "low"]
    /\ byHand = FALSE /\ spec = NoSpec /\ approving = FALSE /\ update = "no" /\ updates = 0
    /\ config \in Commands
    /\ generation = [g \in Generation |-> Waiting]

SpecsNext ==
    \/ CreateTask \/ CreateVoiceTask \/ CreateBriefHandoff
    \/ (\E g \in Generation : GenerateSpec(g) \/ LoadTask(g) \/ loadProjectConfig(g))
    \/ (\E g \in Generation : saveSpec(g) \/ updateTaskStatus(g))
    \/ ReadTaskToApprove \/ ApproveSpec \/ ReadTaskToUpdate \/ UpdateTask

-----------------------------------------------------------------------------
(* A task that the generator put in review can go on, whatever its title,  *)
(* its description and the repository's commands are, and although         *)
(* specifications are generated and the task is updated at the same time:  *)
(* it has a specification that does not block its approval, and its runs   *)
(* own something.  (A task of critical risk is blocked: no specification   *)
(* that is generated requires an approval.)                                *)
ReviewedCanRun ==
    draft.status = "spec_review" /\ ~byHand =>
        /\ spec # NoSpec /\ loadTaskSpecOwnership # {}
        /\ draft.risk # "critical" => assessTaskReadiness(draft.risk) # "blocked"

=============================================================================
