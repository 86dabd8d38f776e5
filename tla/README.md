# dev-plane in TLA+

dev-plane is a control plane for coding agents: people and integrations create
tasks, a specification is written and approved, a worker process provisions a
workspace and lets agents run in it, the result is reviewed, a human approves,
a pull request is opened and merged. Its state is in one SQL database that an
API process and worker processes share, and in a NATS JetStream bus through
which they wake one another. Almost nothing is held in memory between two steps,
hardly any transaction spans more than one decision, and every message may come
twice. So what can go wrong is a matter of order: who reads what before
whom, which statement is the last before a crash, which message is already
acknowledged. That is what these models are about.

## The system and its parts

| part | state | operations | meets |
|---|---|---|---|
| scheduler (`packages/scheduler`) | none: a manifest and task states in, a decision out | `Validate`, `OwnershipConflict`, `Next`, `PlanWaves` | called by admission and by the work store |
| run admission (`apps/worker/.../scheduler_admission.go`, `run_handlers.go`) | `agent_runs.status`, `updated_at` as the age of a claim | `HandleRunTriggered`: `AdmitRun`, `claimRun`, budget, `loadRunningClaims`, `ReleaseRun` | scheduler, budget, executor; other workers through the rows |
| budget (`apps/api/internal/budget`) | budgets, counts over `agent_runs` | `CheckRunStart`, `CheckRun`, `RecordUsage` | admission, runner |
| initial run launch (`task_handlers.go`) | `tasks.status`, `tasks.workspace_id`, the first run, runtime sessions | `HandleTaskApproved`: claim, provision, commit, release, clean up | the API's `ApproveSpec`, `StartRun`, `CancelTask`, `UpdateTask`, `GenerateSpec` |
| run pipeline (`run_handlers.go`, `approval_handlers.go`, `prfactory`, `reviewer`) | `tasks.status`, runs, handoff messages, approvals, `pull_requests`, GitHub | handlers of completed and failed runs, reviews and approvals; create, merge, retry, cancel requests | everything a human does to a task |
| built-in runner and capability gate (`agentrunner`, `capability`, `policies`, `tools`, `approvals`) | the run, its steps, approvals, consumed authority, the workspace | model action, evaluation, approval, consumption, tool, pause, resumption | approvals are answered by the API, a chat, the service |
| external agents (`agentexternal`, `agentapproval`, `packages/agent-runtime`) | an agent process, goroutines and channels, threads, turns and items in the database | `ExecuteExternalRun`, `streamTurn`, `recordRun`, `supervise`, `RespondApproval` | admission before it, approvals beside it |
| workspaces and runtimes (`packages/runtimes`, `workspace_*.go`, `apps/runner`) | sessions in the map of a provider; containers, volumes, directories; the git tree | create, attach, destroy; commands, files, patches, snapshots, services | launch, runner, users of the workspace API |
| webhooks, integrations (`handlers/webhooks.go`, `worker/internal/webhooks`) | the WEBHOOKS stream, tasks they make, integrations | receive, publish, consume, verify | tasks, approvals |
| notifications and callbacks (`notification_handler.go`, `external_callback.go`) | what a receiver was told | notify, retry | the pipeline's events |
| ingress inventory (`infra/networking`) | the bucket `nodes.inventory` | process a frame, compare-and-swap | nodes of the mesh |
| secrets (`secrets`, `packages/crypto`) | references, versions of values, the keyring | create, rotate, resolve, delete | runs that need a value |
| work items (`repoprotocol/claim.go`, `db/work_store.go`, `verifier`) | leased work items, evidence | claim, verify | the workspace that is being worked in |
| model router (`modelrouter`) | connected providers, the cost of a run | choose, call, fall back, charge | built-in runner |
| tasks and specifications (`handlers/tasks.go`, `spec/generator.go`, `readiness/task.go`) | `tasks`, `task_specs`, `project_configs` | create, update, generate, assess, approve | launch, and through the files of a specification admission |
| event bus (`packages/events`) | streams of NATS | publish, subscribe, acknowledge | all handlers |

PROJECT.json lists every part, those that are not modelled too, with the reason.

What is hard: several actors read and write one row without a lock
(admission, launch, pipeline); a claim is a row status with an age, not a lock
with an owner; the subscription acknowledges a message after its callback
whatever the callback returned, so an error is never retried, but a crash is;
an agent may outlive the handler that started it, and is heard through
goroutines that may each stop first; requests check a status and write it in
another statement; an approval can be answered three ways, two of which look
at nothing; GitHub, Docker and the receivers of callbacks change in steps
of their own. The list under "hazards" in PROJECT.json names the lines, and with
each what its property leaves out.

## Modules

Ordered as they build on one another.

* **Ownership** (operators): repository paths as sequences of segments.
  `normalizeOwnership`, `normalizePattern`, `normalizeRepositoryPath`,
  `pathMatches`, `OwnershipConflict`. `path.Clean` is a fold over the segments.
  `Depth` and `StaysInside` are the independent meaning of "inside the
  repository", for the properties.
* **Manifest** (operators): manifests and `Validate`. Acyclicity is stated by its
  meaning (every set of entries has one that depends on none of it) instead of
  by the depth-first search.
* **Scheduler**: one call of `Next`, or of `PlanWaves`, as a state machine. The
  loop of `Next` is a step per entry (`PassOver`, `Admit`), after `Begin`
  (validation), `Tally` (what runs already) and `MarkSkipped`; `UseDecision` is
  the caller that starts what was admitted, `RecordWave` the loop of `PlanWaves`.
* **Admission** (uses Manifest): `HandleRunTriggered` with everything it calls,
  one step per SQL statement, for any number of workers and runs; the handlers
  that change a run behind its back; crashes, expiring claims and redelivery.
  `pc` is a worker's place in the handler, `job` its run, `background` the
  external agents that outlive their handler, `stale` the claims older than the
  TTL. The scheduler's answer is `Ready`, which is what one call of `Next` gives
  for a manifest whose only pending entry is the last one.
* **Launch**: the initial run of one task. `HandleTaskApproved` in the steps
  between which the code can be interrupted (look for a queued run, claim,
  provision, transaction, publish, clean up, release), against all API requests
  that write the task's status, two of which write over what they read earlier.
* **Pipeline**: one task from its first run to its merged pull request. The
  subscriptions of `agents.run.completed` and `approval.approved` keep their
  place in `completing` and `approving`, since their handlers have several steps
  that others can see; the handlers of the other subjects are one step. `bus`
  counts the messages that wait. GitHub is the sequence `remote`, our rows of it
  are `pulls`. `MergePullRequest`, `RetryRun` and the API's `CreatePullRequest`
  read in one step and write in others; worker and API open a pull request with
  the same factory (`OpenPullRequest`, `InsertPullRequest`). `backend` is what
  the spec was approved with; follow-on and retried runs inherit it, so a task
  has only built-in runs (which alone can hand off) or only external ones (whose
  failure alone names the task). An approval has a `kind` and is `about` a run: one
  for a pull request, or one that a run asks for on its way; any that is pending
  keeps `HandleReviewCompleted` from asking for the first kind (`silenced`). A
  handoff may name a role that does not exist (`Misaddressed`): the error is
  acknowledged and the completed run goes no further.
* **Policies** (operators): `Kernel.Evaluate` over the role permissions, the
  default policies, the budget and the sandbox. **Tools** (operators): what the
  ten tools of an agent do to a workspace, by the class of their input, for the
  local and the runtime implementation.
* **Gate** (uses Policies and Tools): one run of the built-in runner. A runner
  asks for an action, evaluates the call, looks for an approved authority for
  exactly this operation, resource and revision of the workspace, consumes it,
  carries the call out and persists the step; or asks for an approval and
  pauses. Two runners may be at it, because Admission lets a stale claim be
  taken over. Answers come from the API, a chat and the approvals service.
* **Authority**: what an approval promises. Gate is shown to implement it: the
  mapping reads the state of a request off the approval's answer, its
  consumption and the runner that is between consuming and calling.
* **Turns**: one run of an external agent, with codex or omp: the agent's pipe,
  `readLoop`, `streamTurn`, `recordRun` and `supervise` with their bounded
  channels and two contexts, the rows of threads, turns and items, the bridge's
  pause, and the two handlers that answer through `Manager.RespondApproval`. The
  UPDATE that writes how a run ended may fail like every other (fault `outcome`).
* **Sessions**: one workspace and its session, used by several requests at a
  time, served locally, through Docker or through the runner. `things` and the map
  of a provider are separate, since creation and destruction take one after
  the other; a snapshot is its git commands. `stuck` are the things whose removal
  failed in a step that ignores the error and goes on.
* **Webhooks**, **Callbacks**, **Inventory**, **Secrets**, **WorkItems**,
  **Router** (uses **Catalogue**), **Specs**: the services around the runs. In
  Specs a text is the set of the keywords in it, as the generator and the
  assessment look at nothing else; the statements of a request that generates,
  approves or updates are steps. In Secrets the
  statements of a transaction are steps, under PostgreSQL's rules for what they
  see and wait for. In Inventory a frame was `sent` at some time and may bear it
  (`stamped`); one that does not is given the time of each delivery. In Router the
  catalogue and the score are the compiled-in ones, scaled to integers, and a
  budget that could not be read (`unread`) lets the run go on.
* **MCScheduler, MCAdmission, MCLaunch, MCPipeline, MCGate, MCTurns,
  MCSessions, MCDelivery**: the instances that TLC checks; MCDelivery runs one of
  the seven services at a time, since they share no state.
* **ManifestProofs** (lemmas about paths, manifests and sums), **SchedulerProofs,
  AdmissionProofs, LaunchProofs, PipelineProofs, GateProofs, ExecutionProofs**
  (Sessions and Turns) and **DeliveryProofs** (the seven services): the theorems.

Definitions marked "Slip" are wrong versions of the definition after them, each a
plausible mistake; they take part in no specification and show that a property can fail.

## Runs

| run | instance | question |
|---|---|---|
| scheduler | one call of `Next`: 32 manifests of three entries with all task states (one of each pair that swaps cpu and memory), and pairs of raw patterns over two names, `.`, `..`, empty segments and globs that come last, in the middle or hidden before a slash; `PlanWaves`: all dependency relations of a family on four entries, cyclic ones included; invalid manifests of each kind | Is what `Next` admits exclusive and within capacity, down to the files the patterns cover? Does `PlanWaves` always return a schedule? |
| workers | two workers, four runs of four tasks in one repository with overlapping paths and scarce parallelism, cpu, memory and concurrency; crashes, redelivery | Are ownership, limits and the exclusiveness of claims kept although each worker reads the others' rows in steps of its own? Can a claim that a crash left behind be taken up again? |
| recovery | one worker, three runs of which two have external agents; crashes, failing statements, timeouts, refused budgets, redelivery, claims that outlast the TTL | Does a run ever have two agents? |
| progress | one worker, four runs with a dependency and one that is denied for good | Is every queued run started, however often it is denied and put off? |
| launch | two workers, a client that writes over what it read, two crashes, three messages, failing provider, statements and bus | One initial run, no revived cancelled task, no workspace left behind? |
| launch_progress | two workers, redelivery, `StartRun` at any time, no crash | Is every approved task launched? |
| pipeline | either backend, three runs, one handoff each, to a role that exists or not, two approvals of which one is of a run, two pull requests, two requests at a time, one crash, failed call, lost event or redelivered message; once a pull request comes up, runs, trouble and questions of a run are three together | Is a handoff consumed once, is an approval good for one pull request, does every pull request get its row although worker and API both open them, is every completed run taken on, can a task leave review? |
| gate | two runners, two tools, one approval, three ways to answer it, a person who edits files; lost events, failures, crashes, a taken-over claim | Does the runner implement Authority? Is the tool budget kept over all executions? |
| turns | codex and omp, two executions, one request for approval each, channels of one place, any one fault | Is a request answered once, and as a person answered it? Does a turn that is over end its run, if the end can be written? |
| sessions | two requests at a time, two edits, the three providers, processes that start anew | Is anything of a session left behind that nobody knows, but for what a removal whose error is ignored leaves? Does a session stay busy? Does a snapshot hold the work that was there when it was asked for? |
| delivery | the seven services, each with one or two actors of each kind and one or two faults | one property of each, below |
| webhook_echo (violated) | one issue of Linear | see Findings |

Why the bounds are enough: two workers (runners, requests, rotations) are the
smallest number that race, and a third adds no new pair of steps to the
protocols, in which an actor meets another only through rows; four runs are
needed for three that are admitted together and one that is refused. One
redelivery gives every interleaving of a message with its own copy. In Pipeline
three runs allow a failed run, its retry and a second retry that meets a merge;
the reuse of an approval that `ApprovalPerPullRequest` excludes needs all three,
and neither that property nor `ReviewHasWayOut` speaks of trouble. A run and the
one that follows or retries it are enough for a pull request of the worker that
meets one of the API, and one trouble may fall on any step of either. A handoff
that starts two runs takes three runs and one trouble, before a pull request
comes up. `WithinBounds` of MCPipeline, an action constraint, keeps TLC to these.
Faults, redeliveries and requests under way share a bound
(`MaxRequests`, `MaxTrouble`): one trouble meets one request, or two requests meet
each other, with the handlers always at work beside them. Runs kept back
for open handoffs (`RunsLeft`) make sure that the bound on runs stops no handler.
In Turns a channel of one place is full after one event, which is what a longer
one comes to. In Router the sizes of prompts put every context limit of the
catalogue on either side, and one size of an answer overruns the cost limit
after a few calls. In Inventory two frames, each with a time of its own or
none, are delivered twice. In Specs the titles are three: one without a
keyword, one for which the tables give no file, and one that gives files; one
update of the task meets two generations. In Callbacks two notices, of one kind
or of both, meet each other and one fall of the worker. What does not depend on
the sizes is proved (below): a bound here limits only what TLC has seen. Deadlock
is not checked: each system comes to rest, when a task is finished or waits for a
human, or the bounded inputs are used up.

Several workers: `packages/events` subscribes with a durable consumer and no
queue group, which NATS binds to one process at a time, so today one worker
handles a subject. Admission and Launch allow several because the code claims
to be safe for it (compare-and-set claims, "concurrent admission attempts fail
closed"). Pipeline, Webhooks and Callbacks take one, since their handlers make no such claim.

## Properties

`OwnershipDisjoint`, `ConcurrencyBounded` and `CapacityBounded` (parallelism, cpu,
memory) are the promises of admission; they speak of the runs that have been
admitted and not ended, not of the rows a worker counted. `ClaimExclusive` and
`ClaimRecoverable` are the two sides of a claim with a time limit: never two
holders, never none for ever. `OneAgentPerRun` is about agents that outlive their
handler. For the scheduler the sums and counts of `WithinLimits` are taken over
the manifest, not over the loop's counters; `NoSharedFile` asks of the path
matcher, which the repository protocol uses, what the scheduler decided by
comparing normalised patterns, for every file in `Files`, unless a pattern hides
its glob (`GlobsShow`, see Findings); `PlanIsSchedule` is the specification of a
schedule, independent of how it is computed.

`OneInitialRun` and `CancelSticks` hold as long as no request has written a
status over a newer one (`edited`): the interleavings with such requests are
explored, and the code has nothing to exclude a second launch after one.
`NoSessionLeak` does not speak of behaviours with a crash, after which nobody
knows the workspace. In Pipeline, `Settled` states are those with no message
waiting and no handler or request at work, without a failed call before:
`CompletedIsTakenOn` and `ReviewHasWayOut` say that the handlers together have
left nothing behind, which needs no assumption on when they run. With a failed
call they are false: the acknowledgement after an error loses the event.
`CompletedIsTakenOn` asks for a follow-on run or for the approval of the run's own
review, and names the two cases in which the code gives neither without any
failure: the oldest handoff is to an unknown role, or an approval was pending.
`ReviewHasWayOut` asks for something a person can do: `RetryRun` of a failed run, or
`CreatePullRequest` with no open pull request in its way. It does not speak of
redelivered completions or cancelled runs, which lead where there is no such way
(see Findings).
`ApprovalPerPullRequest` counts the pull requests of the worker; those of the
API's `CreatePullRequest` need no answered approval (`direct`).

`SingleUseAuthority` is the specification of Authority under the mapping: no
sensitive call is carried out that was not approved for exactly this operation,
resource and revision, and no approval pays twice, although an answer may be
changed until it is consumed. `ToolBudgetHeld` bounds the calls on record over all
executions: for each of two runners that are at the run at once by the limit and
the one call that passes it, and by no more with every further execution. `DecidedOnce`:
the agent gets at most one answer to a request, and one a person gave to that
request, while answers contradict each other and the worker dies between
marking, dispatching and recording. `EndedTurnEndsRun` excepts a worker that dies
and an `outcome` that could not be written. `NothingOutlivesItsSession`,
`BusyOnlyWhileCommand` and `SnapshotKeepsWork` are about requests that overlap;
the first does not speak of what is `stuck`, nor of sessions of a process that has
started anew.

In delivery: `GitHubTaskPerEvent` (the consumer hears what it publishes
itself), `ReceiverActsOnce` (a receiver that ignores the event ids it knows acts
no more often than something happened), `NeverStale` (telemetry that bears
its time was sent no earlier than what it replaces; telemetry that bears none is
only known to replace what was sent before it was delivered this time), `OneActiveValue` (overlapping rotations leave one value, the
last), `EvidenceOfCommit` (evidence about a commit was found on it), `CostHeld` (no
model call is made once the charges that were written exceed the limit, over
pauses and crashes, unless the last check could not read the budget; and a
completed run's total is what it spent, if no answer of a model was lost),
`GivesUpLast` (the router gives up only when every connected model has failed),
`ReviewedCanRun` (a task the generator put in review has a specification that
does not block its approval and gives its runs something to own, although
another one is generated and the task updated meanwhile; without it a run
would exclude every other of its repository, `scheduler_admission.go:376`).

Fairness. Scheduler: a pure function that was called returns (`WF(Next)`).
Admission: a worker with a message goes on, a running agent ends or pauses, time
passes (weak); a message that is not acknowledged is delivered to a free worker
again and again (strong, since the worker may be busy in between): JetStream
redelivers after the delay of `NakWithDelay` without limit. Launch: the
same, and a triggered run is taken up, which is what `progress` shows. Turns: each
goroutine that can take a step takes it (weak), as the Go scheduler sees to; the
agent itself need never say anything. No human ever has to act, and no fault
has to happen.

## Findings

* **webhook_echo**: the worker subscribes to `webhooks.*` and does not look at
  the subject of a message; `publishWebhookProcessed` publishes under
  `webhooks.processed` what it just handled, payload included. For an issue of
  Linear every echo makes another task.

What the models show without a run of its own, because no text of the
repository says otherwise or a run could only repeat it; the notes of the
hazards have the lines:

* A pattern that hides its glob before a slash (`a/**/`) is literal for
  `OwnershipConflict` and a glob for `pathMatches`: it does not collide with `a/b`,
  and both cover the file `a/b`. With such patterns `NoSharedFile` is false
  if `GlobsShow` is taken out of it.
* A paused external run is set running again without asking the budget or the
  scheduler: what it owns and needs may have been given to others in the
  meantime, so that `ConcurrencyBounded`, `OwnershipDisjoint` and
  `CapacityBounded` fail where such runs exist, with one worker too.
* A run that times out writes its failure through the context that timed out,
  and stays running; so does a run whose worker died.
* A crash between claim and transaction of the launch leaves a task running
  without a run; the redelivered message finds nothing to do.
* The built-in runner's `agents.run.failed` names no task, so that the task is not failed.
* The approval of a capability is published before the run is paused: an answer
  that comes first leaves a paused run with nothing to answer.
* A step or a charge that could not be written is only logged, and forgotten by
  the next execution of the run.
* `Claim` of a work item is written back unconditionally: two holders are possible.
* A generated specification never requires an approval and no request edits one,
  so that a task of critical risk cannot be approved; the risk that counts is
  the one read before the approval is written.
* The first of two overlapping commands to end sets the session ready.
* A completion that is delivered again, or is that of a run that was cancelled,
  sends its task back to review under its open pull request: GitHub refuses
  another, and `MergePullRequest` wants a task that is `pr_created`. (The second
  takes an external agent that asked twice, was refused twice and was
  cancelled, and a retry: `MaxAsks = 2`, beyond the instance of the run.)
* A handoff to a role that does not exist is an error of `scheduleFollowOnRun` that
  is acknowledged: the completed run is neither followed nor reviewed
  (`run_handlers.go:226-228`).
* Any pending approval of a task, of whatever kind, keeps the review of a run from
  asking for its pull request, and nothing asks later (`run_handlers.go:398-402`).
* The errors of removing a directory, a volume or a container are ignored in
  `Cleanup` (`docker.go:229-231`), as that of a directory is in
  `DestroyWorkspace` (`docker.go:337`), which then forgets the session.
* If the UPDATE at the end of an external run fails, the run stays running
  (`supervisor.go:267-284`). If `markStarted` cannot publish after its
  UPDATE, the start fails with the row running.
* A frame without a time is given that of its delivery
  (`ingress_consumer_daemon.go:337-339`): an old one that is delivered again
  replaces newer telemetry.
* A budget that cannot be read lets a run go on (`runner_budget.go:45-48`), as if it
  had none.

## Proofs

All for every value of the constants, from the named assumptions that the
modules state for them (finite sets of workers and runs, limits that are
natural numbers, manifests of records of the right shape). The bounds of the
models are constants too, so that the theorems hold for every number of crashes,
redeliveries and requests. What a theorem assumes beyond that is said here.

Where a property speaks of a sum (cpu, memory) ManifestProofs has the sum over a
finite set as a pile with one more on it or one less (`Total`), which is all the
proofs need.

* **ManifestProofs** has what the path functions return, which `NoFileIsShared`
  rests on. `path.Clean` is a fold over the segments; `CleanWalks` unrolls it to
  a walk of stacks, one for each prefix of the path, and what holds along the walk
  (`CleanStaysInside`: the height of the stack is the depth reached, so a path
  is refused exactly when it leaves the repository) is shown of the set of
  the prefixes it holds for, which contains 0 and is closed under successor
  (`EveryNat`), as the library's induction theorems cannot be used here.
  `OwnershipIs` and `RepositoryPathIs` say what the two normalisers return,
  `MatchCases` and `CoveredIsBelow` that a file lies below the normal form of
  a pattern that covers it, and `PrefixesMeet` that two ancestors of one
  file are one the ancestor of the other.
* **SchedulerProofs.** `TypeCorrect`; `SelectInvariant`, from which
  `OwnershipIsExclusive`, `ParallelIsBounded` and `DependenciesAreRespected`
  follow. `OwnershipExclusive` alone is not inductive: the loop compares a
  candidate with those before it in one argument order, so the invariant must
  remember that the manifest was validated, for which `OwnershipConflict` is
  symmetric (`ConflictSymmetric`), and that nothing is admitted while the
  running entries are counted. `NoFileIsShared`: both normal forms would be
  ancestors of the shared file, hence in conflict (`CoveredCollide`), for patterns
  of any length over any names. `LimitsAreKept`: the property sums over the
  manifest, the loop over what it has come by, so `ChargeInv` says that each
  entry that runs or is admitted was charged once and no other was.
  `PlanNeverDeadlocks`: while a plan runs nothing is running or failed; acyclicity
  gives a pending entry that depends on no pending one; the loop invariant says
  that as long as nothing is admitted no entry passed over was eligible, and the
  first eligible one fits because nothing is used. `PlansAreSchedules`: `WaveInv`
  relates the waves on record to the states of the entries, and a wave becomes one
  only as the decision that `SelectInv` and `ChargeInv` describe. `CallsDescend` is
  the safety half of `Terminates`: a step shortens the rest of the two loops
  (`StepsLeft`) or lowers the number of pending entries, both natural numbers
  (`StepsAreCounted`), so that with the fairness of a pure function every call
  returns, for every manifest.
* **AdmissionProofs.** `AdmissionTypes` and, for a run whose statements do not fail
  (`"error"` is not among the faults), `ClaimsAreRecoverable`: a run has as
  many messages as workers at it, and while its row says admitting more than are
  about to be acknowledged (`RecoverInv`). `AgentsKeptApart`,
  the invariant of the claim: a worker between claim and decision has a row that
  says admitting, an executing one a row that says running or cancelled, no two
  workers hold one run, and a run whose agent goes on in the background is in no
  status that can be claimed. A claim has no owner, so exclusiveness rests on the
  row's status: `ClaimableHasNoAgent`. It holds under `Separate`: one worker, or
  only external agents pause and no worker outlasts the TTL. From it
  `ClaimsAreExclusive` and `OneAgentAtWork`, with external agents that suspend,
  resume and time out. The counts need `Deployment`: `Separate`, and external
  agents that do not pause (omp has no approvals, and a codex agent need not
  ask), as one that does is set running unasked (see Findings). `ClaimProtocol` adds
  to the invariant that nothing in the background is paused. From it
  `ConcurrencyIsBounded` (every
  run past the budget is counted, and only `CheckRunStart` adds one, after
  counting), `OwnershipIsDisjoint` (only a granted decision admits, and at that
  moment every admitted rival is among the claims that were read) and
  `CapacityIsBounded` (of every repository the admitted tasks are a set that fits,
  `WithinCapacity`; what is granted fits beside the claims that were read, and they
  include every admitted run).
* **LaunchProofs.** `LaunchTypes`; `LaunchClaims`: as long as no request has
  set the status by hand, at most one worker is between claim and release, the
  task is then running or cancelled, and has no run while it is running. From it
  `InitialRunIsUnique`, `LaunchedIsNotApproved` and `CancellationSticks`, with any
  number of workers, crashes, failures and redelivered messages.
  `SessionsDoNotLeak`, if the provider destroys what it is told to (`"destroy"` is
  not among the faults): every workspace is in exactly one hand, a worker's or
  the task's, which is counted over the workers.
* **PipelineProofs.** The types are not inductive by themselves: an
  acknowledgement must find its message and a row its pull request, and a
  counter of open handoffs stays in range only as long as every one was sent.
  `PipelineInvariant` adds these facts, that the runs that followed a run
  and its open handoffs are together no more than it sent, and `Recording`: a
  pull request that is created and not yet recorded is the newest, is open, and
  is in the hands of the worker or of a request, never of both, since GitHub
  refuses a second one for a branch. From it `PipelineTypes` and
  `HandoffsStartOneRun`; `ApprovalIsSole` (one pending approval of a pull request,
  unless a statement fails) and `PullRequestsAreRecorded` are inductive on top of
  it. `CompletedRunsAreTakenOn` and `ReviewHasAWayOut` say what is left when all is
  handled. For the first, a completed run is at every moment taken on, or a message
  or handler carries it there (`TakenOn`, `Coming`), and every step that ends the one
  begins the other (`ComingGoesOn`). For the second, a task in review has a run
  that completed or failed (`InReview`), and without redelivery and cancelled runs a
  task has one active run at a time, and none once it is in review or has an open
  pull request (`Chain`): hence no completion can send it back to review
  under that. `OnePullRequestPerApproval` (without faults and redelivery, as the
  property says): an approval is announced once, and the worker has created no
  more pull requests than approvals for one whose event is used up (`Budget`).
* **GateProofs.** `GateTypes`. `AuthorityHeldOnce`: a consumed approval was granted
  for what its runner holds, and by one runner only, or has paid for the one call
  on record. From it `GateImplementsAuthority`, the refinement, step by
  step: each step of a runner, an answer or a crash is a step of Authority or
  changes nothing of it. `ToolBudgetIsHeld`, as long as budget and record can be
  read (`"unreadable"` is not among the faults): the property counts what is on
  record, a runner counts for itself from what it has read, so the invariant is a
  potential: the record and what each runner may still add (`Left`) stay together
  within limit + 1 for each runner (`Shared`).
* **ExecutionProofs.** Sessions: `SessionTypes` (types, and what the
  handlers do not check again: only a command runs, only a snapshot is
  committed, only the local runtime gives a path). `SessionsLeaveNothing`:
  destruction takes the container, then the volume, then the session, and after
  its first step nothing makes another (`Undone`); what stays is `stuck`, whose
  removal failed in a step that ignores it. `RunningIsACommand`.
  `SnapshotsKeepWork`: `KeepingInv` follows the work that was there through add,
  commit and rev-parse, and through the commits of others in between. Turns:
  `DecisionsAreSingle`, since the key of a request is in one place of four: not
  asked, in the channel, pending, or answered (`InOnePlace`), and moves on through
  them only; a message and a handler carry what a person gave (`GivenByPeople`).
  The statuses of item and turn, which `RespondApproval` checks, are not needed
  for it: that the provider takes the key out of its map decides.
* **DeliveryProofs.** One theorem for each service. Nothing is assumed beside the
  shapes of the constants: what may go wrong (a budget that is not read, a frame
  without a time, a status written by hand) is named in the property.
  `TelemetryNeverStale`: a goroutine whose compare-and-swap would succeed holds
  telemetry whose time is not before the sending of the record's (`WinnerFresh`). `SecretHasOneValue`:
  versions have no gaps, so that one more than the version that was read is the
  next or a conflict, and at most one rotation is past the wait. From the same
  invariant `RotationsAppend`, an action property: a secret is a log of values to
  which one version after another is appended, and none is overwritten.
  `EvidenceBound`: what a gate has found of a commit stays
  found of it while the workspace goes on. `OneTaskPerGitHubEvent`: only a message
  that was received names a repository, and the one being handled is counted and
  not used up (`ToMake`). `CallbackActedOnOnce`: the receiver's ids are those of
  messages that name what happened. `ReviewedTaskCanRun`: whatever the keywords,
  the generator's text does not block (`GeneratedUsable`). `CostStaysInBudget`: what
  was spent is on record, owed, or lost and counted as lost (`Ledger`), and a call
  follows a check that saw the record within the limit, or did not see it.
  `RouterGivesUpLast`: every connected model has failed, is being asked or is left
  (`NoneForgotten`), over the compiled-in catalogue.

Only model-checked: what needs fairness (`Terminates`, `QueuedRunsProceed`,
`ApprovedIsLaunched`, `EndedTurnEndsRun`), since liveness and ENABLED are out of the
prover's reach. Every other property of a passing run is a theorem; what a
theorem assumes away is absent from the run of its property too.

## Abstractions

* A SQL statement and a transaction are steps; a statement may fail (faults
  `error`, `database`, `outcome`, the counter of Pipeline), but in Pipeline not
  everywhere: asking for an approval, the update of `HandleRunFailed`, the end of a run
  and the statements around an answer do not fail. In Pipeline the writes at the end
  of `MergePullRequest` and of `RetryRun` are one step, which may stop after any
  of them; so are the statements of the handlers without a place of their own.
* Of the work-item adapter (`NextWork`) Scheduler has only that the decision is
  used: work items become a manifest by renaming fields and states.
* All runs of Admission belong to one project; tasks, paths and resources are
  constants. Cost, time and spend limits are a refusal that may happen.
* `Supervisor.register`, which refuses a second supervision of a run in one
  process, is left out of Admission: `OneAgentPerRun` holds without it.
* A task that nothing depends on is never marked done in Admission; nothing
  reads that.
* Pipeline has no answers from chat (they are Gate's) and no deployments.
  Approvals do not expire, as nothing in the repository sets `expires_at`. `from` names only the run whose handoff was consumed.
* In Gate a workspace is the number of its git tree, a resource is a name, and
  an input of a tool is classed by what the tool's checks look at. Symbolic
  links and what a shell command may do beyond that are left out.
* Turns has one request for approval in a turn and one other item; the JSON of
  the two wire protocols is what it means.
* In Sessions a file is an edit that is there or not; two edits at a time.
* In Specs the ownership a run is admitted with is read, not kept: a
  specification that is generated anew changes it for a run that was admitted.
  Admission's runs have constant paths, as a task that runs is not generated for
  unless its status is set back by hand.
* Retention and filters of the NATS streams are external, and so is SQL
  isolation above single statements except in Secrets.

## Not modelled

`packages/execution` is a library of pure checks (activations, grants, intents,
receipts) without a caller outside its tests: there is no protocol in the
repository to put them into. The same is true of `Claim` and `Verify`, which are
modelled because their tests do compose them. Deployments write a task's status
over whatever it is; as actions of Pipeline they make the instance too large
for what they would show. The handlers of organisations, projects, repositories,
policies, artifacts and audit are single statements on rows that nothing else
races for, and authorisation is a look-up before them. Repository readiness,
detection, scanners and version control run commands and read files; their verdicts are
inputs of the models. The API description, the web application, the command
line, configuration and telemetry hold no state of the system.

## Plan

1. Widen `ToolBudgetIsHeld` to a budget that cannot be read at times.
2. Refinements beyond Authority: Launch as an abstract launch that happens once,
   Turns as a request that waits, is decided once and forgotten in a crash.
3. Type correctness of Turns (`TurnsTypeOK`), which has to relate the events in
   the channels to the keys they name, and the ordering of its rows on top of it.
