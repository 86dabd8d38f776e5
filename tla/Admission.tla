----------------------------- MODULE Admission -----------------------------
(***************************************************************************)
(* Run admission: apps/worker/internal/handlers/scheduler_admission.go and *)
(* HandleRunTriggered, with what they call (budget.Engine.CheckRunStart,   *)
(* agentexecutor.Executor.ExecuteRun, agentexternal.Supervisor) and the    *)
(* handlers that change a run behind their back (CancelAgentRun,           *)
(* resumePausedRun, respondAgentRuntimeApproval, the approval bridge).     *)
(*                                                                         *)
(* A run is a row of agent_runs.  A worker takes a runs.triggered message, *)
(* claims the run with a compare-and-set on the row, asks the budget, asks *)
(* the scheduler, executes the run and gives the claim back.  Every SQL    *)
(* statement is a step of its own.  All runs belong to one project.        *)
(***************************************************************************)
EXTENDS Manifest

CONSTANTS
    Worker,          \* processes subscribed to runs.triggered
    Run,             \* rows of agent_runs
    NoRun,           \* what an idle worker works on
    Task,            \* rows of tasks
    TaskOf,          \* agent_runs.task_id
    RepoOf,          \* tasks.repository_id
    Scheduled,       \* tasks with scheduler metadata or a task spec that names files
    Config,          \* what resolveSchedulerConfig returns for a scheduled task
    Blocked,         \* runs whose persisted admission evidence denies them
    Pausable,        \* runs whose agent may stop for an approval
    External,        \* runs with the agent_runtime execution backend
    MaxParallel, Cpu, Memory,   \* SchedulerCapacity
    MaxConcurrent,   \* budget.MaxConcurrentAgents, 0 for none
    MaxTriggers,     \* for each run, bound on its undelivered and unacknowledged messages
    Faults           \* what may go wrong: see FaultKinds

FaultKinds == {"crash",       \* a worker process dies and is restarted
               "error",       \* a database statement or a publish fails
               "spend",       \* the budget refuses for cost, time or spend
               "redeliver",   \* JetStream delivers an unacknowledged message again
               "timeout",     \* the 30 minute context of HandleRunTriggered ends
               "slow"}        \* a live worker outlasts schedulerAdmissionClaimTTL

ASSUME RunAssumption ==
    /\ IsFiniteSet(Run) /\ IsFiniteSet(Worker)
    /\ NoRun \notin Run
    /\ TaskOf \in [Run -> Task]
    /\ Faults \subseteq FaultKinds

ASSUME CapacityAssumption ==
    /\ MaxParallel \in Nat \ {0} /\ Cpu \in Nat \ {0} /\ Memory \in Nat \ {0}
    /\ MaxConcurrent \in Nat /\ MaxTriggers \in [Run -> Nat \ {0}]
    /\ \A t \in Scheduled : Config[t].cpu \in Int /\ Config[t].memory \in Int

VARIABLES
    status,       \* agent_runs.status
    stale,        \* runs whose updated_at is older than schedulerAdmissionClaimTTL
    done,         \* tasks with status "done"
    trig,         \* messages on runs.triggered that nobody acknowledged, per run
    pc,           \* where a worker is in HandleRunTriggered
    job,          \* the run a worker handles
    background    \* external runs whose agent outlives the handler, per worker

vars == <<status, stale, done, trig, pc, job, background>>

RunStatuses == {"queued", "admitting", "running", "paused", "completed", "failed", "cancelled"}

Steps == {"idle", "load", "claim", "budget", "decide", "granted", "launched", "preempted",
          "executing", "deny", "abort", "release", "ack", "nak"}

-----------------------------------------------------------------------------
(* Helpers.                                                                *)

\* UPDATE agent_runs SET status = s, updated_at = now WHERE id = r
Write(r, s) ==
    /\ status' = [status EXCEPT ![r] = s]
    /\ stale' = stale \ {r}

Goto(w, step) == pc' = [pc EXCEPT ![w] = step]

Capacity == [max_parallel |-> MaxParallel, cpu |-> Cpu, memory |-> Memory]

ConfigOf(r) == Config[TaskOf[r]]
HasConfig(r) == TaskOf[r] \in Scheduled

\* The resources of the claims of runs.
CPUOf    == [r \in { q \in Run : HasConfig(q) } |-> ConfigOf(r).cpu]
MemoryOf == [r \in { q \in Run : HasConfig(q) } |-> ConfigOf(r).memory]

\* Tasks that Validate lets through on their own.
Fitting == { t \in Scheduled : Fits(Capacity, Config[t]) }

\* Pairs of tasks that scheduler.Next finds in conflict.
Overlapping == { p \in Scheduled \X Scheduled : OwnershipConflict(Config[p[1]].owns, Config[p[2]].owns) }

\* Slip: runs that are being admitted are not counted (GetConcurrentRuns).
RunningRuns == { r \in Run : status[r] = "running" }

\* GetConcurrentAdmissionRuns
AdmissionRuns == { r \in Run : status[r] \in {"admitting", "running"} }

\* Slip: claims of runs that are being admitted are not loaded.
RunningClaimsOnly(r) ==
    { q \in Run : /\ status[q] = "running"
                  /\ TaskOf[q] # TaskOf[r] /\ RepoOf[TaskOf[q]] = RepoOf[TaskOf[r]] }

\* loadRunningClaims: the rows of other tasks of the candidate's repository.
RunningClaims(r) ==
    { q \in AdmissionRuns : TaskOf[q] # TaskOf[r] /\ RepoOf[TaskOf[q]] = RepoOf[TaskOf[r]] }

(* The manifest of the running claims and the candidate is refused by      *)
(* Validate: two running rows of one task, or a task that does not fit.    *)
InvalidManifest(r) ==
    \/ \E p, q \in RunningClaims(r) : p # q /\ TaskOf[p] = TaskOf[q]
    \/ \E q \in RunningClaims(r) \cup {r} : TaskOf[q] \notin Fitting

ClaimConflict(r) ==
    \E q \in RunningClaims(r) : <<TaskOf[r], TaskOf[q]>> \in Overlapping

\* Slips: memory is not looked at; max_parallel is off by one.
ReadyCPU(r) ==
    LET C == RunningClaims(r)
    IN  /\ Cardinality(C) < MaxParallel
        /\ Total(CPUOf, C) + ConfigOf(r).cpu <= Cpu
        /\ ~ClaimConflict(r)

(* scheduler.Next on that manifest, whose only pending entry is the last:  *)
(* the candidate is ready.                                                 *)
Ready(r) ==
    LET C == RunningClaims(r)
    IN  /\ Cardinality(C) < MaxParallel
        /\ Total(CPUOf, C) + ConfigOf(r).cpu <= Cpu
        /\ Total(MemoryOf, C) + ConfigOf(r).memory <= Memory
        /\ ~ClaimConflict(r)

OverConcurrent == MaxConcurrent > 0 /\ Cardinality(AdmissionRuns) > MaxConcurrent

\* Slip: a claim can be taken over before it is stale.
ClaimableAnyTime(r) == status[r] \in {"queued", "admitting"}

Claimable(r) == status[r] = "queued" \/ (status[r] = "admitting" /\ r \in stale)

\* The steps between the claim of a run and the end of its release.
Holding == {"budget", "decide", "granted", "launched", "preempted", "executing",
            "deny", "abort", "release"}

HoldsClaim(w, r) == job[w] = r /\ pc[w] \in Holding

-----------------------------------------------------------------------------
(* The bus.  A message leaves the stream when it is acknowledged.  The     *)
(* subscription acknowledges it when the handler returns, error or not,    *)
(* unless the handler asked for a delayed redelivery (NakWithDelay).       *)

\* Slip: the message is acknowledged when it is received.
DeliverAcknowledged(w, r) ==
    /\ pc[w] = "idle"
    /\ Cardinality({v \in Worker : job[v] = r}) < trig[r]
    /\ job' = [job EXCEPT ![w] = r]
    /\ trig' = [trig EXCEPT ![r] = @ - 1]
    /\ Goto(w, "load")
    /\ UNCHANGED <<status, stale, done, background>>

Deliver(w, r) ==
    /\ pc[w] = "idle"
    /\ Cardinality({v \in Worker : job[v] = r}) < trig[r]
    /\ job' = [job EXCEPT ![w] = r]
    /\ Goto(w, "load")
    /\ UNCHANGED <<status, stale, done, trig, background>>

Redeliver(r) ==
    /\ "redeliver" \in Faults
    /\ trig[r] \in 1..(MaxTriggers[r] - 1)
    /\ trig' = [trig EXCEPT ![r] = @ + 1]
    /\ UNCHANGED <<status, stale, done, pc, job, background>>

Ack(w) ==
    /\ pc[w] = "ack"
    /\ trig' = [trig EXCEPT ![job[w]] = @ - 1]
    /\ job' = [job EXCEPT ![w] = NoRun]
    /\ Goto(w, "idle")
    /\ UNCHANGED <<status, stale, done, background>>

\* Slips: the denial is acknowledged; the run is not put down.
NakAcknowledges(w) ==
    /\ pc[w] = "nak"
    /\ trig' = [trig EXCEPT ![job[w]] = @ - 1]
    /\ job' = [job EXCEPT ![w] = NoRun]
    /\ Goto(w, "idle")
    /\ UNCHANGED <<status, stale, done, background>>

NakKeepsRun(w) ==
    /\ pc[w] = "nak"
    /\ Goto(w, "idle")
    /\ UNCHANGED <<status, stale, done, trig, job, background>>

Nak(w) ==
    /\ pc[w] = "nak"
    /\ job' = [job EXCEPT ![w] = NoRun]
    /\ Goto(w, "idle")
    /\ UNCHANGED <<status, stale, done, trig, background>>

-----------------------------------------------------------------------------
(* AdmitRun.                                                               *)

(* loadCandidate, validatePersistedAdmission and the dependency queries.   *)
LoadOutcome(r) ==
    IF      status[r] \notin {"queued", "admitting"} THEN "ack"
    ELSE IF r \in Blocked THEN "nak"
    ELSE IF HasConfig(r) /\ ~(ConfigOf(r).depends_on \subseteq done) THEN "nak"
    ELSE "claim"

Load(w) ==
    /\ pc[w] = "load"
    /\ Goto(w, LoadOutcome(job[w]))
    /\ UNCHANGED <<status, stale, done, trig, job, background>>

claimRun(w) ==
    /\ pc[w] = "claim"
    /\ IF Claimable(job[w])
       THEN Write(job[w], "admitting") /\ Goto(w, "budget")
       ELSE Goto(w, "nak") /\ UNCHANGED <<status, stale>>
    /\ UNCHANGED <<done, trig, job, background>>

(* CheckRunStart; a task without configuration needs nothing else.         *)
CheckRunStart(w) ==
    /\ pc[w] = "budget"
    /\ \/ /\ OverConcurrent \/ "spend" \in Faults
          /\ Goto(w, "deny")
       \/ /\ ~OverConcurrent
          /\ Goto(w, IF HasConfig(job[w]) THEN "decide" ELSE "granted")
    /\ UNCHANGED <<status, stale, done, trig, job, background>>

DecideOutcome(r) ==
    IF      \E q \in RunningClaims(r) : ~HasConfig(q) THEN "deny"
    ELSE IF InvalidManifest(r) THEN "abort"
    ELSE IF Ready(r) THEN "granted"
    ELSE "deny"

(* loadRunningClaims and scheduler.Next.                                   *)
Decide(w) ==
    /\ pc[w] = "decide"
    /\ Goto(w, DecideOutcome(job[w]))
    /\ UNCHANGED <<status, stale, done, trig, job, background>>

(* Any of the statements above fails.  The error is returned, after the    *)
(* deferred release if the run was claimed.                                *)
DatabaseError(w) ==
    /\ "error" \in Faults
    /\ \/ pc[w] \in {"load", "claim"} /\ Goto(w, "ack")
       \/ pc[w] \in {"budget", "decide"} /\ Goto(w, "abort")
    /\ UNCHANGED <<status, stale, done, trig, job, background>>

(* ReleaseRun, deferred by AdmitRun after a refusal or an error, and called*)
(* by HandleRunTriggered when ExecuteRun has returned.                     *)
ReleaseRun(w) ==
    /\ pc[w] \in {"deny", "abort", "release"}
    /\ IF status[job[w]] = "admitting"
       THEN Write(job[w], "queued")
       ELSE UNCHANGED <<status, stale>>
    /\ Goto(w, IF pc[w] = "deny" THEN "nak" ELSE "ack")
    /\ UNCHANGED <<done, trig, job, background>>

-----------------------------------------------------------------------------
(* ExecuteRun: the built-in runner.                                        *)

(* Runner.Run: it sets the run running whatever its status is.             *)
StartRun(w) ==
    /\ pc[w] = "granted" /\ job[w] \notin External
    /\ Write(job[w], "running")
    /\ Goto(w, "executing")
    /\ UNCHANGED <<done, trig, job, background>>

(* It gives up before that: failRun, or an error that leaves the row alone.*)
(* An external agent whose markStarted fails is cancelled, also when the   *)
(* row was written and only its event was not published.                   *)
StartFails(w) ==
    /\ \/ pc[w] = "granted" /\ job[w] \notin External /\ Write(job[w], "failed")
       \/ /\ "error" \in Faults
          /\ pc[w] \in {"granted", "launched", "preempted"}
          /\ UNCHANGED <<status, stale>>
       \/ /\ "error" \in Faults
          /\ pc[w] \in {"launched", "preempted"}
          /\ Write(job[w], "running")
    /\ Goto(w, "release")
    /\ UNCHANGED <<done, trig, job, background>>

(* updateRunCompletion, failRun and pauseRun: unconditional updates; if one*)
(* fails the row stays as it is.                                           *)
EndRun(w) ==
    /\ pc[w] = "executing"
    /\ \/ \E s \in {"completed", "failed"} : Write(job[w], s)
       \/ job[w] \in Pausable \ External /\ Write(job[w], "paused")
       \/ "error" \in Faults /\ UNCHANGED <<status, stale>>
    /\ Goto(w, "release")
    /\ UNCHANGED <<done, trig, job, background>>

(* The context ends.  The built-in runner writes the failure through the   *)
(* context that has ended, so nothing is written; the supervisor cancels   *)
(* the agent, whose goroutine records the failure later.                   *)
TimeOut(w) ==
    /\ "timeout" \in Faults
    /\ pc[w] = "executing"
    /\ Goto(w, "release")
    /\ background' = [background EXCEPT ![w] = @ \cup ({job[w]} \cap External)]
    /\ UNCHANGED <<status, stale, done, trig, job>>

-----------------------------------------------------------------------------
(* ExecuteExternalRun: the supervisor of an external agent.                *)

(* RunTurn: the agent works before markStarted has run.                    *)
RunTurn(w) ==
    /\ pc[w] = "granted" /\ job[w] \in External
    /\ Goto(w, "launched")
    /\ UNCHANGED <<status, stale, done, trig, job, background>>

markStarted(w) ==
    /\ pc[w] = "launched"
    /\ Write(job[w], "running")
    /\ Goto(w, "executing")
    /\ UNCHANGED <<done, trig, job, background>>

(* The agent asks for an approval: the bridge pauses the run, the stream   *)
(* makes the handler return SuspensionError, and the agent stays alive.    *)
Suspend(w) ==
    /\ pc[w] = "executing" /\ job[w] \in External \cap Pausable
    /\ Write(job[w], "paused")
    /\ background' = [background EXCEPT ![w] = @ \cup {job[w]}]
    /\ Goto(w, "release")
    /\ UNCHANGED <<done, trig, job>>

(* The same before markStarted, which then overwrites the pause.           *)
PauseEarly(w) ==
    /\ pc[w] = "launched" /\ job[w] \in Pausable
    /\ Write(job[w], "paused")
    /\ Goto(w, "preempted")
    /\ UNCHANGED <<done, trig, job, background>>

markStartedLate(w) ==
    /\ pc[w] = "preempted"
    /\ Write(job[w], "running")
    /\ background' = [background EXCEPT ![w] = @ \cup {job[w]}]
    /\ Goto(w, "release")
    /\ UNCHANGED <<done, trig, job>>

(* supervise after the handler has returned.                               *)
Supervise(w, r) ==
    /\ r \in background[w]
    /\ \/ /\ \E s \in {"completed", "failed"} : Write(r, s)
          /\ background' = [background EXCEPT ![w] = @ \ {r}]
       \/ /\ status[r] = "running" /\ r \in Pausable
          /\ Write(r, "paused")
          /\ UNCHANGED background
    /\ UNCHANGED <<done, trig, pc, job>>

\* Slip: the run is queued again although its agent is alive.
DirectResumeQueues(r) ==
    /\ status[r] = "paused"
    /\ \E w \in Worker : r \in background[w]
    /\ Write(r, "queued")
    /\ trig' = [trig EXCEPT ![r] = @ + 1]
    /\ UNCHANGED <<done, pc, job, background>>

(* respondAgentRuntimeApproval: the run is running again, unasked.         *)
DirectResume(r) ==
    /\ status[r] = "paused"
    /\ \E w \in Worker : r \in background[w]
    /\ Write(r, "running")
    /\ UNCHANGED <<done, trig, pc, job, background>>

-----------------------------------------------------------------------------
(* The rest of the system.                                                 *)

(* resumePausedRun.                                                        *)
Resume(r) ==
    /\ status[r] = "paused" /\ r \notin External
    /\ trig[r] < MaxTriggers[r]
    /\ Write(r, "queued")
    /\ trig' = [trig EXCEPT ![r] = @ + 1]
    /\ UNCHANGED <<done, pc, job, background>>

(* CancelAgentRun: nobody tells the executor.                              *)
Cancel(r) ==
    /\ status[r] = "running"
    /\ Write(r, "cancelled")
    /\ UNCHANGED <<done, trig, pc, job, background>>

(* The task's pull request is merged.  Only a task that another one waits  *)
(* for: nothing reads the state of the others.                             *)
FinishTask(r) ==
    /\ \E t \in Scheduled : TaskOf[r] \in Config[t].depends_on
    /\ status[r] = "completed"
    /\ done' = done \cup {TaskOf[r]}
    /\ done' # done
    /\ UNCHANGED <<status, stale, trig, pc, job, background>>

(* Ten minutes pass since a claim was written.                             *)
Expire(r) ==
    /\ status[r] = "admitting" /\ r \notin stale
    /\ (\E w \in Worker : HoldsClaim(w, r)) => "slow" \in Faults
    /\ stale' = stale \cup {r}
    /\ UNCHANGED <<status, done, trig, pc, job, background>>

Crash(w) ==
    /\ "crash" \in Faults
    /\ pc[w] # "idle" \/ background[w] # {}
    /\ Goto(w, "idle")
    /\ job' = [job EXCEPT ![w] = NoRun]
    /\ background' = [background EXCEPT ![w] = {}]
    /\ UNCHANGED <<status, stale, done, trig>>

-----------------------------------------------------------------------------
(* Every run was queued and published once.                                *)
Init ==
    /\ status = [r \in Run |-> "queued"]
    /\ stale = {}
    /\ done = {}
    /\ trig = [r \in Run |-> 1]
    /\ pc = [w \in Worker |-> "idle"]
    /\ job = [w \in Worker |-> NoRun]
    /\ background = [w \in Worker |-> {}]

AdmitStep(w) ==
    \/ Load(w) \/ claimRun(w) \/ CheckRunStart(w) \/ Decide(w) \/ ReleaseRun(w) \/ Ack(w) \/ Nak(w)

ExecuteStep(w) ==
    \/ StartRun(w) \/ StartFails(w) \/ EndRun(w)
    \/ RunTurn(w) \/ markStarted(w) \/ Suspend(w) \/ PauseEarly(w) \/ markStartedLate(w)

RunStep(r) ==
    Redeliver(r) \/ DirectResume(r) \/ Resume(r) \/ Cancel(r) \/ FinishTask(r) \/ Expire(r)

Next ==
    \/ \E w \in Worker : AdmitStep(w) \/ ExecuteStep(w)
    \/ \E w \in Worker : DatabaseError(w) \/ TimeOut(w) \/ Crash(w)
    \/ \E w \in Worker, r \in Run : Deliver(w, r) \/ Supervise(w, r)
    \/ \E r \in Run : RunStep(r)

Spec == Init /\ [][Next]_vars

(* A worker that has a message goes on, a message that was not             *)
(* acknowledged is delivered again, a running agent ends or pauses and     *)
(* time passes.  Nothing makes a human answer or a fault happen.           *)
Fairness ==
    /\ \A w \in Worker : WF_vars(AdmitStep(w)) /\ WF_vars(ExecuteStep(w))
    /\ \A w \in Worker, r \in Run : /\ SF_vars(Deliver(w, r))
                                    /\ WF_vars(status[r] = "running" /\ Supervise(w, r))
    /\ \A r \in Run : WF_vars(Expire(r))

FairSpec == Spec /\ Fairness

-----------------------------------------------------------------------------
(* Properties.                                                             *)

(* Every variable has its type, and a worker holds a run exactly while its *)
(* handler is at work.                                                     *)
TypeOK ==
    /\ status \in [Run -> RunStatuses]
    /\ stale \subseteq Run
    /\ done \subseteq Task
    /\ trig \in [Run -> Int]
    /\ pc \in [Worker -> Steps]
    /\ job \in [Worker -> Run \cup {NoRun}]
    /\ \A w \in Worker : job[w] = NoRun <=> pc[w] = "idle"
    /\ background \in [Worker -> SUBSET Run]

\* Runs that were admitted and have not ended.
Admitted == { r \in Run : \/ status[r] = "running"
                          \/ \E w \in Worker : job[w] = r /\ pc[w] \in {"granted", "launched"} }

(* Two admitted runs of different tasks of one repository own disjoint     *)
(* paths, if both tasks declare what they own (AdmitRun,                   *)
(* scheduler_admission.go:151-203), although every claim is read and       *)
(* written in steps of several workers.                                    *)
OwnershipDisjoint ==
    \A q, r \in Admitted :
        /\ HasConfig(q) /\ HasConfig(r)
        /\ TaskOf[q] # TaskOf[r] /\ RepoOf[TaskOf[q]] = RepoOf[TaskOf[r]]
        => <<TaskOf[q], TaskOf[r]>> \notin Overlapping

\* Runs that have passed the budget and have not ended.
Started == { r \in Run : \/ status[r] = "running"
                         \/ \E w \in Worker : job[w] = r /\ pc[w] \in {"decide", "granted", "launched"} }

(* engine.go:138-141: "the admission count includes the candidate and must *)
(* not exceed the configured maximum.  This makes concurrent admission     *)
(* attempts fail closed."                                                  *)
ConcurrencyBounded == MaxConcurrent > 0 => Cardinality(Started) <= MaxConcurrent

\* Scheduled tasks of a repository with an admitted run.
AdmittedTasks(repo) == { t \in Scheduled : /\ RepoOf[t] = repo
                                           /\ \E r \in Admitted : TaskOf[r] = t }

TaskCPU    == [t \in Scheduled |-> Config[t].cpu]
TaskMemory == [t \in Scheduled |-> Config[t].memory]

(* MaxParallel, Cpu and Memory bound the scheduled tasks of a repository   *)
(* that are admitted: the claims a worker counts may come and go while it  *)
(* decides.  Two runs of one task count once.                              *)
CapacityBounded ==
    \A repo \in { RepoOf[t] : t \in Scheduled } :
        /\ Cardinality(AdmittedTasks(repo)) <= MaxParallel
        /\ Total(TaskCPU, AdmittedTasks(repo)) <= Cpu
        /\ Total(TaskMemory, AdmittedTasks(repo)) <= Memory

(* Duplicate suppression (scheduler_admission.go:142): no run is in the    *)
(* hands of two workers past its claim, whatever is redelivered.           *)
ClaimExclusive ==
    \A v, w \in Worker :
        pc[v] \in Holding /\ pc[w] \in Holding /\ job[v] = job[w] => v = w

(* A claim is never orphaned: a run left admitting, by a crash at any      *)
(* step, still has a message that brings a worker back to it once the      *)
(* claim is stale.                                                         *)
ClaimRecoverable == \A r \in Run : status[r] = "admitting" => trig[r] > 0

(* No run has two agents at work on its workspace, one in a handler and    *)
(* one in the background or one in each of two handlers, whatever is       *)
(* redelivered while the run is suspended (supervisor.go:101-156).         *)
OneAgentPerRun ==
    \A r \in Run :
        Cardinality({w \in Worker : r \in background[w]})
          + Cardinality({w \in Worker : job[w] = r /\ pc[w] \in {"launched", "preempted", "executing"}})
            <= 1

(* No queued run is forgotten: once what it depends on is done, it is      *)
(* started, whatever was denied, put off or redelivered before             *)
(* (HandleRunTriggered's NakWithDelay, run_handlers.go:462-478).           *)
QueuedRunsProceed ==
    \A r \in Run \ Blocked :
        status[r] = "queued" /\ (HasConfig(r) => ConfigOf(r).depends_on \subseteq done)
            ~> status[r] \in {"running", "paused", "completed", "failed", "cancelled"}

=============================================================================
