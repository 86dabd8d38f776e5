------------------------------- MODULE Launch -------------------------------
(***************************************************************************)
(* From a task to its initial run: the API requests that move a task up to *)
(* its approval (GenerateSpec, ApproveSpec, UpdateTask, CancelTask,        *)
(* StartRun) and the worker's HandleTaskApproved, which claims the task,   *)
(* provisions a workspace, commits workspace and run, and publishes the    *)
(* run.  One task: every guard of the code is on the task's own row.       *)
(***************************************************************************)
EXTENDS Integers, Sequences, FiniteSets

CONSTANTS
    Worker,        \* processes subscribed to tasks.*
    Client,        \* API requests that read the task and write it later
    Stale,         \* which of these requests there are: see StaleKinds
    MaxRuns,       \* bound on the runs that are created
    MaxMessages,   \* bound on the unacknowledged tasks.approved messages
    MaxCrashes,    \* bound on the crashes of workers
    MaxSessions,   \* bound on the runtime workspaces at one time
    Faults         \* what may go wrong: see FaultKinds

StaleKinds == {"generate", "update"}

FaultKinds == {"provision",   \* the runtime provider or the transaction refuses
               "database",    \* a single statement fails
               "destroy",     \* the provider does not destroy a workspace
               "publish",     \* a message is lost on its way to the bus
               "redeliver"}   \* JetStream delivers an unacknowledged message again

ASSUME LaunchAssumption ==
    /\ IsFiniteSet(Worker)
    /\ Stale \subseteq StaleKinds /\ Faults \subseteq FaultKinds
    /\ MaxRuns \in Nat /\ MaxMessages \in Nat /\ MaxCrashes \in Nat /\ MaxSessions \in Nat

VARIABLES
    status,      \* tasks.status
    workspace,   \* tasks.workspace_id is set
    runs,        \* the task's initial runs in the order of creation
    trig,        \* runs with a message on runs.triggered
    msgs,        \* tasks.approved messages that nobody acknowledged
    pc,          \* where a worker is in HandleTaskApproved
    sessions,    \* runtime workspaces that were created and not destroyed
    seen,        \* the status an API request has read, "none" between requests
    edited,      \* GenerateSpec or UpdateTask has written the status
    crashes      \* crashes so far

vars == <<status, workspace, runs, trig, msgs, pc, sessions, seen, edited, crashes>>

TaskStatuses == {"backlog", "spec_review", "approved", "running", "reviewing", "pr_created",
                 "deploying", "done", "failed", "cancelled"}

\* The steps of HandleTaskApproved.
Steps == {"idle", "republish", "claim", "provision", "commit", "publish", "cleanup",
          "release", "ack"}

validStatusTransitions ==
    [s \in TaskStatuses |->
        CASE s = "backlog"     -> {"spec_review", "cancelled"}
          [] s = "spec_review" -> {"approved", "backlog", "cancelled"}
          [] s = "approved"    -> {"running", "cancelled"}
          [] s = "running"     -> {"reviewing", "failed", "cancelled"}
          [] s = "reviewing"   -> {"pr_created", "running", "failed", "cancelled"}
          [] s = "pr_created"  -> {"deploying", "done", "running", "cancelled"}
          [] s = "deploying"   -> {"done", "failed", "cancelled"}
          [] s = "done"        -> {}
          [] s = "failed"      -> {"backlog", "running", "cancelled"}
          [] s = "cancelled"   -> {"backlog"}]

-----------------------------------------------------------------------------
(* Helpers.                                                                *)

Goto(w, step) == pc' = [pc EXCEPT ![w] = step]

Queued == { r \in DOMAIN runs : runs[r] = "queued" }

\* A message may get lost only if the bus can fail, a statement only if the database can.
Lost == "publish" \in Faults
StatementFails == "database" \in Faults

Publish(r) == \/ trig' = trig \cup {r}
              \/ Lost /\ trig' = trig

\* INSERT INTO agent_runs, and the number of the new run.
CreateRun == runs' = Append(runs, "queued")
NewRun    == Len(runs) + 1

Claimable == status = "approved" /\ ~workspace
Attachable == status = "running" /\ ~workspace

-----------------------------------------------------------------------------
(* API requests.                                                           *)

(* ApproveSpec: a compare-and-set after the readiness check, then the      *)
(* message.                                                                *)
ApproveSpec ==
    /\ status = "spec_review"
    /\ msgs < MaxMessages
    /\ status' = "approved"
    /\ \/ msgs' = msgs + 1
       \/ Lost /\ msgs' = msgs
    /\ UNCHANGED <<workspace, runs, trig, pc, sessions, seen, edited, crashes>>

(* StartRun: the claim and the run are one transaction; the message follows*)
StartRun ==
    /\ status = "approved"
    /\ Len(runs) < MaxRuns
    /\ status' = "running"
    /\ CreateRun
    /\ Publish(NewRun)
    /\ UNCHANGED <<workspace, msgs, pc, sessions, seen, edited, crashes>>

CancelTask ==
    /\ status \notin {"done", "cancelled"}
    /\ status' = "cancelled"
    /\ UNCHANGED <<workspace, runs, trig, msgs, pc, sessions, seen, edited, crashes>>

(* GenerateSpec and UpdateTask read the status, decide, and write it later.*)
ReadStatus(c) ==
    /\ Stale # {}
    /\ seen[c] = "none"
    /\ seen' = [seen EXCEPT ![c] = status]
    /\ UNCHANGED <<status, workspace, runs, trig, msgs, pc, sessions, edited, crashes>>

GenerateSpec(c) ==
    /\ "generate" \in Stale
    /\ seen[c] \in {"backlog", "failed"}
    /\ status' = "spec_review"
    /\ seen' = [seen EXCEPT ![c] = "none"]
    /\ edited' = TRUE
    /\ UNCHANGED <<workspace, runs, trig, msgs, pc, sessions, crashes>>

UpdateTask(c) ==
    /\ "update" \in Stale
    /\ seen[c] # "none"
    /\ status' \in validStatusTransitions[seen[c]] \cup {seen[c]}
    /\ seen' = [seen EXCEPT ![c] = "none"]
    /\ edited' = TRUE
    /\ UNCHANGED <<workspace, runs, trig, msgs, pc, sessions, crashes>>

\* The request is refused, or changes something else.
RefuseRequest(c) ==
    /\ seen[c] # "none"
    /\ seen' = [seen EXCEPT ![c] = "none"]
    /\ UNCHANGED <<status, workspace, runs, trig, msgs, pc, sessions, edited, crashes>>

(* HandleTaskCreated.                                                      *)
HandleTaskCreated ==
    /\ status = "backlog"
    /\ status' = "spec_review"
    /\ UNCHANGED <<workspace, runs, trig, msgs, pc, sessions, seen, edited, crashes>>

-----------------------------------------------------------------------------
(* HandleTaskApproved.                                                     *)

Deliver(w) ==
    /\ pc[w] = "idle"
    /\ Cardinality({v \in Worker : pc[v] # "idle"}) < msgs
    /\ Goto(w, "republish")
    /\ UNCHANGED <<status, workspace, runs, trig, msgs, sessions, seen, edited, crashes>>

Redeliver ==
    /\ "redeliver" \in Faults
    /\ msgs \in 1..(MaxMessages - 1)
    /\ msgs' = msgs + 1
    /\ UNCHANGED <<status, workspace, runs, trig, pc, sessions, seen, edited, crashes>>

(* publishExistingQueuedRun: the latest initial run that is still queued.  *)
publishExistingQueuedRun(w) ==
    /\ pc[w] = "republish"
    /\ IF Queued # {}
       THEN /\ \E r \in Queued : (\A q \in Queued : q <= r) /\ Publish(r)
            /\ Goto(w, "ack")
       ELSE /\ UNCHANGED trig
            /\ Goto(w, "claim") \/ (StatementFails /\ Goto(w, "ack"))
    /\ UNCHANGED <<status, workspace, runs, msgs, sessions, seen, edited, crashes>>

\* Slip: the claim does not look at the status it replaces.
ClaimAlways(w) ==
    /\ pc[w] = "claim"
    /\ status' = "running"
    /\ Goto(w, "provision")
    /\ UNCHANGED <<workspace, runs, trig, msgs, sessions, seen, edited, crashes>>

claimApprovedTaskForInitialRun(w) ==
    /\ pc[w] = "claim"
    /\ \/ Claimable /\ status' = "running" /\ Goto(w, "provision")
       \/ (~Claimable \/ StatementFails) /\ status' = status /\ Goto(w, "ack")
    /\ UNCHANGED <<workspace, runs, trig, msgs, sessions, seen, edited, crashes>>

provisionWorkspace(w) ==
    /\ pc[w] = "provision"
    /\ \/ sessions < MaxSessions /\ sessions' = sessions + 1 /\ Goto(w, "commit")
       \/ "provision" \in Faults /\ Goto(w, "release") /\ UNCHANGED sessions
    /\ UNCHANGED <<status, workspace, runs, trig, msgs, seen, edited, crashes>>

(* The transaction that attaches the workspace and creates the run.        *)
CommitInitialRun(w) ==
    /\ pc[w] = "commit"
    /\ \/ /\ Attachable
          /\ Len(runs) < MaxRuns
          /\ workspace' = TRUE
          /\ CreateRun
          /\ Goto(w, "publish")
       \/ /\ ~Attachable \/ "provision" \in Faults
          /\ Goto(w, "cleanup")
          /\ UNCHANGED <<workspace, runs>>
    /\ UNCHANGED <<status, trig, msgs, sessions, seen, edited, crashes>>

\* Slip: the session is left behind.
cleanupNothing(w) ==
    /\ pc[w] = "cleanup"
    /\ Goto(w, "release")
    /\ UNCHANGED <<status, workspace, runs, trig, msgs, sessions, seen, edited, crashes>>

cleanupProvisionedWorkspace(w) ==
    /\ pc[w] = "cleanup"
    /\ sessions' = sessions - 1 \/ ("destroy" \in Faults /\ sessions' = sessions)
    /\ Goto(w, "release")
    /\ UNCHANGED <<status, workspace, runs, trig, msgs, seen, edited, crashes>>

\* Slip: the claim is given back whatever became of the task.
releaseAlways(w) ==
    /\ pc[w] = "release"
    /\ status' = "approved"
    /\ Goto(w, "ack")
    /\ UNCHANGED <<workspace, runs, trig, msgs, sessions, seen, edited, crashes>>

(* The deferred releaseInitialRunClaim.                                    *)
releaseInitialRunClaim(w) ==
    /\ pc[w] = "release"
    /\ \/ status' = IF Attachable THEN "approved" ELSE status
       \/ StatementFails /\ status' = status
    /\ Goto(w, "ack")
    /\ UNCHANGED <<workspace, runs, trig, msgs, sessions, seen, edited, crashes>>

\* Slip: nothing is published.
publishNothing(w) ==
    /\ pc[w] = "publish"
    /\ Goto(w, "ack")
    /\ UNCHANGED <<status, workspace, runs, trig, msgs, sessions, seen, edited, crashes>>

publishRunTriggered(w) ==
    /\ pc[w] = "publish"
    /\ Publish(Len(runs))
    /\ Goto(w, "ack")
    /\ UNCHANGED <<status, workspace, runs, msgs, sessions, seen, edited, crashes>>

(* The subscription acknowledges the message when the handler returns, with*)
(* or without an error.                                                    *)
Ack(w) ==
    /\ pc[w] = "ack"
    /\ msgs' = msgs - 1
    /\ Goto(w, "idle")
    /\ UNCHANGED <<status, workspace, runs, trig, sessions, seen, edited, crashes>>

Crash(w) ==
    /\ pc[w] # "idle"
    /\ crashes < MaxCrashes
    /\ crashes' = crashes + 1
    /\ Goto(w, "idle")
    /\ UNCHANGED <<status, workspace, runs, trig, msgs, sessions, seen, edited>>

\* Slip: a status the admission does not know.
TakeRunStarted(r) ==
    /\ r \in trig \cap Queued
    /\ runs' = [runs EXCEPT ![r] = "started"]
    /\ UNCHANGED <<status, workspace, trig, msgs, pc, sessions, seen, edited, crashes>>

(* The run leaves the queue (Admission).                                   *)
TakeRun(r) ==
    /\ r \in trig \cap Queued
    /\ runs' = [runs EXCEPT ![r] = "taken"]
    /\ UNCHANGED <<status, workspace, trig, msgs, pc, sessions, seen, edited, crashes>>

-----------------------------------------------------------------------------
Init ==
    /\ status = "backlog"
    /\ workspace = FALSE
    /\ runs = <<>>
    /\ trig = {}
    /\ msgs = 0
    /\ pc = [w \in Worker |-> "idle"]
    /\ sessions = 0
    /\ seen = [c \in Client |-> "none"]
    /\ edited = FALSE
    /\ crashes = 0

HandleTaskApproved(w) ==
    \/ publishExistingQueuedRun(w) \/ claimApprovedTaskForInitialRun(w) \/ provisionWorkspace(w)
    \/ CommitInitialRun(w) \/ cleanupProvisionedWorkspace(w) \/ releaseInitialRunClaim(w)
    \/ publishRunTriggered(w) \/ Ack(w)

Next ==
    \/ HandleTaskCreated \/ ApproveSpec \/ StartRun \/ CancelTask \/ Redeliver
    \/ \E c \in Client : ReadStatus(c) \/ GenerateSpec(c) \/ UpdateTask(c) \/ RefuseRequest(c)
    \/ \E w \in Worker : Deliver(w) \/ HandleTaskApproved(w) \/ Crash(w)
    \/ \E r \in DOMAIN runs : TakeRun(r)

Spec == Init /\ [][Next]_vars

(* A message that was not acknowledged reaches a worker, a handler goes on *)
(* and a triggered run is taken up.  No human is made to act.              *)
FairSpec ==
    /\ Spec
    /\ \A w \in Worker : SF_vars(Deliver(w)) /\ WF_vars(HandleTaskApproved(w))
    /\ \A r \in 1..MaxRuns : WF_vars(r \in DOMAIN runs /\ TakeRun(r))

-----------------------------------------------------------------------------
(* Properties.                                                             *)

(* Every variable has its type, whichever of the steps of a launch failed. *)
TypeOK ==
    /\ status \in TaskStatuses
    /\ workspace \in BOOLEAN /\ edited \in BOOLEAN
    /\ runs \in Seq({"queued", "taken"})
    /\ trig \subseteq Nat
    /\ msgs \in Int /\ sessions \in Int /\ crashes \in Nat
    /\ pc \in [Worker -> Steps]
    /\ seen \in [Client -> TaskStatuses \cup {"none"}]

(* docs/production-readiness.md:30: the worker "republishes an existing    *)
(* queued run on retry instead of duplicating runs".  However the worker's *)
(* claim, its release, StartRun and redelivered messages interleave, a task*)
(* whose status no request has set by hand gets one initial run.           *)
OneInitialRun == edited \/ Len(runs) <= 1

(* A task that can still be claimed has no initial run: neither StartRun   *)
(* nor a late releaseInitialRunClaim (task_handlers.go:269) leaves a       *)
(* launched task approved.                                                 *)
ApprovedHasNoRun == edited \/ (status = "approved" => runs = <<>>)

(* A cancelled task is never revived by a handler that claimed it before   *)
(* the cancellation (task_handlers.go:129-135, 180-197).                   *)
CancelSticks == [][edited' \/ (status = "cancelled" => status' = "cancelled")]_vars

(* No runtime workspace is left behind by a handler that did not crash:    *)
(* each one is the task's, or a worker is about to attach or destroy it.   *)
NoSessionLeak ==
    crashes = 0 =>
        sessions = (IF workspace THEN 1 ELSE 0)
                   + Cardinality({w \in Worker : pc[w] \in {"commit", "cleanup"}})

(* docs/production-readiness.md:30: "HTTP spec approval publishes          *)
(* tasks.approved; worker tasks.approved handling provisions the workspace,*)
(* creates the queued implementer run, publishes runs.triggered".  An      *)
(* approved task is launched, unless a user takes it back.                 *)
ApprovedIsLaunched ==
    status = "approved" /\ msgs > 0 ~> status = "cancelled" \/ \E r \in DOMAIN runs : runs[r] = "taken"

=============================================================================
