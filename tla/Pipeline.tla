------------------------------ MODULE Pipeline ------------------------------
(***************************************************************************)
(* From a task's first run to its merged pull request: the worker's event  *)
(* handlers (HandleRunCompleted, HandleRunFailed, HandleReviewCompleted,   *)
(* HandleApprovalApproved, HandleApprovalRejected) and the API requests    *)
(* that meet them (RespondApproval, CreatePullRequest, MergePullRequest,   *)
(* RetryRun, CancelTask).  Every subscription handles one message at a     *)
(* time; those of different subjects run side by side, and none looks at   *)
(* the status it writes over, unless an action says so.                    *)
(***************************************************************************)
EXTENDS Integers, Sequences, FiniteSets, FiniteSetsExt

CONSTANTS
    MaxRuns,           \* bound on the runs of the task
    MaxHandoffs,       \* bound on the handoff messages of a run
    MaxApprovals,      \* bound on the task's approvals
    MaxAsks,           \* bound on those that runs ask for on their way
    MaxPulls,          \* bound on its pull requests on GitHub
    Backends,          \* the execution backends a spec may be approved with
    MaxRequests,       \* bound on the API requests between reading and writing, and on trouble
    MaxTrouble         \* bound on crashes of the worker, failed calls, lost and redelivered messages

RunID      == 1..MaxRuns
ApprovalID == 1..MaxApprovals

ASSUME PipelineAssumption ==
    /\ MaxRuns \in Nat \ {0} /\ MaxHandoffs \in Nat /\ MaxApprovals \in Nat /\ MaxAsks \in Nat /\ MaxPulls \in Nat
    /\ MaxRequests \in Nat
    /\ Backends \subseteq {"legacy", "agent_runtime"}
    /\ MaxTrouble \in Nat

VARIABLES
    backend,        \* metadata.execution.backend of the first run, which later runs inherit
    status,         \* tasks.status
    run,            \* agent_runs.status, "none" for a run that was not created
    from,           \* the run whose handoff this run consumed (agent_messages.consumed_by_run_id), 0 for none
    sent,           \* the number of handoff messages of a run
    open,           \* those with consumed_at IS NULL, oldest first: whether the role they name exists
    bus,            \* how often each message waits on its subject
    approval,       \* approvals.response, "pending" before it, "none" before the request
    kind,           \* approvals.approval_type: "pr_create", or "action" for what a run asks on its way
    about,          \* approvals.agent_run_id
    remote,         \* the states of the branch's pull requests on GitHub, by number
    pulls,          \* the pull_requests rows: number and state
    completing,     \* where the agents.run.completed subscription is, and with which run
    approving,      \* where the approval.approved subscription is, and with which approval
    merging,        \* the row a MergePullRequest has read, 0 if none has
    retrying,       \* the run a RetryRun has read, 0 if none has
    creating,       \* where a CreatePullRequest of the API is
    direct,         \* history: how many pull requests the API has created
    silenced,       \* history: the runs whose review was handled while an approval of the task waited
    stopped,        \* history: the runs that a person has cancelled
    faults, redeliveries

vars == <<backend, status, run, from, sent, open, bus, approval, kind, about, remote, pulls, completing, approving,
          merging, retrying, creating, direct, silenced, stopped, faults, redeliveries>>

handoffs  == <<from, sent, open>>
approvals == <<approval, kind, about, silenced>>
github    == <<remote, pulls>>
requests  == <<merging, retrying, creating, direct>>
counters  == <<faults, redeliveries>>

Idle == <<"idle", 0>>

TaskStatuses == {"running", "reviewing", "pr_created", "done", "failed", "cancelled"}

Messages == ({"completed", "failed", "reviewed"} \X RunID) \cup ({"approved", "rejected"} \X ApprovalID)

-----------------------------------------------------------------------------
(* Helpers.                                                                *)

Send(m) == bus' = [bus EXCEPT ![m] = @ + 1]
Ack(m)  == bus' = [bus EXCEPT ![m] = @ - 1]

Fault == faults + redeliveries < MaxTrouble /\ faults' = faults + 1

\* A publish whose error is ignored or only logged.
TryToSend(m) ==
    \/ Send(m) /\ UNCHANGED faults
    \/ Fault /\ UNCHANGED bus

NewRuns      == { r \in RunID : run[r] = "none" }
NewApprovals == { a \in ApprovalID : approval[a] = "none" }

\* Runs are kept back for the handoffs that are open, so that the bound stops no handler.
RunsLeft == NewRuns # {} /\ Cardinality(NewRuns) > MapThenSumSet(LAMBDA r : Len(open[r]), RunID)

\* A handler without intermediate state, which acknowledges or dies before it does.
AckOrCrash(m) ==
    \/ Ack(m) /\ UNCHANGED <<faults, completing, approving>>
    \/ Fault /\ completing' = Idle /\ approving' = Idle /\ UNCHANGED bus

-----------------------------------------------------------------------------
(* Runs: their admission and execution is Admission's concern.             *)

(* Nobody tells the agent of a cancelled run, and an external agent goes   *)
(* on while its run waits for an answer.                                   *)
Executing(r) ==
    \/ run[r] \in {"running", "cancelled"}
    \/ run[r] = "paused" /\ backend = "agent_runtime"

StartRun(r) ==
    /\ run[r] = "queued"
    /\ run' = [run EXCEPT ![r] = "running"]
    /\ UNCHANGED <<status, handoffs, bus, approvals, github, completing, approving, requests, counters>>

(* Only the built-in runner has a mailbox.  Whether the role that the      *)
(* model names exists is not looked at; the message always names its run.  *)
persistAgentMessage(r, roleExists) ==
    /\ Executing(r) /\ backend = "legacy"
    /\ sent[r] < MaxHandoffs /\ RunsLeft
    /\ sent' = [sent EXCEPT ![r] = @ + 1]
    /\ open' = [open EXCEPT ![r] = Append(@, roleExists)]
    /\ UNCHANGED <<status, run, from, bus, approvals, github, completing, approving, requests, counters>>

RequestApproval(type, r) ==
    LET a == Min(NewApprovals)
    IN  /\ NewApprovals # {}
        /\ approval' = [approval EXCEPT ![a] = "pending"]
        /\ kind' = [kind EXCEPT ![a] = type]
        /\ about' = [about EXCEPT ![a] = r]

(* A run stops for a capability or a risky action, or an external agent    *)
(* asks: requestCapabilityApproval, requestModelApproval and the bridge    *)
(* insert an approval and pause the run, whatever its status.              *)
AskApproval(r) ==
    /\ Executing(r)
    /\ Cardinality({ a \in ApprovalID : kind[a] = "action" }) < MaxAsks
    /\ RequestApproval("action", r)
    /\ run' = [run EXCEPT ![r] = "paused"]
    /\ UNCHANGED <<status, handoffs, silenced, bus, github, completing, approving, requests, counters>>

EndRun(r, outcome) ==
    /\ Executing(r)
    /\ run' = [run EXCEPT ![r] = outcome]
    /\ TryToSend(<<outcome, r>>)
    /\ UNCHANGED <<status, handoffs, approvals, github, completing, approving, requests, redeliveries>>

CompleteRun(r) == EndRun(r, "completed")
failRun(r)     == EndRun(r, "failed")

CancelAgentRun(r) ==
    /\ run[r] = "running"
    /\ run' = [run EXCEPT ![r] = "cancelled"]
    /\ UNCHANGED <<status, handoffs, bus, approvals, github, completing, approving, requests, counters>>

-----------------------------------------------------------------------------
(* HandleRunCompleted.                                                     *)

Follow(r) ==
    LET next == Min(NewRuns)
    IN  /\ run' = [run EXCEPT ![next] = "queued"]
        /\ from' = [from EXCEPT ![next] = r]
        /\ status' = "running"
        /\ completing' = <<"ack", r>>

\* The oldest handoff of the run names a role that does not exist.
Misaddressed(r) == open[r] # <<>> /\ ~Head(open[r])

(* The handler ends with an error, which the subscription acknowledges:    *)
(* for such a handoff, or for a statement that fails.                      *)
FollowFails(r) ==
    /\ (Misaddressed(r) /\ UNCHANGED faults) \/ Fault
    /\ completing' = <<"ack", r>>
    /\ UNCHANGED <<status, run, from, open>>

Unfollowed(r) ==
    /\ open[r] = <<>>
    /\ completing' = <<"mark", r>>
    /\ UNCHANGED <<status, run, from, open, faults>>

\* Slip: the handoff is left unconsumed.
scheduleFollowOnRunAgain(r) ==
    /\ completing = Idle /\ bus[<<"completed", r>>] > 0
    /\ \/ open[r] # <<>> /\ Head(open[r]) /\ NewRuns # {} /\ Follow(r) /\ UNCHANGED <<open, faults>>
       \/ FollowFails(r) \/ Unfollowed(r)
    /\ UNCHANGED <<sent, bus, approvals, github, approving, requests, redeliveries>>

(* scheduleFollowOnRun: one transaction creates the next run, consumes the *)
(* run's oldest handoff and sets the task running.                         *)
scheduleFollowOnRun(r) ==
    /\ completing = Idle /\ bus[<<"completed", r>>] > 0
    /\ \/ /\ open[r] # <<>> /\ Head(open[r]) /\ NewRuns # {}
          /\ Follow(r)
          /\ open' = [open EXCEPT ![r] = Tail(@)]
          /\ UNCHANGED faults
       \/ FollowFails(r) \/ Unfollowed(r)
    /\ UNCHANGED <<sent, bus, approvals, github, approving, requests, redeliveries>>

MarkReviewing ==
    /\ completing[1] = "mark"
    /\ status' = "reviewing"
    /\ completing' = <<"review", completing[2]>>
    /\ UNCHANGED <<run, handoffs, bus, approvals, github, approving, requests, counters>>

(* Review and the review.completed event; an error of either ends the      *)
(* handler, whose message the subscription acknowledges all the same.      *)
Review ==
    /\ completing[1] = "review"
    /\ TryToSend(<<"reviewed", completing[2]>>)
    /\ completing' = <<"ack", completing[2]>>
    /\ UNCHANGED <<status, run, handoffs, approvals, github, approving, requests, redeliveries>>

\* Slip: the subscription forgets only half of where it was.
AckCompletedHalf ==
    /\ completing[1] = "ack"
    /\ Ack(<<"completed", completing[2]>>)
    /\ completing' = <<"idle", completing[2]>>
    /\ UNCHANGED <<status, run, handoffs, approvals, github, approving, requests, counters>>

AckCompleted ==
    /\ completing[1] = "ack"
    /\ Ack(<<"completed", completing[2]>>)
    /\ completing' = Idle
    /\ UNCHANGED <<status, run, handoffs, approvals, github, approving, requests, counters>>

(* HandleRunFailed: only the message of an external agent names its task.  *)
HandleRunFailed(r) ==
    /\ bus[<<"failed", r>>] > 0
    /\ status' = IF backend = "agent_runtime" THEN "failed" ELSE status
    /\ AckOrCrash(<<"failed", r>>)
    /\ UNCHANGED <<run, handoffs, approvals, github, requests, redeliveries>>

-----------------------------------------------------------------------------
(* Approval.                                                               *)

\* An approval of the task waits for its answer, whatever it was asked for.
ApprovalPending == \E a \in ApprovalID : approval[a] = "pending"

NoteSilence(r) == silenced' = IF ApprovalPending THEN silenced \cup {r} ELSE silenced

\* Slip: an answered approval counts as pending.
HandleReviewCompletedOnce(r) ==
    /\ bus[<<"reviewed", r>>] > 0
    /\ NoteSilence(r)
    /\ \/ (\E a \in ApprovalID : approval[a] # "none") /\ UNCHANGED <<approval, kind, about>>
       \/ (\A a \in ApprovalID : approval[a] = "none") /\ RequestApproval("pr_create", r)
    /\ AckOrCrash(<<"reviewed", r>>)
    /\ UNCHANGED <<status, run, handoffs, github, requests, redeliveries>>

(* HandleReviewCompleted: one pending approval of a task is enough, of     *)
(* whatever kind.  When they cannot be counted, one more is asked for; an  *)
(* insert that fails ends the handler.                                     *)
HandleReviewCompleted(r) ==
    /\ bus[<<"reviewed", r>>] > 0
    /\ NoteSilence(r)
    /\ \/ ApprovalPending /\ UNCHANGED <<approval, kind, about>> /\ AckOrCrash(<<"reviewed", r>>)
       \/ ~ApprovalPending /\ RequestApproval("pr_create", r) /\ AckOrCrash(<<"reviewed", r>>)
       \/ /\ Fault /\ Ack(<<"reviewed", r>>)
          /\ RequestApproval("pr_create", r) \/ UNCHANGED <<approval, kind, about>>
          /\ UNCHANGED <<completing, approving>>
    /\ UNCHANGED <<status, run, handoffs, github, requests, redeliveries>>

Respond(a, response) ==
    /\ approval' = [approval EXCEPT ![a] = response]
    /\ status' = IF response = "rejected" THEN "failed" ELSE status
    /\ TryToSend(<<response, a>>)
    /\ UNCHANGED <<run, handoffs, kind, about, silenced, github, completing, approving, requests, redeliveries>>

\* Slip: responded_at IS NULL is left out.
RespondApprovalAgain(a, response) ==
    /\ approval[a] # "none" /\ bus[<<response, a>>] < 2
    /\ Respond(a, response)

(* RespondApproval: a compare-and-set on the response; a rejection fails   *)
(* the task at once.                                                       *)
RespondApproval(a, response) ==
    /\ approval[a] = "pending"
    /\ Respond(a, response)

ForAgent(a) == kind[a] = "action" /\ backend = "agent_runtime"

(* respondAgentRuntimeApproval: the answer, whichever it is, goes to the   *)
(* provider; if the turn still wants it, run and task go on.               *)
AnswerAgent(a) ==
    \/ /\ run' = [run EXCEPT ![about[a]] = IF @ = "paused" THEN "running" ELSE @]
       /\ status' = "running"
    \/ UNCHANGED <<run, status>>

(* HandleApprovalRejected: the run the approval is about fails as well,    *)
(* unless an external agent is to be told.                                 *)
HandleApprovalRejected(a) ==
    /\ bus[<<"rejected", a>>] > 0
    /\ \/ ForAgent(a) /\ AnswerAgent(a)
       \/ /\ ~ForAgent(a)
          /\ status' = "failed"
          /\ run' = [run EXCEPT ![about[a]] = IF @ \in {"completed", "paused"} THEN "failed" ELSE @]
    /\ AckOrCrash(<<"rejected", a>>)
    /\ UNCHANGED <<handoffs, approvals, github, requests, redeliveries>>

(* HandleApprovalApproved for what a run asked: resumePausedRun queues it  *)
(* again if it is still paused.                                            *)
ResumeRun(a) ==
    /\ approving = Idle /\ bus[<<"approved", a>>] > 0 /\ kind[a] = "action"
    /\ \/ ForAgent(a) /\ AnswerAgent(a)
       \/ /\ ~ForAgent(a) /\ run[about[a]] = "paused"
          /\ run' = [run EXCEPT ![about[a]] = "queued"]
          /\ status' = "running"
       \/ ~ForAgent(a) /\ run[about[a]] # "paused" /\ UNCHANGED <<run, status>>
    /\ AckOrCrash(<<"approved", a>>)
    /\ UNCHANGED <<handoffs, approvals, github, requests, redeliveries>>

-----------------------------------------------------------------------------
(* HandleApprovalApproved and CreatePullRequest.                           *)

HandleApprovalApproved(a) ==
    /\ approving = Idle /\ bus[<<"approved", a>>] > 0 /\ kind[a] = "pr_create"
    /\ approving' = <<IF status \in {"reviewing", "pr_created"} THEN "create" ELSE "ack", a>>
    /\ UNCHANGED <<status, run, handoffs, bus, approvals, github, completing, requests, counters>>

OpenOnGitHub == { n \in DOMAIN remote : remote[n] = "open" }

loadLatestRun == \E r \in RunID : run[r] = "completed"

\* GitHub refuses a second open pull request of a branch.
createGitHubPR ==
    /\ OpenOnGitHub = {} /\ Len(remote) < MaxPulls
    /\ remote' = Append(remote, "open")

(* Factory.CreatePullRequest: without a completed run there is nothing to  *)
(* propose; the branch is pushed and GitHub asked, either of which may     *)
(* fail.                                                                   *)
OpenPullRequest == loadLatestRun /\ createGitHubPR /\ UNCHANGED faults

Unopened ==
    /\ \/ (~loadLatestRun \/ OpenOnGitHub # {}) /\ UNCHANGED faults
       \/ Fault
    /\ UNCHANGED remote

\* An error is logged; the subscription acknowledges the message.
CreatePullRequest ==
    /\ approving[1] = "create"
    /\ \/ OpenPullRequest /\ approving' = <<"record", approving[2]>>
       \/ Unopened /\ approving' = <<"ack", approving[2]>>
    /\ UNCHANGED <<status, run, handoffs, bus, approvals, pulls, completing, requests, redeliveries>>

\* Slip: the row is not written.
InsertNothing == UNCHANGED pulls

InsertPullRequest == pulls' = Append(pulls, [number |-> Len(remote), state |-> "open"])

createPRRecord ==
    /\ approving[1] = "record"
    /\ \/ InsertPullRequest /\ approving' = <<"status", approving[2]>> /\ UNCHANGED faults
       \/ Fault /\ approving' = <<"ack", approving[2]>> /\ UNCHANGED pulls
    /\ UNCHANGED <<status, run, handoffs, bus, approvals, remote, completing, requests, redeliveries>>

\* Slip: the task's status is left as it was.
MarkNothing ==
    /\ approving[1] = "status"
    /\ approving' = <<"ack", approving[2]>>
    /\ UNCHANGED <<status, run, handoffs, bus, approvals, github, completing, requests, counters>>

MarkPRCreated ==
    /\ approving[1] = "status"
    /\ status' = "pr_created"
    /\ approving' = <<"ack", approving[2]>>
    /\ UNCHANGED <<run, handoffs, bus, approvals, github, completing, requests, counters>>

AckApproved ==
    /\ approving[1] = "ack"
    /\ Ack(<<"approved", approving[2]>>)
    /\ approving' = Idle
    /\ UNCHANGED <<status, run, handoffs, approvals, github, completing, requests, counters>>

-----------------------------------------------------------------------------
(* Requests: each reads first and writes in a later step.                  *)

Accepted ==
    LET inFlight == { q \in 1..3 : <<merging # 0, retrying # 0, creating # "no">>[q] }
    IN  Cardinality(inFlight) + faults + redeliveries < MaxRequests

ReadPullRequest(p) ==
    /\ merging = 0 /\ Accepted
    /\ pulls[p].state # "merged" /\ status = "pr_created"
    /\ merging' = p
    /\ UNCHANGED <<status, run, handoffs, bus, approvals, github, completing, approving, retrying,
                   creating, direct, counters>>

(* MergePullRequest: GitHub merges what is open there; the row and the     *)
(* task follow, unless a statement fails first.                            *)
MergePullRequest ==
    /\ merging # 0
    /\ merging' = 0
    /\ \/ /\ remote[pulls[merging].number] = "open"
          /\ remote' = [remote EXCEPT ![pulls[merging].number] = "merged"]
          /\ \/ /\ pulls' = [pulls EXCEPT ![merging].state = "merged"]
                /\ status' = "done"
                /\ UNCHANGED faults
             \/ Fault /\ UNCHANGED <<pulls, status>>
             \/ /\ Fault
                /\ pulls' = [pulls EXCEPT ![merging].state = "merged"]
                /\ UNCHANGED status
       \/ remote[pulls[merging].number] # "open" /\ UNCHANGED <<status, github, faults>>
    /\ UNCHANGED <<run, handoffs, bus, approvals, completing, approving, retrying, creating, direct, redeliveries>>

ReadFailedRun(r) ==
    /\ retrying = 0 /\ Accepted
    /\ run[r] \in {"failed", "cancelled"}
    /\ status \in {"failed", "reviewing", "pr_created"}
    /\ RunsLeft
    /\ retrying' = r
    /\ UNCHANGED <<status, run, handoffs, bus, approvals, github, completing, approving, merging,
                   creating, direct, counters>>

(* RetryRun: what it read is not looked at again.  An insert that fails    *)
(* ends the request, a task update that fails is only logged.  The bound   *)
(* on runs may have been reached meanwhile.                                *)
RetryRun ==
    /\ retrying # 0
    /\ retrying' = 0
    /\ \/ /\ RunsLeft
          /\ run' = [run EXCEPT ![Min(NewRuns)] = "queued"]
          /\ \/ status' = "running" /\ UNCHANGED faults
             \/ Fault /\ UNCHANGED status
       \/ ((~RunsLeft /\ UNCHANGED faults) \/ Fault) /\ UNCHANGED <<run, status>>
    /\ UNCHANGED <<handoffs, bus, approvals, github, completing, approving, merging, creating, direct, redeliveries>>

(* The API's CreatePullRequest: a person who says approved is not asked    *)
(* for an approval; one who does not is refused only while one of any kind *)
(* is pending.                                                             *)
ReadTaskToPropose(approved) ==
    /\ creating = "no" /\ Accepted
    /\ status \in {"reviewing", "pr_created"}
    /\ approved \/ ~ApprovalPending
    /\ creating' = "create"
    /\ UNCHANGED <<status, run, handoffs, bus, approvals, github, completing, approving, merging, retrying,
                   direct, counters>>

ProposePullRequest ==
    /\ creating = "create"
    /\ \/ OpenPullRequest /\ creating' = "record" /\ direct' = direct + 1
       \/ Unopened /\ creating' = "no" /\ UNCHANGED direct
    /\ UNCHANGED <<status, run, handoffs, bus, approvals, pulls, completing, approving, merging, retrying,
                   redeliveries>>

RecordProposal ==
    /\ creating = "record"
    /\ \/ InsertPullRequest /\ creating' = "status" /\ UNCHANGED faults
       \/ Fault /\ creating' = "no" /\ UNCHANGED pulls
    /\ UNCHANGED <<status, run, handoffs, bus, approvals, remote, completing, approving, merging, retrying,
                   direct, redeliveries>>

MarkProposed ==
    /\ creating = "status"
    /\ status' = "pr_created" /\ creating' = "no"
    /\ UNCHANGED <<run, handoffs, bus, approvals, github, completing, approving, merging, retrying,
                   direct, counters>>

CancelTask ==
    /\ status \notin {"done", "cancelled"}
    /\ status' = "cancelled"
    /\ UNCHANGED <<run, handoffs, bus, approvals, github, completing, approving, requests, counters>>

-----------------------------------------------------------------------------
(* The worker dies; a message is delivered again before it is acknowledged.*)

Crash ==
    /\ completing # Idle \/ approving # Idle
    /\ Fault
    /\ completing' = Idle /\ approving' = Idle
    /\ UNCHANGED <<status, run, handoffs, bus, approvals, github, requests, redeliveries>>

Redeliver ==
    /\ faults + redeliveries < MaxTrouble
    /\ redeliveries' = redeliveries + 1
    /\ \/ completing # Idle /\ Send(<<"completed", completing[2]>>)
       \/ approving # Idle /\ Send(<<"approved", approving[2]>>)
    /\ UNCHANGED <<status, run, handoffs, approvals, github, completing, approving, requests, faults>>

-----------------------------------------------------------------------------
Init ==
    /\ backend \in Backends
    /\ status = "running"
    /\ run = [r \in RunID |-> IF r = 1 THEN "queued" ELSE "none"]
    /\ from = [r \in RunID |-> 0] /\ sent = [r \in RunID |-> 0] /\ open = [r \in RunID |-> <<>>]
    /\ bus = [m \in Messages |-> 0]
    /\ approval = [a \in ApprovalID |-> "none"]
    /\ kind = [a \in ApprovalID |-> "none"] /\ about = [a \in ApprovalID |-> 0]
    /\ silenced = {} /\ stopped = {}
    /\ remote = <<>> /\ pulls = <<>>
    /\ completing = Idle /\ approving = Idle
    /\ merging = 0 /\ retrying = 0 /\ creating = "no" /\ direct = 0
    /\ faults = 0 /\ redeliveries = 0

Agents ==
    \E r \in RunID :
        \/ StartRun(r) \/ AskApproval(r) \/ CompleteRun(r) \/ failRun(r)
        \/ \E roleExists \in BOOLEAN : persistAgentMessage(r, roleExists)

Handlers ==
    \/ \E r \in RunID : scheduleFollowOnRun(r) \/ HandleRunFailed(r) \/ HandleReviewCompleted(r)
    \/ MarkReviewing \/ Review \/ AckCompleted
    \/ \E a \in ApprovalID : HandleApprovalApproved(a) \/ ResumeRun(a) \/ HandleApprovalRejected(a)
    \/ CreatePullRequest \/ createPRRecord \/ MarkPRCreated \/ AckApproved

People ==
    \/ \E a \in ApprovalID, response \in {"approved", "rejected"} : RespondApproval(a, response)
    \/ \E p \in DOMAIN pulls : ReadPullRequest(p)
    \/ \E r \in RunID : ReadFailedRun(r) \/ CancelAgentRun(r)
    \/ \E approved \in BOOLEAN : ReadTaskToPropose(approved)
    \/ ProposePullRequest \/ RecordProposal \/ MarkProposed
    \/ MergePullRequest \/ RetryRun \/ CancelTask

Next ==
    /\ Agents \/ Handlers \/ People \/ Crash \/ Redeliver
    /\ stopped' = stopped \cup { r \in RunID : run'[r] = "cancelled" }
    /\ UNCHANGED backend

Spec == Init /\ [][Next]_vars

-----------------------------------------------------------------------------
(* Properties.                                                             *)

\* Every variable has its type, and every pull request row names one on GitHub.
TypeOK ==
    /\ backend \in Backends
    /\ status \in TaskStatuses
    /\ run \in [RunID -> {"none", "queued", "running", "paused", "completed", "failed", "cancelled"}]
    /\ from \in [RunID -> 0..MaxRuns]
    /\ sent \in [RunID -> 0..MaxHandoffs] /\ open \in [RunID -> Seq(BOOLEAN)]
    /\ bus \in [Messages -> Nat]
    /\ approval \in [ApprovalID -> {"none", "pending", "approved", "rejected"}]
    /\ kind \in [ApprovalID -> {"none", "pr_create", "action"}]
    /\ about \in [ApprovalID -> 0..MaxRuns]
    /\ silenced \subseteq RunID /\ stopped \subseteq RunID
    /\ remote \in Seq({"open", "merged"})
    /\ pulls \in Seq([number : DOMAIN remote, state : {"open", "merged"}])
    /\ completing \in {Idle} \cup ({"mark", "review", "ack"} \X RunID)
    /\ approving \in {Idle} \cup ({"create", "record", "status", "ack"} \X ApprovalID)
    /\ merging \in {0} \cup DOMAIN pulls /\ retrying \in 0..MaxRuns
    /\ creating \in {"no", "create", "record", "status"} /\ direct \in Nat
    /\ faults \in 0..MaxTrouble /\ redeliveries \in 0..MaxTrouble

(* However often agents.run.completed is delivered, and whatever crashes   *)
(* in between, a run is followed by no more runs than it sent handoffs.    *)
HandoffStartsOneRun == \A r \in RunID : Cardinality({ q \in RunID : from[q] = r }) <= sent[r]

(* Unless a statement fails, HandleReviewCompleted never leaves a task     *)
(* with two pull request approvals to answer.                              *)
OnePendingApproval ==
    faults = 0 => Cardinality({ a \in ApprovalID : approval[a] = "pending" /\ kind[a] = "pr_create" }) <= 1

(* Without faults and redelivery an approval of a pull request is good for *)
(* one pull request of the worker, besides those a person asks the API     *)
(* for: what retries, merges and such requests do to the task's status     *)
(* reuses none, and no answer to a run counts as one.                      *)
ApprovalPerPullRequest ==
    faults + redeliveries = 0 =>
        Len(remote) - direct <=
            Cardinality({ a \in ApprovalID : approval[a] = "approved" /\ kind[a] = "pr_create" })

(* Every pull request on GitHub has its row in pull_requests, or the       *)
(* handler is about to write it, unless a call failed.                     *)
RecordedPullRequest ==
    \A n \in DOMAIN remote :
        \/ \E p \in DOMAIN pulls : pulls[p].number = n
        \/ (approving[1] = "record" \/ creating = "record") /\ n = Len(remote)
        \/ faults > 0

\* No message waits, nobody is creating a pull request, and every call so far succeeded.
Settled ==
    /\ \A m \in Messages : bus[m] = 0
    /\ completing = Idle /\ approving = Idle /\ creating = "no"
    /\ faults = 0

(* Once the events are handled, redelivered or not, a completed run has    *)
(* been taken on: by a follow-on run, or by a review that asked for its    *)
(* approval.  Two ways out are the code's: the oldest handoff names a role *)
(* that does not exist, and the handler's error is acknowledged; or some   *)
(* approval of the task waited when the review was handled, and            *)
(* HandleReviewCompleted left it at that.                                  *)
CompletedIsTakenOn ==
    Settled =>
        \A r \in RunID :
            run[r] = "completed" =>
                \/ \E q \in RunID : from[q] = r
                \/ \E a \in ApprovalID : kind[a] = "pr_create" /\ about[a] = r
                \/ Misaddressed(r)
                \/ r \in silenced

(* Once the events are handled, a task in review can leave it: RetryRun    *)
(* has a failed run, or CreatePullRequest a completed one and no pull      *)
(* request in its way on GitHub.  A completion that is delivered again, or *)
(* comes from a run that was cancelled, sends a task back to review under  *)
(* its open pull request: neither approval nor merge gets it out of there, *)
(* so both are excluded.                                                   *)
ReviewHasWayOut ==
    Settled /\ redeliveries = 0 /\ stopped = {} /\ status = "reviewing" =>
        \/ \E r \in RunID : run[r] = "failed"
        \/ loadLatestRun /\ OpenOnGitHub = {}

=============================================================================
