--------------------------- MODULE PipelineProofs ---------------------------
(* Proofs about Pipeline, for every number of runs, handoffs, approvals,   *)
(* pull requests, faults and redeliveries.                                 *)
EXTENDS Pipeline, FiniteSetTheorems, WellFoundedInduction, TLAPS

Followers(r) == { q \in RunID : from[q] = r }

(* What a handler relies on between its steps: the message it will         *)
(* acknowledge is still there and GitHub has answered with a pull request. *)
(* A handoff is open or has started a run, never both.                     *)
(* A pull request that is created and not yet recorded is the newest; it   *)
(* is open, no row names it, and one handler or request is at it.          *)
Recording ==
    /\ approving[1] = "record" \/ creating = "record" =>
          /\ remote # <<>> /\ remote[Len(remote)] = "open"
          /\ \A p \in DOMAIN pulls : pulls[p].number # Len(remote)
    /\ ~(approving[1] = "record" /\ creating = "record")

PipelineInv ==
    /\ TypeOK
    /\ completing # Idle => bus[<<"completed", completing[2]>>] > 0
    /\ approving # Idle => bus[<<"approved", approving[2]>>] > 0
    /\ Recording
    /\ \A r \in RunID : Cardinality(Followers(r)) + Len(open[r]) <= sent[r]

(* Every set of runs is finite, those that followed a run among them.      *)
LEMMA RunsAreFinite ==
  IsFiniteSet(RunID) /\ \A r : IsFiniteSet(Followers(r)) /\ Cardinality(Followers(r)) \in Nat
<1>1. IsFiniteSet(RunID)
  BY PipelineAssumption, FS_Interval DEF RunID
<1>2. \A r : Followers(r) \subseteq RunID
  BY DEF Followers
<1> QED
  BY <1>1, <1>2, FS_Subset, FS_CardinalityType

(* Sequences whose elements may be drawn from a larger set.                *)
LEMMA WiderElements ==
  ASSUME NEW S, NEW T, S \subseteq T, NEW s \in Seq(S) PROVE s \in Seq(T)
OBVIOUS

(* A set that gains one element at most has at most one more.              *)
LEMMA OneMore ==
  ASSUME NEW S, NEW x, IsFiniteSet(S), NEW T, T \subseteq S \cup {x}
  PROVE  Cardinality(T) <= Cardinality(S) + 1
<1>1. Cardinality(S) \in Nat
  BY FS_CardinalityType
<1>2. /\ IsFiniteSet(S \cup {x})
      /\ Cardinality(S \cup {x}) = IF x \in S THEN Cardinality(S) ELSE Cardinality(S) + 1
  BY FS_AddElement
<1>3. IsFiniteSet(T) /\ Cardinality(T) <= Cardinality(S \cup {x})
  BY <1>2, FS_Subset
<1>4. Cardinality(T) \in Nat
  BY <1>3, FS_CardinalityType
<1> QED
  BY <1>1, <1>2, <1>3, <1>4

(* Following a run up adds at most one run to those that followed it, and  *)
(* none to those that followed another.                                    *)
LEMMA FollowAddsOne ==
  ASSUME TypeOK, NEW r \in RunID, Follow(r)
  PROVE  /\ Cardinality(Followers(r)') <= Cardinality(Followers(r)) + 1
         /\ \A q \in RunID : q # r => Cardinality(Followers(q)') <= Cardinality(Followers(q))
<1>1. PICK next : from' = [from EXCEPT ![next] = r]
  BY DEF Follow
<1>2. Followers(r)' \subseteq Followers(r) \cup {next}
  BY <1>1 DEF Followers, TypeOK
<1>3. \A q \in RunID : q # r => Followers(q)' \subseteq Followers(q)
  BY <1>1 DEF Followers, TypeOK
<1>4. Cardinality(Followers(r)') <= Cardinality(Followers(r)) + 1
  BY <1>2, RunsAreFinite, OneMore
<1>5. \A q \in RunID : q # r => Cardinality(Followers(q)') <= Cardinality(Followers(q))
  BY <1>3, RunsAreFinite, FS_Subset
<1> QED
  BY <1>4, <1>5

(* The API's CreatePullRequest.                                            *)
Proposing ==
    \/ \E approved \in BOOLEAN : ReadTaskToPropose(approved)
    \/ ProposePullRequest \/ RecordProposal \/ MarkProposed

RunStatuses == {"none", "queued", "running", "paused", "completed", "failed", "cancelled"}

(* The rows that hold no reference to a sequence.                          *)
Rows ==
    /\ status \in TaskStatuses
    /\ run \in [RunID -> RunStatuses]
    /\ from \in [RunID -> 0..MaxRuns]
    /\ sent \in [RunID -> 0..MaxHandoffs]
    /\ approval \in [ApprovalID -> {"none", "pending", "approved", "rejected"}]
    /\ kind \in [ApprovalID -> {"none", "pr_create", "action"}]
    /\ about \in [ApprovalID -> 0..MaxRuns]
    /\ silenced \subseteq RunID /\ stopped \subseteq RunID
    /\ retrying \in 0..MaxRuns
    /\ creating \in {"no", "create", "record", "status"} /\ direct \in Nat
    /\ faults \in 0..MaxTrouble /\ redeliveries \in 0..MaxTrouble

(* Every step keeps what is known of the rows of runs and approvals.       *)
LEMMA RowsInductive == ASSUME PipelineInv, [Next]_vars PROVE Rows'
<1> USE PipelineAssumption DEF Rows, RunStatuses, handoffs, approvals, github, requests, counters
<1>0. Rows /\ RunID \subseteq 0..MaxRuns
  BY DEF PipelineInv, TypeOK, RunID
<1>s. stopped' \subseteq RunID
  BY <1>0 DEF Next, vars
<1>1. ASSUME NEW r \in RunID, StartRun(r) \/ CompleteRun(r) \/ failRun(r)
             \/ \E roleExists \in BOOLEAN : persistAgentMessage(r, roleExists)
      PROVE  Rows'
  <2>1. run' \in [RunID -> RunStatuses]
    BY <1>0, <1>1 DEF StartRun, persistAgentMessage, CompleteRun, failRun, EndRun
  <2>2. sent' \in [RunID -> 0..MaxHandoffs]
    BY <1>0, <1>1 DEF StartRun, persistAgentMessage, CompleteRun, failRun, EndRun
  <2>3. faults' \in 0..MaxTrouble
    BY <1>0, <1>1 DEF StartRun, persistAgentMessage, CompleteRun, failRun, EndRun, TryToSend, Fault
  <2> QED
    BY <1>0, <1>s, <1>1, <2>1, <2>2, <2>3 DEF StartRun, persistAgentMessage, CompleteRun, failRun, EndRun
<1>q. ASSUME NEW r \in RunID, AskApproval(r) PROVE Rows'
  <2>1. run' \in [RunID -> RunStatuses]
    BY <1>0, <1>q DEF AskApproval
  <2>2. PICK a : /\ approval' = [approval EXCEPT ![a] = "pending"] /\ kind' = [kind EXCEPT ![a] = "action"]
                 /\ about' = [about EXCEPT ![a] = r]
    BY <1>q DEF AskApproval, RequestApproval
  <2>3. approval' \in [ApprovalID -> {"none", "pending", "approved", "rejected"}]
    BY <1>0, <2>2
  <2>4. kind' \in [ApprovalID -> {"none", "pr_create", "action"}] /\ about' \in [ApprovalID -> 0..MaxRuns]
    BY <1>0, <2>2
  <2> QED
    BY <1>0, <1>s, <1>q, <2>1, <2>3, <2>4 DEF AskApproval
<1>2. ASSUME NEW r \in RunID, scheduleFollowOnRun(r) PROVE Rows'
  <2>1. CASE Follow(r) /\ UNCHANGED faults
    <3>1. run' \in [RunID -> RunStatuses] /\ from' \in [RunID -> 0..MaxRuns] /\ status' \in TaskStatuses
      BY <1>0, <2>1 DEF Follow, TaskStatuses
    <3> QED
      BY <1>0, <1>s, <1>2, <2>1, <3>1 DEF scheduleFollowOnRun
  <2>2. CASE FollowFails(r) \/ Unfollowed(r)
    <3>1. faults' \in 0..MaxTrouble
      BY <1>0, <2>2 DEF FollowFails, Unfollowed, Fault
    <3> QED
      BY <1>0, <1>s, <1>2, <2>2, <3>1 DEF scheduleFollowOnRun, FollowFails, Unfollowed
  <2> QED
    BY <1>2, <2>1, <2>2, Zenon DEF scheduleFollowOnRun
<1>3. ASSUME NEW r \in RunID, HandleRunFailed(r) PROVE Rows'
  BY <1>0, <1>s, <1>3 DEF HandleRunFailed, AckOrCrash, Fault, TaskStatuses
<1>4. ASSUME NEW r \in RunID, HandleReviewCompleted(r) PROVE Rows'
  <2>1. silenced' \subseteq RunID /\ faults' \in 0..MaxTrouble
    BY <1>0, <1>s, <1>4 DEF HandleReviewCompleted, NoteSilence, AckOrCrash, Fault
  <2>2. CASE UNCHANGED <<approval, kind, about>>
    BY <1>0, <1>s, <1>4, <2>1, <2>2 DEF HandleReviewCompleted
  <2>3. CASE RequestApproval("pr_create", r)
    BY <1>0, <1>s, <1>4, <2>1, <2>3 DEF HandleReviewCompleted, RequestApproval
  <2> QED
    BY <1>4, <2>2, <2>3, Zenon DEF HandleReviewCompleted
<1>5. CASE MarkReviewing \/ Review \/ AckCompleted
  <2>1. faults' \in 0..MaxTrouble /\ status' \in TaskStatuses
    BY <1>0, <1>5 DEF MarkReviewing, Review, AckCompleted, TryToSend, Fault, TaskStatuses
  <2> QED
    BY <1>0, <1>s, <1>5, <2>1 DEF MarkReviewing, Review, AckCompleted
<1>6. ASSUME NEW a \in ApprovalID, HandleApprovalApproved(a) PROVE Rows'
  BY <1>0, <1>s, <1>6 DEF HandleApprovalApproved
<1>7. ASSUME NEW a \in ApprovalID, HandleApprovalRejected(a) \/ ResumeRun(a) PROVE Rows'
  <2>1. UNCHANGED run \/ \E q, v : /\ run' = [run EXCEPT ![q] = v]
                                   /\ q \in RunID => v \in {run[q], "failed", "running", "queued"}
    BY <1>7 DEF HandleApprovalRejected, ResumeRun, AnswerAgent
  <2>2. run' \in [RunID -> RunStatuses]
    BY <1>0, <2>1
  <2>3. status' \in TaskStatuses
    BY <1>0, <1>s, <1>7 DEF HandleApprovalRejected, ResumeRun, AnswerAgent, TaskStatuses
  <2>4. faults' \in 0..MaxTrouble
    BY <1>0, <1>7 DEF HandleApprovalRejected, ResumeRun, AckOrCrash, Fault
  <2> QED
    BY <1>0, <1>s, <1>7, <2>2, <2>3, <2>4 DEF HandleApprovalRejected, ResumeRun
<1>8. CASE CreatePullRequest \/ createPRRecord \/ MarkPRCreated \/ AckApproved
  <2>1. faults' \in 0..MaxTrouble /\ status' \in TaskStatuses
    BY <1>0, <1>8 DEF CreatePullRequest, OpenPullRequest, Unopened, createPRRecord, MarkPRCreated,
                      AckApproved, Fault, TaskStatuses
  <2> QED
    BY <1>0, <1>s, <1>8, <2>1 DEF CreatePullRequest, createPRRecord, MarkPRCreated, AckApproved
<1>9. ASSUME NEW a \in ApprovalID, NEW response \in {"approved", "rejected"},
             RespondApproval(a, response)
      PROVE  Rows'
  BY <1>0, <1>s, <1>9 DEF RespondApproval, Respond, TryToSend, Fault, TaskStatuses
<1>10. CASE MergePullRequest \/ RetryRun \/ CancelTask \/ \E p \in DOMAIN pulls : ReadPullRequest(p)
  BY <1>0, <1>s, <1>10 DEF MergePullRequest, RetryRun, CancelTask, ReadPullRequest, Fault, TaskStatuses
<1>11. ASSUME NEW r \in RunID, ReadFailedRun(r) \/ CancelAgentRun(r) PROVE Rows'
  <2>1. run' \in [RunID -> RunStatuses] /\ retrying' \in 0..MaxRuns
    BY <1>0, <1>11 DEF ReadFailedRun, CancelAgentRun
  <2> QED
    BY <1>0, <1>s, <1>11, <2>1 DEF ReadFailedRun, CancelAgentRun
<1>12. CASE Crash \/ Redeliver
  <2>1. faults' \in 0..MaxTrouble /\ redeliveries' \in 0..MaxTrouble
    BY <1>0, <1>12 DEF Crash, Redeliver, Fault
  <2> QED
    BY <1>0, <1>s, <1>12, <2>1 DEF Crash, Redeliver
<1>13. CASE Proposing
  <2>1. ASSUME NEW approved \in BOOLEAN, ReadTaskToPropose(approved) PROVE Rows'
    BY <1>0, <1>s, <2>1 DEF ReadTaskToPropose
  <2>2. CASE ProposePullRequest
    <3>1. faults' \in 0..MaxTrouble /\ direct' \in Nat /\ creating' \in {"no", "record"}
      BY <1>0, <2>2 DEF ProposePullRequest, OpenPullRequest, Unopened, Fault
    <3> QED
      BY <1>0, <1>s, <2>2, <3>1 DEF ProposePullRequest
  <2>3. CASE RecordProposal \/ MarkProposed
    <3>1. faults' \in 0..MaxTrouble /\ status' \in TaskStatuses /\ creating' \in {"no", "status"}
      BY <1>0, <2>3 DEF RecordProposal, MarkProposed, Fault, TaskStatuses
    <3> QED
      BY <1>0, <1>s, <2>3, <3>1 DEF RecordProposal, MarkProposed
  <2> QED
    BY <1>13, <2>1, <2>2, <2>3 DEF Proposing
<1>14. CASE UNCHANGED vars
  BY <1>0, <1>s, <1>14 DEF vars
<1> QED
  BY <1>1, <1>q, <1>2, <1>3, <1>4, <1>5, <1>6, <1>7, <1>8, <1>9, <1>10, <1>11, <1>12, <1>13, <1>14
     DEF Next, Agents, Handlers, People, Proposing

(* The bus and the two subscriptions that stop between their steps.        *)
Subscriptions ==
    /\ bus \in [Messages -> Nat]
    /\ completing \in {Idle} \cup ({"mark", "review", "ack"} \X RunID)
    /\ approving \in {Idle} \cup ({"create", "record", "status", "ack"} \X ApprovalID)
    /\ completing # Idle => bus[<<"completed", completing[2]>>] > 0
    /\ approving # Idle => bus[<<"approved", approving[2]>>] > 0

(* What is added to the bus leaves the messages in hand there, and so does *)
(* acknowledging a message of another subject.                             *)
LEMMA SendKeeps ==
  ASSUME Subscriptions, NEW m \in Messages, Send(m),
         completing' \in {completing, Idle}, approving' \in {approving, Idle}
  PROVE  Subscriptions'
BY DEF Subscriptions, Send, Messages, Idle

(* An acknowledgement takes one message and leaves the others.             *)
LEMMA AckTakes ==
  ASSUME Subscriptions, NEW m \in Messages, bus[m] > 0, Ack(m)
  PROVE  bus' \in [Messages -> Nat] /\ \A n \in Messages : n # m => bus'[n] = bus[n]
BY DEF Subscriptions, Ack

(* A handler without intermediate state acknowledges, or dies before it.   *)
Handled(m) ==
    /\ UNCHANGED faults \/ Fault
    /\ \/ Ack(m) /\ UNCHANGED <<completing, approving>>
       \/ Fault /\ completing' = Idle /\ approving' = Idle /\ UNCHANGED bus

(* HandleReviewCompleted does so as well when a statement of its fails.    *)
LEMMA ReviewIsHandled ==
  /\ \A m : AckOrCrash(m) => Handled(m)
  /\ \A r : HandleReviewCompleted(r) => Handled(<<"reviewed", r>>)
BY DEF AckOrCrash, Handled, HandleReviewCompleted

(* Acknowledging or losing a message that neither of the two handlers      *)
(* works on leaves them.                                                   *)
LEMMA AckKeeps ==
  ASSUME Subscriptions, NEW m \in Messages, m[1] # "completed", m[1] = "approved" => approving = Idle,
         bus[m] > 0, Handled(m)
  PROVE  Subscriptions'
BY DEF Subscriptions, Handled, Ack, Messages, Idle

(* Every step keeps the message that a handler works on unacknowledged.    *)
LEMMA SubscriptionsInductive == ASSUME PipelineInv, [Next]_vars PROVE Subscriptions'
<1> USE DEF handoffs, approvals, github, requests, counters
<1>0. Subscriptions
  BY DEF PipelineInv, TypeOK, Subscriptions
<1>m. /\ \A r \in RunID : {<<"completed", r>>, <<"failed", r>>, <<"reviewed", r>>} \subseteq Messages
      /\ \A a \in ApprovalID : {<<"approved", a>>, <<"rejected", a>>} \subseteq Messages
  BY DEF Messages
<1>u. ASSUME UNCHANGED <<bus, completing, approving>> PROVE Subscriptions'
  BY <1>0, <1>u DEF Subscriptions
<1>t. ASSUME NEW m \in Messages, TryToSend(m), UNCHANGED <<completing, approving>> PROVE Subscriptions'
  BY <1>0, <1>t, <1>u, SendKeeps DEF TryToSend
<1>1. ASSUME NEW r \in RunID, \/ StartRun(r) \/ AskApproval(r)
                              \/ \E roleExists \in BOOLEAN : persistAgentMessage(r, roleExists)
      PROVE  Subscriptions'
  BY <1>1, <1>u DEF StartRun, AskApproval, persistAgentMessage
<1>2. ASSUME NEW r \in RunID, CompleteRun(r) \/ failRun(r) PROVE Subscriptions'
  BY <1>2, <1>m, <1>t DEF CompleteRun, failRun, EndRun
<1>3. ASSUME NEW r \in RunID, scheduleFollowOnRun(r) PROVE Subscriptions'
  <2>1. completing' \in {"mark", "ack"} \X {r}
    <3>1. \/ completing' = <<"ack", r>> \/ completing' = <<"mark", r>>
      BY <1>3, Zenon DEF scheduleFollowOnRun, Follow, FollowFails, Unfollowed
    <3> QED
      BY <3>1
  <2> QED
    BY <1>0, <1>3, <2>1 DEF scheduleFollowOnRun, Subscriptions
<1>4. ASSUME NEW r \in RunID, HandleRunFailed(r) \/ HandleReviewCompleted(r) PROVE Subscriptions'
  <2>1. PICK m \in {<<"failed", r>>, <<"reviewed", r>>} : Handled(m) /\ bus[m] > 0
    BY <1>4, ReviewIsHandled DEF HandleRunFailed, HandleReviewCompleted
  <2> QED
    BY <1>0, <1>m, <2>1, AckKeeps
<1>5. CASE MarkReviewing
  BY <1>0, <1>5 DEF MarkReviewing, Subscriptions, Idle
<1>6. CASE Review
  <2>1. completing[2] \in RunID
    BY <1>0, <1>6 DEF Review, Subscriptions, Idle
  <2>2. Subscriptions /\ bus' \in [Messages -> Nat] /\ \A m \in Messages : bus'[m] >= bus[m]
    BY <1>0, <1>6, <1>m, <2>1 DEF Review, Subscriptions, TryToSend, Send, Idle
  <2> QED
    <3>1. completing # Idle /\ completing' = <<"ack", completing[2]>> /\ approving' = approving
      BY <1>6 DEF Review, Idle
    <3>2. approving # Idle => approving[2] \in ApprovalID
      BY <1>0 DEF Subscriptions
    <3>3. bus'[<<"completed", completing[2]>>] > 0
      <4>1. <<"completed", completing[2]>> \in Messages /\ bus[<<"completed", completing[2]>>] > 0
        BY <2>1, <3>1, <1>0, <1>m DEF Subscriptions
      <4> QED
        BY <4>1, <2>2 DEF Subscriptions
    <3>4. ASSUME approving # Idle PROVE bus'[<<"approved", approving[2]>>] > 0
      <4>1. <<"approved", approving[2]>> \in Messages /\ bus[<<"approved", approving[2]>>] > 0
        BY <3>2, <3>4, <1>0, <1>m DEF Subscriptions
      <4> QED
        BY <4>1, <2>2 DEF Subscriptions
    <3> QED
      BY <1>0, <2>1, <2>2, <3>1, <3>3, <3>4 DEF Subscriptions
<1>7. CASE AckCompleted
  <2>1. completing # Idle /\ completing[2] \in RunID
    BY <1>0, <1>7 DEF AckCompleted, Subscriptions, Idle
  <2>2. approving # Idle => approving[2] \in ApprovalID
    BY <1>0 DEF Subscriptions
  <2>3. bus' \in [Messages -> Nat] /\ \A a \in ApprovalID : bus'[<<"approved", a>>] = bus[<<"approved", a>>]
    <3>1. <<"completed", completing[2]>> \in Messages /\ bus[<<"completed", completing[2]>>] > 0
      BY <1>0, <1>m, <2>1 DEF Subscriptions
    <3>2. \A a \in ApprovalID : <<"approved", a>> \in Messages \ {<<"completed", completing[2]>>}
      BY <1>m
    <3> QED
      BY <1>0, <1>7, <3>1, <3>2, AckTakes DEF AckCompleted
  <2> QED
    BY <1>0, <1>7, <2>2, <2>3 DEF AckCompleted, Subscriptions
<1>8. ASSUME NEW a \in ApprovalID, HandleApprovalApproved(a) PROVE Subscriptions'
  BY <1>0, <1>8 DEF HandleApprovalApproved, Subscriptions, Idle
<1>9. ASSUME NEW a \in ApprovalID, HandleApprovalRejected(a) \/ ResumeRun(a) PROVE Subscriptions'
  <2>1. PICK m \in {<<"rejected", a>>, <<"approved", a>>} :
            Handled(m) /\ bus[m] > 0 /\ (m[1] = "approved" => approving = Idle)
    BY <1>9, ReviewIsHandled DEF HandleApprovalRejected, ResumeRun
  <2> QED
    BY <1>0, <1>m, <2>1, AckKeeps
<1>10. CASE CreatePullRequest \/ createPRRecord \/ MarkPRCreated
  <2>1. /\ approving # Idle /\ approving[2] \in ApprovalID
        /\ approving' \in {"record", "status", "ack"} \X {approving[2]}
        /\ UNCHANGED <<bus, completing>>
    BY <1>0, <1>10 DEF CreatePullRequest, createPRRecord, MarkPRCreated, Subscriptions, Idle
  <2> QED
    BY <1>0, <2>1 DEF Subscriptions
<1>11. CASE AckApproved
  <2>1. approving # Idle /\ approving[2] \in ApprovalID
    BY <1>0, <1>11 DEF AckApproved, Subscriptions, Idle
  <2>2. completing # Idle => completing[2] \in RunID
    BY <1>0 DEF Subscriptions
  <2>3. bus' \in [Messages -> Nat] /\ \A r \in RunID : bus'[<<"completed", r>>] = bus[<<"completed", r>>]
    <3>1. <<"approved", approving[2]>> \in Messages /\ bus[<<"approved", approving[2]>>] > 0
      BY <1>0, <1>m, <2>1 DEF Subscriptions
    <3>2. \A r \in RunID : <<"completed", r>> \in Messages \ {<<"approved", approving[2]>>}
      BY <1>m
    <3> QED
      BY <1>0, <1>11, <3>1, <3>2, AckTakes DEF AckApproved
  <2> QED
    BY <1>0, <1>11, <2>2, <2>3 DEF AckApproved, Subscriptions
<1>12. ASSUME NEW a \in ApprovalID, NEW response \in {"approved", "rejected"},
              RespondApproval(a, response)
       PROVE  Subscriptions'
  BY <1>12, <1>m, <1>t DEF RespondApproval, Respond
<1>13. CASE MergePullRequest \/ RetryRun \/ CancelTask \/ \E p \in DOMAIN pulls : ReadPullRequest(p)
  BY <1>13, <1>u DEF MergePullRequest, RetryRun, CancelTask, ReadPullRequest
<1>14. ASSUME NEW r \in RunID, ReadFailedRun(r) \/ CancelAgentRun(r) PROVE Subscriptions'
  BY <1>14, <1>u DEF ReadFailedRun, CancelAgentRun
<1>15. CASE Crash
  BY <1>0, <1>15 DEF Crash, Subscriptions
<1>16. CASE Redeliver
  <2>1. /\ completing # Idle => completing[2] \in RunID
        /\ approving # Idle => approving[2] \in ApprovalID
    BY <1>0 DEF Subscriptions
  <2> QED
    BY <1>0, <1>16, <1>m, <2>1, SendKeeps DEF Redeliver
<1>17. CASE Proposing \/ UNCHANGED vars
  BY <1>17, <1>u DEF vars, Proposing, ReadTaskToPropose, ProposePullRequest, RecordProposal, MarkProposed
<1> QED
  BY <1>1, <1>2, <1>3, <1>4, <1>5, <1>6, <1>7, <1>8, <1>9, <1>10, <1>11, <1>12, <1>13, <1>14, <1>15,
     <1>16, <1>17 DEF Next, Agents, Handlers, People, Proposing

(* The pull requests, on GitHub and in the database.                       *)
PullRows(rows, numbers) == rows \in Seq([number : numbers, state : {"open", "merged"}])

PullRequests ==
    /\ remote \in Seq({"open", "merged"})
    /\ PullRows(pulls, DOMAIN remote)
    /\ merging \in {0} \cup DOMAIN pulls
    /\ Recording

(* A merge leaves the rows the numbers they have.                          *)
LEMMA MergeKeepsNumbers ==
  ASSUME PullRows(pulls, DOMAIN remote), MergePullRequest
  PROVE  DOMAIN pulls' = DOMAIN pulls /\ \A p \in DOMAIN pulls : pulls'[p].number = pulls[p].number
<1> DEFINE T == [number : DOMAIN remote, state : {"open", "merged"}]
<1>1. \A p \in DOMAIN pulls : pulls[p] \in T
  <2>1. pulls \in Seq(T)
    BY DEF PullRows
  <2> HIDE DEF T
  <2> QED
    BY <2>1
<1>2. UNCHANGED pulls \/ pulls' = [pulls EXCEPT ![merging].state = "merged"]
  BY DEF MergePullRequest, github
<1> QED
  BY <1>1, <1>2

(* GitHub opens no second pull request while one waits for its row.        *)
LEMMA NewestIsOpen ==
  ASSUME remote \in Seq({"open", "merged"}), Recording, OpenOnGitHub = {}
  PROVE  approving[1] # "record" /\ creating # "record"
BY DEF Recording, OpenOnGitHub

(* Every step keeps what is known of the pull requests.                    *)
LEMMA PullRequestsInductive == ASSUME PipelineInv, [Next]_vars PROVE PullRequests'
<1> USE DEF handoffs, approvals, github, requests, counters
<1>0. PullRequests
  BY DEF PipelineInv, TypeOK, PullRequests, PullRows
<1>n. \A p \in DOMAIN pulls : pulls[p].number \in DOMAIN remote
  <2> DEFINE T == [number : DOMAIN remote, state : {"open", "merged"}]
  <2>1. pulls \in Seq(T)
    BY <1>0 DEF PullRequests, PullRows
  <2>2. \A p \in DOMAIN pulls : pulls[p] \in T
    <3> HIDE DEF T
    <3> QED
      BY <2>1
  <2> QED
    BY <2>2
<1>u. ASSUME UNCHANGED <<remote, pulls, merging>>, approving' = approving \/ approving'[1] # "record",
             creating' = creating \/ creating' # "record"
      PROVE  PullRequests'
  BY <1>0, <1>u DEF PullRequests, PullRows, Recording
<1>a. ASSUME NEW m, Handled(m), UNCHANGED <<remote, pulls, merging, creating>> PROVE PullRequests'
  BY <1>a, <1>u DEF Handled, Idle
<1>1. ASSUME NEW r \in RunID, \/ StartRun(r) \/ AskApproval(r) \/ CompleteRun(r) \/ failRun(r)
                              \/ \E roleExists \in BOOLEAN : persistAgentMessage(r, roleExists)
      PROVE  PullRequests'
  BY <1>1, <1>u DEF StartRun, AskApproval, persistAgentMessage, CompleteRun, failRun, EndRun
<1>2. ASSUME NEW r \in RunID, scheduleFollowOnRun(r) PROVE PullRequests'
  BY <1>2, <1>u DEF scheduleFollowOnRun
<1>3. ASSUME NEW r \in RunID, HandleRunFailed(r) \/ HandleReviewCompleted(r) PROVE PullRequests'
  BY <1>3, <1>a, ReviewIsHandled DEF HandleRunFailed, HandleReviewCompleted
<1>4. CASE MarkReviewing \/ Review \/ AckCompleted
  BY <1>4, <1>u DEF MarkReviewing, Review, AckCompleted
<1>5. ASSUME NEW a \in ApprovalID, \/ HandleApprovalApproved(a) \/ HandleApprovalRejected(a)
                                   \/ ResumeRun(a)
      PROVE  PullRequests'
  <2>1. CASE HandleApprovalApproved(a)
    BY <2>1, <1>u DEF HandleApprovalApproved
  <2>2. CASE HandleApprovalRejected(a) \/ ResumeRun(a)
    BY <2>2, <1>a, ReviewIsHandled DEF HandleApprovalRejected, ResumeRun
  <2> QED
    BY <1>5, <2>1, <2>2
<1>o. ASSUME OpenPullRequest, UNCHANGED <<pulls, merging>>,
             ~(approving'[1] = "record" /\ creating' = "record")
      PROVE  PullRequests'
  <2>1. /\ remote' \in Seq({"open", "merged"}) /\ DOMAIN remote \subseteq DOMAIN remote'
        /\ remote' # <<>> /\ Len(remote') = Len(remote) + 1 /\ remote'[Len(remote')] = "open"
        /\ Len(remote) \in Nat /\ DOMAIN remote = 1..Len(remote)
    BY <1>0, <1>o DEF PullRequests, OpenPullRequest, createGitHubPR
  <2>2. [number : DOMAIN remote, state : {"open", "merged"}]
          \subseteq [number : DOMAIN remote', state : {"open", "merged"}]
    BY <2>1
  <2>3. PullRows(pulls, DOMAIN remote')
    BY <1>0, <2>2, WiderElements DEF PullRequests, PullRows
  <2>4. \A p \in DOMAIN pulls : pulls[p].number # Len(remote')
    BY <1>n, <2>1
  <2> QED
    BY <1>0, <1>o, <2>1, <2>3, <2>4 DEF PullRequests, Recording
<1>i. ASSUME InsertPullRequest, UNCHANGED <<remote, merging>>, approving[1] = "record" \/ creating = "record",
             approving'[1] # "record", creating' # "record"
      PROVE  PullRequests'
  <2>1. remote # <<>>
    BY <1>0, <1>i DEF PullRequests, Recording
  <2>2. Len(remote) \in DOMAIN remote
    BY <1>0, <2>1 DEF PullRequests
  <2>3. [number |-> Len(remote), state |-> "open"] \in [number : DOMAIN remote, state : {"open", "merged"}]
    BY <2>2
  <2>4. PullRows(pulls', DOMAIN remote) /\ DOMAIN pulls \subseteq DOMAIN pulls'
    <3> DEFINE T == [number : DOMAIN remote, state : {"open", "merged"}]
               e == [number |-> Len(remote), state |-> "open"]
    <3>1. e \in T /\ pulls \in Seq(T) /\ pulls' = Append(pulls, e)
      BY <1>0, <1>i, <2>3 DEF InsertPullRequest, PullRequests, PullRows
    <3> HIDE DEF T, e
    <3>2. pulls' \in Seq(T) /\ DOMAIN pulls \subseteq DOMAIN pulls'
      BY <3>1
    <3> QED
      BY <3>2 DEF T, PullRows
  <2> QED
    BY <1>0, <1>i, <2>4 DEF PullRequests, Recording
<1>6. CASE CreatePullRequest
  <2>1. CASE OpenPullRequest
    <3>1. creating # "record"
      BY <1>0, <2>1, NewestIsOpen DEF PullRequests, OpenPullRequest, createGitHubPR
    <3> QED
      BY <1>6, <2>1, <3>1, <1>o DEF CreatePullRequest
  <2>2. CASE Unopened /\ approving'[1] = "ack"
    BY <1>6, <2>2, <1>u DEF CreatePullRequest, Unopened
  <2> QED
    BY <1>6, <2>1, <2>2 DEF CreatePullRequest
<1>7. CASE createPRRecord
  <2>1. creating # "record"
    BY <1>0, <1>7 DEF createPRRecord, PullRequests, Recording
  <2>2. CASE InsertPullRequest
    BY <1>7, <1>i, <2>1, <2>2 DEF createPRRecord
  <2>3. CASE UNCHANGED pulls
    BY <1>7, <1>u, <2>3 DEF createPRRecord
  <2> QED
    BY <1>7, <2>2, <2>3 DEF createPRRecord
<1>p. CASE Proposing
  <2>1. ASSUME NEW approved \in BOOLEAN, ReadTaskToPropose(approved) PROVE PullRequests'
    BY <2>1, <1>u DEF ReadTaskToPropose
  <2>2. CASE ProposePullRequest
    <3>1. CASE OpenPullRequest
      <4>1. approving[1] # "record"
        BY <1>0, <3>1, NewestIsOpen DEF PullRequests, OpenPullRequest, createGitHubPR
      <4> QED
        BY <2>2, <3>1, <4>1, <1>o DEF ProposePullRequest
    <3>2. CASE Unopened /\ creating' = "no"
      BY <2>2, <3>2, <1>u DEF ProposePullRequest, Unopened
    <3> QED
      BY <2>2, <3>1, <3>2 DEF ProposePullRequest
  <2>3. CASE RecordProposal
    <3>1. approving[1] # "record"
      BY <1>0, <2>3 DEF RecordProposal, PullRequests, Recording
    <3>2. CASE InsertPullRequest
      BY <2>3, <1>i, <3>1, <3>2 DEF RecordProposal
    <3>3. CASE UNCHANGED pulls
      BY <2>3, <1>u, <3>3 DEF RecordProposal
    <3> QED
      BY <2>3, <3>2, <3>3 DEF RecordProposal
  <2>4. CASE MarkProposed
    BY <2>4, <1>u DEF MarkProposed
  <2> QED
    BY <1>p, <2>1, <2>2, <2>3, <2>4 DEF Proposing
<1>8. CASE MarkPRCreated \/ AckApproved
  BY <1>8, <1>u DEF MarkPRCreated, AckApproved, Idle
<1>9. ASSUME NEW a \in ApprovalID, NEW response \in {"approved", "rejected"}, RespondApproval(a, response)
      PROVE  PullRequests'
  BY <1>9, <1>u DEF RespondApproval, Respond
<1>10. ASSUME NEW p \in DOMAIN pulls, ReadPullRequest(p) PROVE PullRequests'
  BY <1>0, <1>10 DEF ReadPullRequest, PullRequests, PullRows, Recording
<1>11. CASE MergePullRequest
  <2>1. /\ remote' \in Seq({"open", "merged"}) /\ DOMAIN remote' = DOMAIN remote
        /\ remote # <<>> => remote' # <<>>
    BY <1>0, <1>11 DEF MergePullRequest, PullRequests
  <2>2. PullRows(pulls', DOMAIN remote)
    <3> DEFINE T == [number : DOMAIN remote, state : {"open", "merged"}]
    <3>1. CASE UNCHANGED pulls
      BY <1>0, <3>1 DEF PullRequests
    <3>2. CASE pulls' = [pulls EXCEPT ![merging].state = "merged"]
      <4>1. merging \in DOMAIN pulls /\ pulls \in Seq(T)
        BY <1>0, <1>11 DEF MergePullRequest, PullRequests, PullRows
      <4>2. [pulls[merging] EXCEPT !.state = "merged"] \in T
        <5>1. pulls[merging] \in T
          <6> HIDE DEF T
          <6> QED
            BY <4>1
        <5> QED
          BY <5>1
      <4>3. PICK e \in T : pulls' = [pulls EXCEPT ![merging] = e]
        BY <3>2, <4>2
      <4> HIDE DEF T
      <4>4. pulls' \in Seq(T)
        BY <4>1, <4>3
      <4> QED
        BY <4>4 DEF T, PullRows
    <3> QED
      BY <1>11, <3>1, <3>2 DEF MergePullRequest
  <2>3. Recording'
    <3>1. Len(remote') = Len(remote) /\ UNCHANGED <<approving, creating>>
      BY <1>0, <1>11 DEF MergePullRequest, PullRequests
    <3>2. DOMAIN pulls' = DOMAIN pulls /\ \A p \in DOMAIN pulls : pulls'[p].number = pulls[p].number
      BY <1>0, <1>11, MergeKeepsNumbers DEF PullRequests
    <3>3. pulls[merging].number # Len(remote) => remote'[Len(remote)] = remote[Len(remote)]
      BY <1>0, <1>11 DEF MergePullRequest, PullRequests
    <3>4. merging \in DOMAIN pulls
      BY <1>0, <1>11 DEF MergePullRequest, PullRequests
    <3> QED
      BY <1>0, <2>1, <3>1, <3>2, <3>3, <3>4 DEF PullRequests, Recording
  <2> QED
    BY <1>0, <1>11, <2>1, <2>2, <2>3 DEF MergePullRequest, PullRequests, PullRows
<1>12. CASE RetryRun \/ CancelTask
  BY <1>12, <1>u DEF RetryRun, CancelTask
<1>13. ASSUME NEW r \in RunID, ReadFailedRun(r) \/ CancelAgentRun(r) PROVE PullRequests'
  BY <1>13, <1>u DEF ReadFailedRun, CancelAgentRun
<1>14. CASE Crash \/ Redeliver
  BY <1>14, <1>u DEF Crash, Redeliver, Idle
<1>15. CASE UNCHANGED vars
  BY <1>15, <1>u DEF vars
<1> QED
  BY <1>1, <1>2, <1>3, <1>4, <1>5, <1>6, <1>7, <1>8, <1>9, <1>10, <1>11, <1>12, <1>13, <1>14, <1>15, <1>p
     DEF Next, Agents, Handlers, People, Proposing

(* The handoffs of a run: open, or taken on by a run of their own.         *)
Handoffs ==
    /\ open \in [RunID -> Seq(BOOLEAN)]
    /\ \A r \in RunID : Cardinality(Followers(r)) + Len(open[r]) <= sent[r]

(* Every step keeps the count of the runs that followed a run.             *)
LEMMA HandoffsInductive == ASSUME PipelineInv, [Next]_vars PROVE Handoffs'
<1> USE DEF handoffs, approvals, github, requests, counters
<1>0. Handoffs /\ TypeOK /\ sent \in [RunID -> 0..MaxHandoffs] /\ MaxHandoffs \in Nat
  BY PipelineAssumption DEF PipelineInv, TypeOK, Handoffs
<1>c. \A r : Cardinality(Followers(r)) \in Nat
  BY RunsAreFinite
<1>u. ASSUME UNCHANGED <<from, sent, open>> PROVE Handoffs'
  BY <1>0, <1>u DEF Handoffs, Followers
<1>1. ASSUME NEW r \in RunID, NEW roleExists \in BOOLEAN, persistAgentMessage(r, roleExists) PROVE Handoffs'
  <2>1. \A q \in RunID : Followers(q)' = Followers(q)
    BY <1>1 DEF persistAgentMessage, Followers
  <2>2. open[r] \in Seq(BOOLEAN)
    BY <1>0 DEF Handoffs
  <2>3. /\ open' = [open EXCEPT ![r] = Append(open[r], roleExists)]
        /\ sent' = [sent EXCEPT ![r] = sent[r] + 1]
    BY <1>1 DEF persistAgentMessage
  <2>4. Append(open[r], roleExists) \in Seq(BOOLEAN) /\ Len(Append(open[r], roleExists)) = Len(open[r]) + 1
    BY <2>2
  <2>5. open' \in [RunID -> Seq(BOOLEAN)]
    BY <1>0, <2>3, <2>4 DEF Handoffs
  <2>6. \A q \in RunID : sent'[q] - Len(open'[q]) = sent[q] - Len(open[q])
                         /\ Len(open'[q]) \in Nat /\ sent'[q] \in Nat /\ Len(open[q]) \in Nat /\ sent[q] \in Nat
    <3>1. \A q \in RunID : Len(open[q]) \in Nat /\ Len(open'[q]) \in Nat /\ sent[q] \in Nat
      BY <1>0, <2>5 DEF Handoffs
    <3>2. open'[r] = Append(open[r], roleExists) /\ sent'[r] = sent[r] + 1
      BY <1>0, <2>3 DEF Handoffs
    <3>3. \A q \in RunID : q # r => open'[q] = open[q] /\ sent'[q] = sent[q]
      BY <1>0, <2>3 DEF Handoffs
    <3>4. Len(open[r]) \in Nat /\ Len(open'[r]) = Len(open[r]) + 1 /\ sent'[r] = sent[r] + 1 /\ sent[r] \in Nat
      BY <2>4, <3>1, <3>2
    <3>5. \A q \in RunID : q # r => Len(open'[q]) = Len(open[q]) /\ sent'[q] = sent[q]
      BY <3>3
    <3> SUFFICES ASSUME NEW q \in RunID
                 PROVE  /\ sent'[q] - Len(open'[q]) = sent[q] - Len(open[q]) /\ Len(open'[q]) \in Nat
                        /\ sent'[q] \in Nat /\ Len(open[q]) \in Nat /\ sent[q] \in Nat
      OBVIOUS
    <3>6. CASE q = r
      BY <3>1, <3>4, <3>6
    <3>7. CASE q # r
      BY <3>1, <3>5, <3>7
    <3> QED
      BY <3>6, <3>7
  <2>7. \A q \in RunID : Cardinality(Followers(q)') + Len(open'[q]) <= sent'[q]
    BY <1>0, <1>c, <2>1, <2>6 DEF Handoffs
  <2> QED
    BY <2>5, <2>7 DEF Handoffs
<1>2. ASSUME NEW r \in RunID, scheduleFollowOnRun(r) PROVE Handoffs'
  <2>1. CASE FollowFails(r) \/ Unfollowed(r)
    BY <1>2, <2>1, <1>u DEF scheduleFollowOnRun, FollowFails, Unfollowed
  <2>2. CASE open[r] # <<>> /\ Follow(r) /\ open' = [open EXCEPT ![r] = Tail(@)]
    <3>1. Follow(r) /\ open' = [open EXCEPT ![r] = Tail(open[r])] /\ sent' = sent
      BY <1>2, <2>2 DEF scheduleFollowOnRun
    <3>2. /\ Cardinality(Followers(r)') <= Cardinality(Followers(r)) + 1
          /\ \A q \in RunID : q # r => Cardinality(Followers(q)') <= Cardinality(Followers(q))
      BY <1>0, <3>1, FollowAddsOne
    <3>3. \A q : Cardinality(Followers(q)') \in Nat
      <4>1. \A q : Followers(q)' \subseteq RunID
        BY DEF Followers
      <4> QED
        BY <4>1, RunsAreFinite, FS_Subset, FS_CardinalityType
    <3>4. Tail(open[r]) \in Seq(BOOLEAN) /\ Len(Tail(open[r])) = Len(open[r]) - 1
      BY <1>0, <2>2 DEF Handoffs
    <3>5. open' \in [RunID -> Seq(BOOLEAN)] /\ open'[r] = Tail(open[r])
          /\ \A q \in RunID : q # r => open'[q] = open[q]
      BY <1>0, <3>1, <3>4 DEF Handoffs
    <3>6. \A q \in RunID : Len(open[q]) \in Nat /\ sent[q] \in Nat
      BY <1>0 DEF Handoffs
    <3>7. \A q \in RunID : Cardinality(Followers(q)') + Len(open'[q]) <= sent'[q]
      BY <1>0, <1>c, <3>1, <3>2, <3>3, <3>4, <3>5, <3>6 DEF Handoffs
    <3> QED
      BY <3>5, <3>7 DEF Handoffs
  <2> QED
    BY <1>2, <2>1, <2>2, Zenon DEF scheduleFollowOnRun
<1>3. ASSUME NEW r \in RunID, \/ StartRun(r) \/ AskApproval(r) \/ CompleteRun(r) \/ failRun(r) \/ HandleRunFailed(r)
                              \/ HandleReviewCompleted(r) \/ ReadFailedRun(r) \/ CancelAgentRun(r)
      PROVE  Handoffs'
  BY <1>3, <1>u DEF StartRun, AskApproval, CompleteRun, failRun, EndRun, HandleRunFailed, HandleReviewCompleted,
     ReadFailedRun, CancelAgentRun
<1>4. CASE \/ MarkReviewing \/ Review \/ AckCompleted \/ CreatePullRequest \/ createPRRecord
           \/ MarkPRCreated \/ AckApproved
  BY <1>4, <1>u DEF MarkReviewing, Review, AckCompleted, CreatePullRequest, createPRRecord,
     MarkPRCreated, AckApproved
<1>5. ASSUME NEW a \in ApprovalID, \/ HandleApprovalApproved(a) \/ HandleApprovalRejected(a)
                                   \/ ResumeRun(a)
      PROVE  Handoffs'
  BY <1>5, <1>u DEF HandleApprovalApproved, HandleApprovalRejected, ResumeRun
<1>6. ASSUME NEW a \in ApprovalID, NEW response \in {"approved", "rejected"}, RespondApproval(a, response)
      PROVE  Handoffs'
  BY <1>6, <1>u DEF RespondApproval, Respond
<1>7. CASE MergePullRequest \/ RetryRun \/ CancelTask \/ \E p \in DOMAIN pulls : ReadPullRequest(p)
  BY <1>7, <1>u DEF MergePullRequest, RetryRun, CancelTask, ReadPullRequest
<1>8. CASE Proposing \/ Crash \/ Redeliver \/ UNCHANGED vars
  BY <1>8, <1>u DEF Proposing, ReadTaskToPropose, ProposePullRequest, RecordProposal,
                    MarkProposed, Crash, Redeliver, vars
<1> QED
  BY <1>1, <1>2, <1>3, <1>4, <1>5, <1>6, <1>7, <1>8 DEF Next, Agents, Handlers, People, Proposing

(* Types, and what the handlers rely on between their steps.               *)
THEOREM PipelineInvariant == Spec => []PipelineInv
<1>1. Init => PipelineInv
  <2> SUFFICES ASSUME Init PROVE PipelineInv
    OBVIOUS
  <2> USE PipelineAssumption
  <2>1. Rows
    BY DEF Init, Rows, RunStatuses, TaskStatuses, RunID, ApprovalID
  <2>2. Subscriptions
    BY DEF Init, Subscriptions
  <2>3. PullRequests
    BY DEF Init, PullRequests, PullRows, Recording, Idle
  <2>4. \A r \in RunID : Followers(r) = {}
    BY DEF Init, Followers, RunID
  <2>5. Handoffs
    <3>1. \A r \in RunID : Cardinality(Followers(r)) = 0
      BY <2>4, FS_EmptySet
    <3>2. \A r \in RunID : Len(open[r]) = 0 /\ sent[r] = 0
      BY DEF Init
    <3>3. open \in [RunID -> Seq(BOOLEAN)]
      BY DEF Init
    <3> QED
      BY <3>1, <3>2, <3>3 DEF Handoffs
  <2>6. backend \in Backends
    BY DEF Init
  <2> QED
    BY <2>1, <2>2, <2>3, <2>5, <2>6
       DEF PipelineInv, TypeOK, Rows, RunStatuses, Subscriptions, PullRequests, PullRows, Handoffs
<1>2. PipelineInv /\ [Next]_vars => PipelineInv'
  <2> SUFFICES ASSUME PipelineInv, [Next]_vars PROVE PipelineInv'
    OBVIOUS
  <2>1. backend' \in Backends
    BY DEF PipelineInv, TypeOK, Next, vars
  <2> QED
    BY <2>1, RowsInductive, SubscriptionsInductive, PullRequestsInductive, HandoffsInductive
       DEF PipelineInv, TypeOK, Rows, RunStatuses, Subscriptions, PullRequests, PullRows, Handoffs
<1> QED
  BY <1>1, <1>2, PTL DEF Spec

(* Every variable has its type in every reachable state.                   *)
THEOREM PipelineTypes == Spec => []TypeOK
<1>1. PipelineInv => TypeOK
  BY DEF PipelineInv
<1> QED
  BY <1>1, PipelineInvariant, PTL

(* scheduleFollowOnRun starts no more runs than the run sent handoffs,     *)
(* however often agents.run.completed is delivered and wherever the worker *)
(* crashes.                                                                *)
THEOREM HandoffsStartOneRun == Spec => []HandoffStartsOneRun
<1>1. PipelineInv => HandoffStartsOneRun
  <2> SUFFICES ASSUME PipelineInv, NEW r \in RunID PROVE Cardinality(Followers(r)) <= sent[r]
    BY DEF HandoffStartsOneRun, Followers
  <2>1. Cardinality(Followers(r)) \in Nat
    BY RunsAreFinite
  <2>2. Len(open[r]) \in Nat /\ sent[r] \in Nat
    BY PipelineAssumption DEF PipelineInv, TypeOK
  <2> QED
    BY <2>1, <2>2 DEF PipelineInv
<1> QED
  BY <1>1, PipelineInvariant, PTL

(* Trouble is only ever added to.                                          *)
LEMMA FaultsGrow ==
  ASSUME TypeOK, [Next]_vars
  PROVE  /\ faults' = 0 => faults = 0
         /\ redeliveries' = 0 => redeliveries = 0
<1>1. faults \in Nat /\ redeliveries \in Nat
  BY PipelineAssumption DEF TypeOK
<1>2. \/ UNCHANGED faults \/ faults' = faults + 1
  BY DEF Next, Agents, Handlers, People, vars, counters, StartRun, persistAgentMessage, AskApproval,
     CompleteRun, failRun, EndRun, TryToSend, Fault, scheduleFollowOnRun, FollowFails, Unfollowed,
     HandleRunFailed, HandleReviewCompleted, AckOrCrash, MarkReviewing, Review, AckCompleted,
     HandleApprovalApproved, ResumeRun, HandleApprovalRejected, CreatePullRequest, OpenPullRequest, Unopened,
     createPRRecord, MarkPRCreated, AckApproved, RespondApproval, Respond, ReadPullRequest, ReadFailedRun,
     CancelAgentRun, ReadTaskToPropose, ProposePullRequest, RecordProposal, MarkProposed, MergePullRequest,
     RetryRun, CancelTask, Crash, Redeliver
<1>3. \/ UNCHANGED redeliveries \/ redeliveries' = redeliveries + 1
  BY DEF Next, Agents, Handlers, People, vars, counters, StartRun, persistAgentMessage, AskApproval,
     CompleteRun, failRun, EndRun, scheduleFollowOnRun, HandleRunFailed, HandleReviewCompleted, MarkReviewing,
     Review, AckCompleted, HandleApprovalApproved, ResumeRun, HandleApprovalRejected, CreatePullRequest,
     createPRRecord, MarkPRCreated, AckApproved, RespondApproval, Respond, ReadPullRequest, ReadFailedRun,
     CancelAgentRun, ReadTaskToPropose, ProposePullRequest, RecordProposal, MarkProposed, MergePullRequest,
     RetryRun, CancelTask, Crash, Redeliver
<1> QED
  BY <1>1, <1>2, <1>3

PendingForPR(a) == approval[a] = "pending" /\ kind[a] = "pr_create"

(* HandleReviewCompleted leaves at most one pr_create approval pending.    *)
SolePending == faults = 0 => \A a, b \in ApprovalID : PendingForPR(a) /\ PendingForPR(b) => a = b

(* For any number of runs, approvals and pull requests: unless a statement *)
(* fails, at most one pull request approval of the task waits for an       *)
(* answer (HandleReviewCompleted), whatever its runs ask besides.          *)
THEOREM ApprovalIsSole == Spec => []OnePendingApproval
<1>1. Init => SolePending
  BY DEF Init, SolePending, PendingForPR
<1>2. TypeOK /\ SolePending /\ [Next]_vars => SolePending'
  <2> SUFFICES ASSUME TypeOK, SolePending, [Next]_vars PROVE SolePending'
    OBVIOUS
  <2> USE DEF handoffs, approvals, github, requests, counters
  <2>0. /\ approval \in [ApprovalID -> {"none", "pending", "approved", "rejected"}]
        /\ kind \in [ApprovalID -> {"none", "pr_create", "action"}]
    BY DEF TypeOK
  <2>f. faults' = 0 => faults = 0
    BY FaultsGrow
  <2>u. ASSUME UNCHANGED <<approval, kind>> PROVE SolePending'
    BY <2>f, <2>u DEF SolePending, PendingForPR
  <2>1. ASSUME NEW r \in RunID, HandleReviewCompleted(r) PROVE SolePending'
    <3>1. CASE UNCHANGED <<approval, kind, about>>
      BY <2>1, <2>u, <3>1 DEF HandleReviewCompleted
    <3>2. CASE ~ApprovalPending /\ RequestApproval("pr_create", r)
      <4>1. PICK x : approval' = [approval EXCEPT ![x] = "pending"]
        BY <3>2 DEF RequestApproval
      <4>2. \A a \in ApprovalID : approval[a] # "pending"
        BY <3>2 DEF ApprovalPending
      <4> QED
        BY <2>0, <4>1, <4>2 DEF SolePending, PendingForPR
    <3>3. CASE Fault
      BY <2>f, <3>3, PipelineAssumption DEF Fault, SolePending, TypeOK
    <3> QED
      BY <2>1, <3>1, <3>2, <3>3 DEF HandleReviewCompleted
  <2>2. ASSUME NEW a \in ApprovalID, NEW response \in {"approved", "rejected"}, RespondApproval(a, response)
        PROVE  SolePending'
    BY <2>0, <2>2, <2>f DEF RespondApproval, Respond, SolePending, PendingForPR
  <2>3. ASSUME NEW r \in RunID, \/ StartRun(r) \/ CompleteRun(r) \/ failRun(r)
                                \/ \E roleExists \in BOOLEAN : persistAgentMessage(r, roleExists)
                                \/ scheduleFollowOnRun(r) \/ HandleRunFailed(r) \/ ReadFailedRun(r)
                                \/ CancelAgentRun(r)
        PROVE  SolePending'
    BY <2>3, <2>u DEF StartRun, persistAgentMessage, CompleteRun, failRun, EndRun, scheduleFollowOnRun,
       HandleRunFailed, ReadFailedRun, CancelAgentRun
  <2>q. ASSUME NEW r \in RunID, AskApproval(r) PROVE SolePending'
    <3>1. PICK x : /\ approval' = [approval EXCEPT ![x] = "pending"] /\ kind' = [kind EXCEPT ![x] = "action"]
      BY <2>q DEF AskApproval, RequestApproval
    <3> QED
      BY <2>0, <2>f, <3>1 DEF SolePending, PendingForPR
  <2>4. CASE \/ MarkReviewing \/ Review \/ AckCompleted \/ CreatePullRequest \/ createPRRecord
             \/ MarkPRCreated \/ AckApproved
    BY <2>4, <2>u DEF MarkReviewing, Review, AckCompleted, CreatePullRequest, createPRRecord,
       MarkPRCreated, AckApproved
  <2>5. ASSUME NEW a \in ApprovalID, HandleApprovalApproved(a) \/ HandleApprovalRejected(a) \/ ResumeRun(a)
        PROVE  SolePending'
    BY <2>5, <2>u DEF HandleApprovalApproved, HandleApprovalRejected, ResumeRun
  <2>6. CASE MergePullRequest \/ RetryRun \/ CancelTask \/ \E p \in DOMAIN pulls : ReadPullRequest(p)
    BY <2>6, <2>u DEF MergePullRequest, RetryRun, CancelTask, ReadPullRequest
  <2>7. CASE Proposing \/ Crash \/ Redeliver \/ UNCHANGED vars
    BY <2>7, <2>u DEF Proposing, ReadTaskToPropose, ProposePullRequest, RecordProposal,
                      MarkProposed, Crash, Redeliver, vars
  <2> QED
    BY <2>1, <2>q, <2>2, <2>3, <2>4, <2>5, <2>6, <2>7 DEF Next, Agents, Handlers, People, Proposing
<1>3. SolePending => OnePendingApproval
  <2> SUFFICES ASSUME SolePending, faults = 0 PROVE Cardinality({ a \in ApprovalID : PendingForPR(a) }) <= 1
    BY DEF OnePendingApproval, PendingForPR
  <2> DEFINE P == { a \in ApprovalID : PendingForPR(a) }
  <2>1. P = {} \/ \E x : P = {x}
    BY DEF SolePending
  <2>2. Cardinality(P) \in {0, 1}
    <3> HIDE DEF P
    <3> QED
      BY <2>1, FS_EmptySet, FS_Singleton
  <2> QED
    BY <2>2
<1> QED
  BY <1>1, <1>2, <1>3, PipelineTypes, PTL DEF Spec

(* A step that keeps the pull requests and their numbers leaves them       *)
(* recorded, if it does not take the handler past its "record" step        *)
(* without a fault.                                                        *)
LEMMA RecordsAreKept ==
  ASSUME TypeOK, RecordedPullRequest,
         Len(remote') = Len(remote), DOMAIN remote' = DOMAIN remote,
         DOMAIN pulls \subseteq DOMAIN pulls',
         \A p \in DOMAIN pulls : pulls'[p].number = pulls[p].number,
         faults' \in Nat, faults' >= faults,
         approving[1] = "record" => approving'[1] = "record" \/ faults' > 0,
         creating = "record" => creating' = "record" \/ faults' > 0
  PROVE  RecordedPullRequest'
<1>0. faults \in Nat
  BY PipelineAssumption DEF TypeOK
<1> SUFFICES ASSUME NEW n \in DOMAIN remote, ~(faults' > 0)
             PROVE  \/ \E p \in DOMAIN pulls' : pulls'[p].number = n
                    \/ (approving'[1] = "record" \/ creating' = "record") /\ n = Len(remote')
  BY DEF RecordedPullRequest
<1>1. faults = 0
  BY <1>0
<1> QED
  BY <1>0, <1>1 DEF RecordedPullRequest

(* The worker leaves no pull request behind that the database does not     *)
(* know of, unless a call failed or it died.                               *)
THEOREM PullRequestsAreRecorded == Spec => []RecordedPullRequest
<1>1. Init => RecordedPullRequest
  BY DEF Init, RecordedPullRequest
<1>2. PipelineInv /\ RecordedPullRequest /\ [Next]_vars => RecordedPullRequest'
  <2> SUFFICES ASSUME PipelineInv, RecordedPullRequest, [Next]_vars PROVE RecordedPullRequest'
    OBVIOUS
  <2> USE DEF handoffs, approvals, github, requests, counters
  <2>0. TypeOK /\ faults \in Nat
    BY PipelineAssumption DEF PipelineInv, TypeOK
  <2>f. Fault => faults' \in Nat /\ faults' > 0 /\ faults' >= faults
    BY <2>0 DEF Fault
  <2>u. ASSUME UNCHANGED <<remote, pulls>>, UNCHANGED faults \/ Fault,
               approving[1] = "record" => UNCHANGED approving \/ Fault,
               creating = "record" => UNCHANGED creating \/ Fault
        PROVE  RecordedPullRequest'
    BY <2>0, <2>f, <2>u, RecordsAreKept
  <2>a. ASSUME NEW m, Handled(m), UNCHANGED <<remote, pulls, creating>> PROVE RecordedPullRequest'
    BY <2>a, <2>u DEF Handled
  <2>1. ASSUME NEW r \in RunID, \/ StartRun(r) \/ AskApproval(r) \/ CompleteRun(r) \/ failRun(r)
                                \/ \E roleExists \in BOOLEAN : persistAgentMessage(r, roleExists)
                                \/ scheduleFollowOnRun(r) \/ ReadFailedRun(r) \/ CancelAgentRun(r)
        PROVE  RecordedPullRequest'
    BY <2>1, <2>u DEF StartRun, AskApproval, persistAgentMessage, CompleteRun, failRun, EndRun, TryToSend,
       scheduleFollowOnRun, FollowFails, Unfollowed, ReadFailedRun, CancelAgentRun
  <2>2. ASSUME NEW r \in RunID, HandleRunFailed(r) \/ HandleReviewCompleted(r) PROVE RecordedPullRequest'
    BY <2>2, <2>a, ReviewIsHandled DEF HandleRunFailed, HandleReviewCompleted
  <2>3. CASE MarkReviewing \/ Review \/ AckCompleted
    BY <2>3, <2>u DEF MarkReviewing, Review, AckCompleted, TryToSend
  <2>4. ASSUME NEW a \in ApprovalID, HandleApprovalApproved(a) PROVE RecordedPullRequest'
    BY <2>4, <2>u DEF HandleApprovalApproved, Idle
  <2>5. ASSUME NEW a \in ApprovalID, HandleApprovalRejected(a) \/ ResumeRun(a) PROVE RecordedPullRequest'
    BY <2>5, <2>a, ReviewIsHandled DEF HandleApprovalRejected, ResumeRun
  <2>o. ASSUME OpenPullRequest, UNCHANGED pulls, approving'[1] = "record" \/ creating' = "record"
        PROVE  RecordedPullRequest'
    <3>1. approving[1] # "record" /\ creating # "record" /\ UNCHANGED faults
      BY <2>0, <2>o, NewestIsOpen DEF OpenPullRequest, createGitHubPR, PipelineInv, TypeOK
    <3>2. DOMAIN remote' = 1..(Len(remote) + 1) /\ Len(remote') = Len(remote) + 1
          /\ Len(remote) \in Nat /\ DOMAIN remote = 1..Len(remote)
      BY <2>0, <2>o DEF OpenPullRequest, createGitHubPR, TypeOK
    <3> QED
      BY <2>o, <3>1, <3>2 DEF RecordedPullRequest
  <2>i. ASSUME InsertPullRequest, UNCHANGED <<remote, faults>> PROVE RecordedPullRequest'
    <3>1. /\ Len(pulls) \in Nat /\ DOMAIN pulls = 1..Len(pulls)
          /\ DOMAIN pulls' = 1..(Len(pulls) + 1)
          /\ \A p \in DOMAIN pulls : pulls'[p] = pulls[p]
          /\ pulls'[Len(pulls) + 1].number = Len(remote)
      <4> DEFINE T == [number : DOMAIN remote, state : {"open", "merged"}]
                 e == [number |-> Len(remote), state |-> "open"]
      <4>1. pulls \in Seq(T) /\ pulls' = Append(pulls, e) /\ e.number = Len(remote)
        BY <2>0, <2>i DEF InsertPullRequest, TypeOK
      <4> HIDE DEF T, e
      <4> QED
        BY <4>1
    <3> SUFFICES ASSUME NEW n \in DOMAIN remote, ~(faults' > 0)
                 PROVE  \E p \in DOMAIN pulls' : pulls'[p].number = n
      BY <2>i DEF RecordedPullRequest
    <3>2. (\E p \in DOMAIN pulls : pulls[p].number = n) \/ n = Len(remote)
      BY <2>i DEF RecordedPullRequest
    <3> QED
      BY <3>1, <3>2
  <2>6. CASE CreatePullRequest
    <3>1. CASE OpenPullRequest /\ approving' = <<"record", approving[2]>>
      BY <2>6, <3>1, <2>o DEF CreatePullRequest
    <3>2. CASE Unopened
      BY <2>6, <3>2, <2>u DEF CreatePullRequest, Unopened
    <3> QED
      BY <2>6, <3>1, <3>2 DEF CreatePullRequest
  <2>7. CASE createPRRecord
    <3>1. CASE Fault /\ UNCHANGED pulls
      BY <2>7, <3>1, <2>u DEF createPRRecord
    <3>2. CASE InsertPullRequest /\ UNCHANGED faults
      BY <2>7, <3>2, <2>i DEF createPRRecord
    <3> QED
      BY <2>7, <3>1, <3>2 DEF createPRRecord
  <2>p. CASE Proposing
    <3>1. ASSUME NEW approved \in BOOLEAN, ReadTaskToPropose(approved) PROVE RecordedPullRequest'
      BY <3>1, <2>u DEF ReadTaskToPropose
    <3>2. CASE ProposePullRequest
      <4>1. CASE OpenPullRequest /\ creating' = "record"
        BY <3>2, <4>1, <2>o DEF ProposePullRequest
      <4>2. CASE Unopened
        BY <3>2, <4>2, <2>u DEF ProposePullRequest, Unopened
      <4> QED
        BY <3>2, <4>1, <4>2 DEF ProposePullRequest
    <3>3. CASE RecordProposal
      <4>1. CASE Fault /\ UNCHANGED pulls
        BY <3>3, <4>1, <2>u DEF RecordProposal
      <4>2. CASE InsertPullRequest /\ UNCHANGED faults
        BY <3>3, <4>2, <2>i DEF RecordProposal
      <4> QED
        BY <3>3, <4>1, <4>2 DEF RecordProposal
    <3>4. CASE MarkProposed
      BY <3>4, <2>u DEF MarkProposed
    <3> QED
      BY <2>p, <3>1, <3>2, <3>3, <3>4 DEF Proposing
  <2>8. CASE MarkPRCreated \/ AckApproved
    BY <2>8, <2>u DEF MarkPRCreated, AckApproved
  <2>9. ASSUME NEW a \in ApprovalID, NEW response \in {"approved", "rejected"}, RespondApproval(a, response)
        PROVE  RecordedPullRequest'
    BY <2>9, <2>u DEF RespondApproval, Respond, TryToSend
  <2>10. CASE MergePullRequest
    <3>1. Len(remote') = Len(remote) /\ DOMAIN remote' = DOMAIN remote
      BY <2>0, <2>10 DEF MergePullRequest, TypeOK
    <3>2. DOMAIN pulls' = DOMAIN pulls /\ \A p \in DOMAIN pulls : pulls'[p].number = pulls[p].number
      BY <2>0, <2>10, MergeKeepsNumbers DEF TypeOK, PullRows
    <3>3. UNCHANGED <<approving, creating>> /\ (UNCHANGED faults \/ Fault)
      BY <2>10 DEF MergePullRequest
    <3> QED
      BY <2>0, <2>f, <3>1, <3>2, <3>3, RecordsAreKept
  <2>11. CASE RetryRun \/ CancelTask \/ \E p \in DOMAIN pulls : ReadPullRequest(p)
    BY <2>11, <2>u DEF RetryRun, CancelTask, ReadPullRequest
  <2>12. CASE Crash \/ Redeliver \/ UNCHANGED vars
    BY <2>12, <2>u DEF Crash, Redeliver, vars
  <2> QED
    BY <2>1, <2>2, <2>3, <2>4, <2>5, <2>6, <2>7, <2>8, <2>9, <2>10, <2>11, <2>12, <2>p
       DEF Next, Agents, Handlers, People, Proposing
<1> QED
  BY <1>1, <1>2, PipelineInvariant, PTL DEF Spec

-----------------------------------------------------------------------------
(* What becomes of a run that is completed, of a task in review and of an  *)
(* approval that was given.                                                *)

(* The least element of a set of naturals is one of them.                  *)
LEMMA LeastIsIn ==
  ASSUME NEW S \in SUBSET Nat, S # {} PROVE Min(S) \in S
<1>1. PICK k \in S : \A n \in S : ~(<<n, k>> \in OpToRel(<, Nat))
  BY NatLessThanWellFounded, WFMin
<1>2. \A a, b \in Nat : <<a, b>> \in OpToRel(<, Nat) <=> a < b
  BY Zenon DEF OpToRel
<1>3. \A n \in S : k <= n
  <2> SUFFICES ASSUME NEW n \in S PROVE k <= n
    OBVIOUS
  <2>1. ~(n < k)
    BY <1>1, <1>2, Zenon
  <2> QED
    BY <2>1
<1> QED
  BY <1>3 DEF Min

(* The next run, and the next approval, is one that was not used.          *)
LEMMA NextIsNew ==
  /\ NewRuns # {} => Min(NewRuns) \in NewRuns
  /\ NewApprovals # {} => Min(NewApprovals) \in NewApprovals
<1>1. NewRuns \in SUBSET Nat /\ NewApprovals \in SUBSET Nat
  BY PipelineAssumption DEF NewRuns, NewApprovals, RunID, ApprovalID
<1> QED
  BY <1>1, LeastIsIn

(* Messages by their subjects.                                             *)
LEMMA Subjects ==
  /\ \A r \in RunID : {<<"completed", r>>, <<"failed", r>>, <<"reviewed", r>>} \subseteq Messages
  /\ \A a \in ApprovalID : {<<"approved", a>>, <<"rejected", a>>} \subseteq Messages
BY DEF Messages

(* What is sent or acknowledged once changes the count of that message.    *)
LEMMA Counts ==
  ASSUME TypeOK, NEW m \in Messages
  PROVE  /\ Send(m) => \A n \in Messages : bus'[n] = IF n = m THEN bus[n] + 1 ELSE bus[n]
         /\ Ack(m)  => \A n \in Messages : bus'[n] = IF n = m THEN bus[n] - 1 ELSE bus[n]
BY DEF TypeOK, Send, Ack

(* An approval that is asked for is a new one.                             *)
LEMMA Requested ==
  ASSUME TypeOK, NEW type, NEW r, RequestApproval(type, r)
  PROVE  \E n \in ApprovalID :
             /\ approval[n] = "none" /\ kind'[n] = type /\ about'[n] = r
             /\ \A a \in ApprovalID : /\ approval'[a] = IF a = n THEN "pending" ELSE approval[a]
                                      /\ a # n => kind'[a] = kind[a] /\ about'[a] = about[a]
<1>1. PICK n \in ApprovalID : /\ approval[n] = "none" /\ approval' = [approval EXCEPT ![n] = "pending"]
                              /\ kind' = [kind EXCEPT ![n] = type] /\ about' = [about EXCEPT ![n] = r]
  BY NextIsNew DEF RequestApproval, NewApprovals
<1>2. /\ DOMAIN approval = ApprovalID /\ DOMAIN kind = ApprovalID /\ DOMAIN about = ApprovalID
      /\ approval = [a \in ApprovalID |-> approval[a]] /\ kind = [a \in ApprovalID |-> kind[a]]
      /\ about = [a \in ApprovalID |-> about[a]]
  BY DEF TypeOK
<1>3. \A a \in ApprovalID : approval'[a] = IF a = n THEN "pending" ELSE approval[a]
  BY <1>1, <1>2
<1>4. kind'[n] = type /\ \A a \in ApprovalID : a # n => kind'[a] = kind[a]
  BY <1>1, <1>2
<1>5. about'[n] = r /\ \A a \in ApprovalID : a # n => about'[a] = about[a]
  BY <1>1, <1>2
<1> QED
  BY <1>1, <1>3, <1>4, <1>5

(* What the answer to an approval does to the runs: the run that asked     *)
(* goes on or fails, and a completed one may fail.                         *)
LEMMA Answered ==
  ASSUME TypeOK, NEW a \in ApprovalID
  PROVE  /\ HandleApprovalRejected(a) =>
                \A q \in RunID : \/ run'[q] = run[q]
                                 \/ run[q] = "completed" /\ run'[q] = "failed"
                                 \/ run[q] = "paused" /\ run'[q] \in {"running", "failed"}
         /\ ResumeRun(a) => \A q \in RunID : \/ run'[q] = run[q]
                                             \/ run[q] = "paused" /\ run'[q] \in {"running", "queued"}
<1>1. /\ run = [q \in RunID |-> run[q]] /\ DOMAIN run = RunID
  BY DEF TypeOK
<1>2. ASSUME run' = [run EXCEPT ![about[a]] = IF @ = "paused" THEN "running" ELSE @]
      PROVE  \A q \in RunID : run'[q] = run[q] \/ (run[q] = "paused" /\ run'[q] = "running")
  BY <1>1, <1>2
<1>3. ASSUME run' = [run EXCEPT ![about[a]] = IF @ \in {"completed", "paused"} THEN "failed" ELSE @]
      PROVE  \A q \in RunID : run'[q] = run[q] \/ (run[q] \in {"completed", "paused"} /\ run'[q] = "failed")
  BY <1>1, <1>3
<1>4. ASSUME run[about[a]] = "paused", run' = [run EXCEPT ![about[a]] = "queued"]
      PROVE  \A q \in RunID : run'[q] = run[q] \/ (run[q] = "paused" /\ run'[q] = "queued")
  BY <1>1, <1>4
<1>5. ASSUME HandleApprovalRejected(a)
      PROVE  \A q \in RunID : \/ run'[q] = run[q]
                              \/ run[q] = "completed" /\ run'[q] = "failed"
                              \/ run[q] = "paused" /\ run'[q] \in {"running", "failed"}
  <2>1. CASE AnswerAgent(a)
    BY <2>1, <1>2 DEF AnswerAgent
  <2>2. CASE run' = [run EXCEPT ![about[a]] = IF @ \in {"completed", "paused"} THEN "failed" ELSE @]
    BY <2>2, <1>3
  <2> QED
    BY <1>5, <2>1, <2>2, Zenon DEF HandleApprovalRejected
<1>6. ASSUME ResumeRun(a)
      PROVE  \A q \in RunID : \/ run'[q] = run[q]
                              \/ run[q] = "paused" /\ run'[q] \in {"running", "queued"}
  <2>1. CASE AnswerAgent(a)
    BY <2>1, <1>2 DEF AnswerAgent
  <2>2. CASE run[about[a]] = "paused" /\ run' = [run EXCEPT ![about[a]] = "queued"]
    BY <2>2, <1>4
  <2>3. CASE UNCHANGED <<run, status>>
    BY <2>3
  <2> QED
    BY <1>6, <2>1, <2>2, <2>3, Zenon DEF ResumeRun
<1> QED
  BY <1>5, <1>6

(* Runs that were not created follow none; a completed message is about a  *)
(* run that ended, an approved one about an approval that was given; an    *)
(* approval has its kind from the start.                                   *)
Meaning ==
    /\ \A q \in RunID : run[q] = "none" => from[q] = 0
    /\ \A r \in RunID : bus[<<"completed", r>>] > 0 => run[r] \in {"completed", "failed"}
    /\ \A a \in ApprovalID : bus[<<"approved", a>>] > 0 => approval[a] = "approved"
    /\ \A a \in ApprovalID : approval[a] = "none" => kind[a] = "none"

(* What no step takes back.                                                *)
Lasting ==
    /\ faults \in Nat /\ faults' \in Nat /\ faults' >= faults
    /\ \A q \in RunID : from[q] # 0 => from'[q] = from[q]
    /\ \A r \in RunID : /\ run[r] \in {"completed", "failed"} => run'[r] \in {"completed", "failed"}
                        /\ run[r] = "failed" => run'[r] = "failed"
    /\ \A a \in ApprovalID : approval[a] \notin {"none", "pending"} => approval'[a] = approval[a]
    /\ \A a \in ApprovalID : kind[a] # "none" => kind'[a] = kind[a] /\ about'[a] = about[a]
    /\ silenced \subseteq silenced'

(* Every step keeps the meaning of the messages, and takes nothing back.   *)
LEMMA MeaningStep == PipelineInv /\ Meaning /\ [Next]_vars => Meaning' /\ Lasting
<1> SUFFICES ASSUME PipelineInv, Meaning, [Next]_vars PROVE Meaning' /\ Lasting
  OBVIOUS
<1> USE DEF handoffs, approvals, github, requests, counters
<1>z. 0 \notin RunID
  BY PipelineAssumption DEF RunID
<1>n. TypeOK /\ faults \in Nat
  BY PipelineAssumption DEF PipelineInv, TypeOK
<1>t. /\ TypeOK /\ faults \in Nat /\ 0 \notin RunID
      /\ run \in [RunID -> {"none", "queued", "running", "paused", "completed", "failed", "cancelled"}]
      /\ from \in [RunID -> 0..MaxRuns] /\ bus \in [Messages -> Nat]
      /\ approval \in [ApprovalID -> {"none", "pending", "approved", "rejected"}]
      /\ kind \in [ApprovalID -> {"none", "pr_create", "action"}] /\ about \in [ApprovalID -> 0..MaxRuns]
  BY <1>z, <1>n DEF TypeOK
<1>f. Fault => faults' \in Nat /\ faults' >= faults
  BY <1>t DEF Fault
<1>s. \A m \in Messages : TryToSend(m) =>
         /\ UNCHANGED faults \/ Fault
         /\ \A n \in Messages : bus'[n] = bus[n] \/ (n = m /\ bus'[n] = bus[n] + 1)
  BY <1>t, Counts DEF TryToSend
<1>a. \A m \in Messages : Handled(m) =>
         /\ UNCHANGED faults \/ Fault
         /\ \A n \in Messages : bus'[n] = bus[n] \/ (n = m /\ bus'[n] = bus[n] - 1)
  BY <1>t, Counts DEF Handled
<1>l. ASSUME UNCHANGED <<run, from, approval, kind, about>>, UNCHANGED faults \/ Fault, silenced \subseteq silenced',
             \A r \in RunID : bus'[<<"completed", r>>] > 0 => bus[<<"completed", r>>] > 0,
             \A a \in ApprovalID : bus'[<<"approved", a>>] > 0 => bus[<<"approved", a>>] > 0
      PROVE  Meaning' /\ Lasting
  BY <1>l, <1>t, <1>f DEF Meaning, Lasting
<1>c. UNCHANGED bus => /\ \A r \in RunID : bus'[<<"completed", r>>] > 0 => bus[<<"completed", r>>] > 0
                       /\ \A a \in ApprovalID : bus'[<<"approved", a>>] > 0 => bus[<<"approved", a>>] > 0
  OBVIOUS
<1>1. ASSUME NEW r \in RunID, StartRun(r) \/ CancelAgentRun(r) PROVE Meaning' /\ Lasting
  <2>1. /\ run[r] \in {"queued", "running"} /\ UNCHANGED <<from, bus, approval, kind, about, silenced, faults>>
        /\ \E v \in {"running", "cancelled"} : run' = [run EXCEPT ![r] = v]
    BY <1>1 DEF StartRun, CancelAgentRun
  <2>2. \A q \in RunID : run'[q] = run[q] \/ (q = r /\ run'[q] \in {"running", "cancelled"})
    BY <2>1, <1>t
  <2> QED
    BY <2>1, <2>2, <1>t DEF Meaning, Lasting
<1>2. ASSUME NEW r \in RunID, \/ ReadFailedRun(r)
                              \/ \E roleExists \in BOOLEAN : persistAgentMessage(r, roleExists)
      PROVE  Meaning' /\ Lasting
  BY <1>2, <1>l, <1>c DEF persistAgentMessage, ReadFailedRun
<1>q. ASSUME NEW r \in RunID, AskApproval(r) PROVE Meaning' /\ Lasting
  <2>1. /\ run[r] \in {"running", "cancelled", "paused"} /\ run' = [run EXCEPT ![r] = "paused"]
        /\ UNCHANGED <<from, silenced, bus, faults>> /\ RequestApproval("action", r)
    BY <1>q DEF AskApproval, Executing
  <2>2. PICK n \in ApprovalID :
             /\ approval[n] = "none" /\ kind'[n] = "action" /\ about'[n] = r
             /\ \A a \in ApprovalID : /\ approval'[a] = IF a = n THEN "pending" ELSE approval[a]
                                      /\ a # n => kind'[a] = kind[a] /\ about'[a] = about[a]
    BY <2>1, <1>n, Requested
  <2>3. \A q \in RunID : run'[q] = IF q = r THEN "paused" ELSE run[q]
    BY <2>1, <1>t
  <2>4. \A a \in ApprovalID : /\ approval'[a] = IF a = n THEN "pending" ELSE approval[a]
                              /\ a # n => kind'[a] = kind[a] /\ about'[a] = about[a]
    BY <2>2
  <2>5. Lasting
    BY <2>1, <2>2, <2>3, <2>4, <1>t DEF Lasting, Meaning
  <2>6. Meaning'
    BY <2>1, <2>2, <2>3, <2>4, <1>t DEF Meaning
  <2> QED
    BY <2>5, <2>6
<1>3. ASSUME NEW r \in RunID, NEW outcome \in {"completed", "failed"}, EndRun(r, outcome) PROVE Meaning' /\ Lasting
  <2>1. /\ run[r] \in {"running", "cancelled", "paused"} /\ run' = [run EXCEPT ![r] = outcome]
        /\ TryToSend(<<outcome, r>>) /\ UNCHANGED <<from, approval, kind, about, silenced>>
    BY <1>3 DEF EndRun, Executing
  <2>2. <<outcome, r>> \in Messages
    BY Subjects
  <2>3. \A q \in RunID : run'[q] = IF q = r THEN outcome ELSE run[q]
    BY <2>1, <1>t
  <2>4. \A q \in RunID : bus'[<<"completed", q>>] > 0 => bus[<<"completed", q>>] > 0 \/ q = r
    BY <2>1, <2>2, <1>s, Subjects
  <2>5. \A a \in ApprovalID : bus'[<<"approved", a>>] = bus[<<"approved", a>>]
    BY <2>1, <2>2, <1>s, Subjects
  <2> QED
    <3>1. faults' \in Nat /\ faults' >= faults
      BY <2>1, <2>2, <1>t, <1>s, <1>f
    <3>2. Lasting
      BY <2>1, <2>3, <3>1, <1>t DEF Lasting
    <3>3. Meaning'
      BY <2>1, <2>3, <2>4, <2>5, <1>t DEF Meaning
    <3> QED
      BY <3>2, <3>3
<1>4. ASSUME NEW r \in RunID, scheduleFollowOnRun(r) PROVE Meaning' /\ Lasting
  <2>1. CASE NewRuns # {} /\ Follow(r)
    <3>1. PICK n \in RunID : /\ run[n] = "none" /\ run' = [run EXCEPT ![n] = "queued"]
                             /\ from' = [from EXCEPT ![n] = r]
      BY <2>1, NextIsNew DEF Follow, NewRuns
    <3>2. \A q \in RunID : /\ run'[q] = IF q = n THEN "queued" ELSE run[q]
                           /\ from'[q] = IF q = n THEN r ELSE from[q]
      BY <3>1, <1>t
    <3>3. UNCHANGED <<bus, approval, kind, about, silenced>> /\ (UNCHANGED faults \/ Fault)
      BY <1>4 DEF scheduleFollowOnRun, FollowFails, Unfollowed
    <3> QED
      BY <3>1, <3>2, <3>3, <1>t, <1>f DEF Meaning, Lasting
  <2>2. CASE UNCHANGED <<run, from, faults>> \/ (UNCHANGED <<run, from>> /\ Fault)
    BY <1>4, <2>2, <1>l, <1>c DEF scheduleFollowOnRun
  <2> QED
    BY <1>4, <2>1, <2>2 DEF scheduleFollowOnRun, FollowFails, Unfollowed
<1>5. ASSUME NEW r \in RunID, HandleRunFailed(r) PROVE Meaning' /\ Lasting
  <2>1. /\ Handled(<<"failed", r>>) /\ UNCHANGED <<run, from, approval, kind, about, silenced>>
        /\ <<"failed", r>> \in Messages
    BY <1>5, Subjects, ReviewIsHandled DEF HandleRunFailed
  <2>2. /\ \A q \in RunID : bus'[<<"completed", q>>] = bus[<<"completed", q>>]
        /\ \A a \in ApprovalID : bus'[<<"approved", a>>] = bus[<<"approved", a>>]
    BY <2>1, <1>a, Subjects
  <2> QED
    BY <2>1, <2>2, <1>a, <1>l
<1>6. ASSUME NEW r \in RunID, HandleReviewCompleted(r) PROVE Meaning' /\ Lasting
  <2>1. /\ Handled(<<"reviewed", r>>) /\ UNCHANGED <<run, from>> /\ silenced \subseteq silenced'
        /\ <<"reviewed", r>> \in Messages
    BY <1>6, Subjects, ReviewIsHandled DEF HandleReviewCompleted, NoteSilence
  <2>2. /\ \A q \in RunID : bus'[<<"completed", q>>] = bus[<<"completed", q>>]
        /\ \A a \in ApprovalID : bus'[<<"approved", a>>] = bus[<<"approved", a>>]
    BY <2>1, <1>a, Subjects
  <2>3. CASE UNCHANGED <<approval, kind, about>>
    BY <2>1, <2>2, <2>3, <1>a, <1>l
  <2>4. CASE RequestApproval("pr_create", r)
    <3>1. PICK n \in ApprovalID :
               /\ approval[n] = "none" /\ kind'[n] = "pr_create" /\ about'[n] = r
               /\ \A a \in ApprovalID : /\ approval'[a] = IF a = n THEN "pending" ELSE approval[a]
                                        /\ a # n => kind'[a] = kind[a] /\ about'[a] = about[a]
      BY <2>4, <1>n, Requested
    <3>2. \A a \in ApprovalID : /\ approval'[a] = IF a = n THEN "pending" ELSE approval[a]
                                /\ a # n => kind'[a] = kind[a] /\ about'[a] = about[a]
      BY <3>1
    <3>3. faults' \in Nat /\ faults' >= faults
      BY <2>1, <1>t, <1>a, <1>f
    <3>4. Lasting
      BY <2>1, <3>1, <3>2, <3>3, <1>t DEF Lasting, Meaning
    <3>5. Meaning'
      BY <2>1, <2>2, <3>1, <3>2, <1>t DEF Meaning
    <3> QED
      BY <3>4, <3>5
  <2> QED
    BY <1>6, <2>3, <2>4, Zenon DEF HandleReviewCompleted
<1>7. CASE MarkReviewing \/ Review \/ AckCompleted
  <2>1. CASE MarkReviewing
    BY <2>1, <1>l, <1>c DEF MarkReviewing
  <2>2. CASE Review
    <3>0. PICK r \in RunID : completing[2] = r
      BY <2>2, <1>t DEF Review, TypeOK, Idle
    <3>1. <<"reviewed", r>> \in Messages /\ TryToSend(<<"reviewed", r>>)
      BY <2>2, <3>0, Subjects DEF Review
    <3>2. /\ \A q \in RunID : bus'[<<"completed", q>>] = bus[<<"completed", q>>]
          /\ \A a \in ApprovalID : bus'[<<"approved", a>>] = bus[<<"approved", a>>]
      BY <3>1, <1>s, Subjects
    <3> QED
      BY <2>2, <3>1, <3>2, <1>s, <1>l DEF Review
  <2>3. CASE AckCompleted
    <3>0. PICK r \in RunID : completing[2] = r
      BY <2>3, <1>t DEF AckCompleted, TypeOK, Idle
    <3>1. <<"completed", r>> \in Messages /\ Ack(<<"completed", r>>)
      BY <2>3, <3>0, Subjects DEF AckCompleted
    <3>3. \A n \in Messages : bus'[n] = IF n = <<"completed", r>> THEN bus[n] - 1 ELSE bus[n]
      BY <3>1, <1>n, Counts
    <3>2. /\ \A q \in RunID : bus'[<<"completed", q>>] > 0 => bus[<<"completed", q>>] > 0
          /\ \A a \in ApprovalID : bus'[<<"approved", a>>] = bus[<<"approved", a>>]
      <4>1. \A n \in Messages : bus'[n] > 0 => bus[n] > 0
        BY <3>3, <1>t
      <4>2. \A n \in Messages : n # <<"completed", r>> => bus'[n] = bus[n]
        BY <3>3
      <4> QED
        BY <4>1, <4>2, Subjects
    <3> QED
      BY <2>3, <3>2, <1>l DEF AckCompleted
  <2> QED
    BY <1>7, <2>1, <2>2, <2>3
<1>8. ASSUME NEW a \in ApprovalID, HandleApprovalApproved(a) PROVE Meaning' /\ Lasting
  BY <1>8, <1>l, <1>c DEF HandleApprovalApproved
<1>9. ASSUME NEW a \in ApprovalID, HandleApprovalRejected(a) \/ ResumeRun(a) PROVE Meaning' /\ Lasting
  <2>0. PICK m \in {<<"rejected", a>>, <<"approved", a>>} : Handled(m)
    BY <1>9, ReviewIsHandled DEF HandleApprovalRejected, ResumeRun
  <2>1. Handled(m) /\ UNCHANGED <<from, approval, kind, about, silenced>> /\ m \in Messages
    BY <1>9, <2>0, Subjects DEF HandleApprovalRejected, ResumeRun
  <2>2. \A q \in RunID : \/ run'[q] = run[q] \/ (run[q] = "completed" /\ run'[q] = "failed")
                         \/ run[q] = "paused" /\ run'[q] \in {"queued", "running", "failed"}
    BY <1>9, <1>n, Answered
  <2>3. /\ \A q \in RunID : bus'[<<"completed", q>>] = bus[<<"completed", q>>]
        /\ \A b \in ApprovalID : bus'[<<"approved", b>>] > 0 => bus[<<"approved", b>>] > 0
    <3>1. /\ \A n \in Messages : bus'[n] = bus[n] \/ (n = m /\ bus'[n] = bus[n] - 1)
          /\ \A n \in Messages : bus[n] \in Nat
      BY <2>1, <1>a, <1>t
    <3>2. \A n \in Messages : bus'[n] > 0 => bus[n] > 0
      BY <3>1
    <3>3. \A q \in RunID : <<"completed", q>> # m
      BY <2>0
    <3> QED
      BY <3>1, <3>2, <3>3, Subjects
  <2> QED
    <3>1. faults' \in Nat /\ faults' >= faults
      BY <2>1, <1>t, <1>a, <1>f
    <3>2. Lasting
      BY <2>1, <2>2, <3>1, <1>t DEF Lasting
    <3>3. Meaning'
      BY <2>1, <2>2, <2>3, <1>t DEF Meaning
    <3> QED
      BY <3>2, <3>3
<1>10. CASE CreatePullRequest \/ createPRRecord \/ MarkPRCreated
  <2>1. UNCHANGED <<run, from, approval, kind, about, silenced, bus>> /\ (UNCHANGED faults \/ Fault)
    BY <1>10 DEF CreatePullRequest, OpenPullRequest, Unopened, createPRRecord, MarkPRCreated
  <2> QED
    BY <2>1, <1>l, <1>c
<1>11. CASE AckApproved
  <2>0. PICK b \in ApprovalID : approving[2] = b
    BY <1>11, <1>t DEF AckApproved, TypeOK, Idle
  <2>1. <<"approved", b>> \in Messages /\ Ack(<<"approved", b>>)
    BY <1>11, <2>0, Subjects DEF AckApproved
  <2>3. \A n \in Messages : bus'[n] = IF n = <<"approved", b>> THEN bus[n] - 1 ELSE bus[n]
    BY <2>1, <1>n, Counts
  <2>2. /\ \A q \in RunID : bus'[<<"completed", q>>] = bus[<<"completed", q>>]
        /\ \A a \in ApprovalID : bus'[<<"approved", a>>] > 0 => bus[<<"approved", a>>] > 0
    <3>1. \A n \in Messages : bus'[n] > 0 => bus[n] > 0
      BY <2>3, <1>t
    <3>2. \A n \in Messages : n # <<"approved", b>> => bus'[n] = bus[n]
      BY <2>3
    <3> QED
      BY <3>1, <3>2, Subjects
  <2> QED
    BY <1>11, <2>2, <1>l DEF AckApproved
<1>12. ASSUME NEW a \in ApprovalID, NEW response \in {"approved", "rejected"}, RespondApproval(a, response)
       PROVE  Meaning' /\ Lasting
  <2>1. /\ approval[a] = "pending" /\ approval' = [approval EXCEPT ![a] = response]
        /\ TryToSend(<<response, a>>) /\ UNCHANGED <<run, from, kind, about, silenced>> /\ <<response, a>> \in Messages
    BY <1>12, Subjects DEF RespondApproval, Respond
  <2>2. \A b \in ApprovalID : approval'[b] = IF b = a THEN response ELSE approval[b]
    BY <2>1, <1>t
  <2>3. /\ \A q \in RunID : bus'[<<"completed", q>>] = bus[<<"completed", q>>]
        /\ \A b \in ApprovalID : bus'[<<"approved", b>>] > 0 => bus[<<"approved", b>>] > 0 \/ (b = a /\ response = "approved")
    BY <2>1, <1>s, Subjects
  <2> QED
    <3>1. faults' \in Nat /\ faults' >= faults
      BY <2>1, <1>t, <1>s, <1>f
    <3>2. Lasting
      BY <2>1, <2>2, <3>1, <1>t DEF Lasting
    <3>3. Meaning'
      BY <2>1, <2>2, <2>3, <1>t DEF Meaning
    <3> QED
      BY <3>2, <3>3
<1>13. CASE RetryRun
  <2>1. CASE RunsLeft /\ run' = [run EXCEPT ![Min(NewRuns)] = "queued"]
    <3>1. PICK n \in RunID : run[n] = "none" /\ run' = [run EXCEPT ![n] = "queued"]
      BY <2>1, NextIsNew DEF RunsLeft, NewRuns
    <3>2. \A q \in RunID : run'[q] = IF q = n THEN "queued" ELSE run[q]
      BY <3>1, <1>t
    <3>3. UNCHANGED <<bus, from, approval, kind, about, silenced>> /\ (UNCHANGED faults \/ Fault)
      BY <1>13 DEF RetryRun
    <3>4. Lasting
      BY <3>1, <3>2, <3>3, <1>t, <1>f DEF Lasting
    <3>5. Meaning'
      BY <3>1, <3>2, <3>3 DEF Meaning
    <3> QED
      BY <3>4, <3>5
  <2>2. CASE UNCHANGED run
    BY <1>13, <2>2, <1>l, <1>c DEF RetryRun
  <2> QED
    BY <1>13, <2>1, <2>2 DEF RetryRun
<1>14. CASE MergePullRequest
  BY <1>14, <1>l, <1>c DEF MergePullRequest
<1>15. CASE CancelTask \/ Proposing \/ (\E p \in DOMAIN pulls : ReadPullRequest(p)) \/ Crash \/ UNCHANGED vars
  <2>1. UNCHANGED <<run, from, approval, kind, about, silenced, bus>> /\ (UNCHANGED faults \/ Fault)
    BY <1>15 DEF CancelTask, Proposing, ReadTaskToPropose, ProposePullRequest, OpenPullRequest, Unopened,
       RecordProposal, MarkProposed, ReadPullRequest, Crash, vars
  <2> QED
    BY <2>1, <1>l, <1>c
<1>16. CASE Redeliver
  <2>1. UNCHANGED <<run, from, approval, kind, about, silenced, faults>>
    BY <1>16 DEF Redeliver
  <2>2. CASE completing # Idle /\ Send(<<"completed", completing[2]>>)
    <3>0. PICK r \in RunID : completing[2] = r /\ bus[<<"completed", r>>] > 0
      BY <2>2, <1>t DEF PipelineInv, TypeOK
    <3>1. \A n \in Messages : bus'[n] = IF n = <<"completed", r>> THEN bus[n] + 1 ELSE bus[n]
      BY <2>2, <3>0, <1>n, Counts, Subjects
    <3>2. /\ \A q \in RunID : bus'[<<"completed", q>>] > 0 => bus[<<"completed", q>>] > 0
          /\ \A a \in ApprovalID : bus'[<<"approved", a>>] = bus[<<"approved", a>>]
      BY <3>0, <3>1, <1>t, Subjects
    <3> QED
      BY <2>1, <3>2, <1>l
  <2>3. CASE approving # Idle /\ Send(<<"approved", approving[2]>>)
    <3>0. PICK b \in ApprovalID : approving[2] = b /\ bus[<<"approved", b>>] > 0
      BY <2>3, <1>t DEF PipelineInv, TypeOK
    <3>1. \A n \in Messages : bus'[n] = IF n = <<"approved", b>> THEN bus[n] + 1 ELSE bus[n]
      BY <2>3, <3>0, <1>n, Counts, Subjects
    <3>2. /\ \A q \in RunID : bus'[<<"completed", q>>] = bus[<<"completed", q>>]
          /\ \A a \in ApprovalID : bus'[<<"approved", a>>] > 0 => bus[<<"approved", a>>] > 0
      BY <3>0, <3>1, <1>t, Subjects
    <3> QED
      BY <2>1, <3>2, <1>l
  <2> QED
    BY <1>16, <2>2, <2>3 DEF Redeliver
<1> QED
  BY <1>1, <1>2, <1>q, <1>3, <1>4, <1>5, <1>6, <1>7, <1>8, <1>9, <1>10, <1>11, <1>12, <1>13, <1>14, <1>15, <1>16
     DEF Next, Agents, Handlers, People, Proposing, CompleteRun, failRun

(* A completed run on its way to being taken on: its review waits to be    *)
(* handled, or agents.run.completed does and is not at its end.            *)
Coming(r) ==
    \/ bus[<<"reviewed", r>>] > 0
    \/ bus[<<"completed", r>>] > 0 /\ completing # <<"ack", r>>

(* What may become of a completed run: a follow-on run or a pull request   *)
(* approval takes it on, or it is one of the two that nothing does.        *)
Taken(r) ==
    \/ \E q \in RunID : from[q] = r
    \/ \E a \in ApprovalID : kind[a] = "pr_create" /\ about[a] = r
    \/ Misaddressed(r)
    \/ r \in silenced

(* What is appended to a sequence is not its head.                         *)
LEMMA OldestStays ==
  ASSUME NEW S, NEW s \in Seq(S), s # <<>>, NEW e \in S
  PROVE  Append(s, e) # <<>> /\ Head(Append(s, e)) = Head(s)
<1>1. Len(s) \in Nat /\ Len(s) > 0
  OBVIOUS
<1>2. Append(s, e) \in Seq(S) /\ Len(Append(s, e)) = Len(s) + 1 /\ Append(s, e)[1] = s[1]
  BY <1>1
<1> QED
  BY <1>1, <1>2

(* A handoff that names no role stays the oldest of its run.               *)
LEMMA MisaddressedStays ==
  ASSUME TypeOK, [Next]_vars, NEW r \in RunID, Misaddressed(r)
  PROVE  Misaddressed(r)'
<1> USE DEF handoffs, approvals, github, requests, counters
<1>0. open \in [RunID -> Seq(BOOLEAN)] /\ open[r] # <<>> /\ ~Head(open[r])
  BY DEF TypeOK, Misaddressed
<1>1. ASSUME NEW q \in RunID, NEW roleExists \in BOOLEAN, persistAgentMessage(q, roleExists) PROVE Misaddressed(r)'
  <2>1. open' = [open EXCEPT ![q] = Append(open[q], roleExists)]
    BY <1>1 DEF persistAgentMessage
  <2>2. open[r] \in Seq(BOOLEAN)
    BY <1>0
  <2>3. Append(open[r], roleExists) # <<>> /\ Head(Append(open[r], roleExists)) = Head(open[r])
    BY <1>0, <2>2, OldestStays
  <2>4. open'[r] = open[r] \/ open'[r] = Append(open[r], roleExists)
    BY <1>0, <2>1
  <2> QED
    BY <1>0, <2>3, <2>4 DEF Misaddressed
<1>2. ASSUME NEW q \in RunID, scheduleFollowOnRun(q) PROVE Misaddressed(r)'
  <2>1. UNCHANGED open \/ (Head(open[q]) /\ open' = [open EXCEPT ![q] = Tail(open[q])])
    BY <1>2 DEF scheduleFollowOnRun, FollowFails, Unfollowed
  <2>2. open'[r] = open[r]
    BY <1>0, <2>1
  <2> QED
    BY <1>0, <2>2 DEF Misaddressed
<1>3. CASE UNCHANGED open
  BY <1>0, <1>3 DEF Misaddressed
<1> QED
  BY <1>1, <1>2, <1>3 DEF Next, Agents, Handlers, People, vars, StartRun, AskApproval, CompleteRun, failRun,
     EndRun, HandleRunFailed, HandleReviewCompleted, MarkReviewing, Review, AckCompleted, HandleApprovalApproved,
     ResumeRun, HandleApprovalRejected, CreatePullRequest, createPRRecord, MarkPRCreated, AckApproved,
     RespondApproval, Respond, ReadPullRequest, ReadFailedRun, CancelAgentRun, ReadTaskToPropose,
     ProposePullRequest, RecordProposal, MarkProposed, MergePullRequest, RetryRun, CancelTask, Crash, Redeliver

(* What becomes of a run in a step without a fault: what is coming comes,  *)
(* or is taken on; a run that completes now is coming.                     *)
GoesOn(r) ==
    /\ Coming(r) => Coming(r)' \/ Taken(r)'
    /\ run'[r] = "completed" => run[r] = "completed" \/ Coming(r)'

(* That is so of every step of the model.                                  *)
LEMMA ComingGoesOn ==
  ASSUME PipelineInv, Meaning, [Next]_vars, faults' = 0, NEW r \in RunID
  PROVE  GoesOn(r)
<1> USE DEF handoffs, approvals, github, requests, counters
<1>n. TypeOK /\ faults \in Nat
  BY PipelineAssumption DEF PipelineInv, TypeOK
<1>t. /\ run \in [RunID -> {"none", "queued", "running", "paused", "completed", "failed", "cancelled"}]
      /\ from \in [RunID -> 0..MaxRuns] /\ bus \in [Messages -> Nat]
      /\ approval \in [ApprovalID -> {"none", "pending", "approved", "rejected"}]
      /\ completing \in {Idle} \cup ({"mark", "review", "ack"} \X RunID)
      /\ approving \in {Idle} \cup ({"create", "record", "status", "ack"} \X ApprovalID)
  BY <1>n DEF TypeOK
<1>f. ~Fault
  BY <1>n DEF Fault
<1>m. <<"reviewed", r>> \in Messages /\ <<"completed", r>> \in Messages
  BY Subjects
<1>k. ASSUME UNCHANGED completing, bus'[<<"reviewed", r>>] = bus[<<"reviewed", r>>],
             bus'[<<"completed", r>>] = bus[<<"completed", r>>], run'[r] = "completed" => run[r] = "completed"
      PROVE  GoesOn(r)
  BY <1>k DEF GoesOn, Coming
<1>s. \A m \in Messages : TryToSend(m) => \A n \in Messages : bus'[n] = IF n = m THEN bus[n] + 1 ELSE bus[n]
  BY <1>n, <1>f, Counts DEF TryToSend
<1>a. \A m \in Messages : Handled(m) => /\ UNCHANGED <<completing, approving>>
                                        /\ \A n \in Messages : bus'[n] = IF n = m THEN bus[n] - 1 ELSE bus[n]
  BY <1>n, <1>f, Counts DEF Handled
<1>1. ASSUME NEW q \in RunID, \/ StartRun(q) \/ CancelAgentRun(q) \/ AskApproval(q) \/ ReadFailedRun(q)
                              \/ \E roleExists \in BOOLEAN : persistAgentMessage(q, roleExists)
      PROVE GoesOn(r)
  <2>1. UNCHANGED <<completing, bus>>
    BY <1>1 DEF StartRun, CancelAgentRun, AskApproval, persistAgentMessage, ReadFailedRun
  <2>2. run' = run \/ \E v \in {"running", "cancelled", "paused"} : run' = [run EXCEPT ![q] = v]
    BY <1>1 DEF StartRun, CancelAgentRun, AskApproval, persistAgentMessage, ReadFailedRun
  <2>3. run'[r] = "completed" => run[r] = "completed"
    BY <2>2, <1>t
  <2> QED
    BY <2>1, <2>3, <1>k
<1>2. ASSUME NEW q \in RunID, NEW outcome \in {"completed", "failed"}, EndRun(q, outcome) PROVE GoesOn(r)
  <2>1. /\ run[q] \in {"running", "cancelled", "paused"} /\ run' = [run EXCEPT ![q] = outcome]
        /\ TryToSend(<<outcome, q>>) /\ UNCHANGED completing /\ <<outcome, q>> \in Messages
    BY <1>2, Subjects DEF EndRun, Executing
  <2>2. \A n \in Messages : bus'[n] = IF n = <<outcome, q>> THEN bus[n] + 1 ELSE bus[n]
    BY <2>1, <1>s
  <2>3. CASE outcome = "completed" /\ q = r
    <3>1. bus'[<<"completed", r>>] = bus[<<"completed", r>>] + 1 /\ bus[<<"completed", r>>] \in Nat
      BY <2>2, <2>3, <1>m, <1>t
    <3>2. ~(bus[<<"completed", r>>] > 0)
      BY <2>1, <2>3 DEF Meaning
    <3>3. completing # <<"ack", r>>
      BY <3>2 DEF PipelineInv, Idle
    <3> QED
      BY <3>1, <3>3, <2>1 DEF GoesOn, Coming
  <2>4. CASE ~(outcome = "completed" /\ q = r)
    <3>1. bus'[<<"completed", r>>] = bus[<<"completed", r>>] /\ bus'[<<"reviewed", r>>] = bus[<<"reviewed", r>>]
      BY <2>2, <2>4, <1>m
    <3>2. run'[r] = "completed" => run[r] = "completed"
      BY <2>1, <2>4, <1>t
    <3> QED
      BY <3>1, <3>2, <2>1, <1>k
  <2> QED
    BY <2>3, <2>4
<1>3. ASSUME NEW q \in RunID, scheduleFollowOnRun(q) PROVE GoesOn(r)
  <2>0. completing = Idle /\ bus' = bus
    BY <1>3 DEF scheduleFollowOnRun
  <2>1. CASE NewRuns # {} /\ Follow(q)
    <3>1. PICK n \in RunID : /\ run[n] = "none" /\ run' = [run EXCEPT ![n] = "queued"]
                             /\ from' = [from EXCEPT ![n] = q] /\ completing' = <<"ack", q>> /\ status' = "running"
      BY <2>1, NextIsNew DEF Follow, NewRuns
    <3>2. from'[n] = q /\ (run'[r] = "completed" => run[r] = "completed")
      BY <3>1, <1>t
    <3>3. CASE q = r
      BY <3>1, <3>2, <3>3 DEF GoesOn, Taken
    <3>4. CASE q # r
      BY <2>0, <3>1, <3>2, <3>4 DEF GoesOn, Coming
    <3> QED
      BY <3>3, <3>4
  <2>2. CASE Unfollowed(q)
    BY <2>0, <2>2 DEF GoesOn, Coming, Unfollowed
  <2>3. CASE FollowFails(q)
    <3>1. Misaddressed(q) /\ completing' = <<"ack", q>> /\ run' = run
      BY <2>3, <1>f DEF FollowFails
    <3>2. CASE q = r
      <4>1. Misaddressed(r)'
        BY <3>1, <3>2, <1>n, MisaddressedStays
      <4> QED
        BY <3>1, <4>1 DEF GoesOn, Taken
    <3>3. CASE q # r
      BY <2>0, <3>1, <3>3 DEF GoesOn, Coming
    <3> QED
      BY <3>2, <3>3
  <2> QED
    BY <1>3, <2>1, <2>2, <2>3, Zenon DEF scheduleFollowOnRun
<1>4. ASSUME NEW q \in RunID, HandleRunFailed(q) PROVE GoesOn(r)
  <2>1. Handled(<<"failed", q>>) /\ run' = run /\ <<"failed", q>> \in Messages
    BY <1>4, Subjects, ReviewIsHandled DEF HandleRunFailed
  <2> QED
    BY <2>1, <1>a, <1>m, <1>k
<1>5. ASSUME NEW q \in RunID, HandleReviewCompleted(q) PROVE GoesOn(r)
  <2>1. Handled(<<"reviewed", q>>) /\ run' = run /\ <<"reviewed", q>> \in Messages
    BY <1>5, Subjects, ReviewIsHandled DEF HandleReviewCompleted
  <2>2. CASE q # r
    BY <2>1, <2>2, <1>a, <1>m, <1>k
  <2>3. CASE q = r
    <3>1. CASE ApprovalPending
      <4>1. r \in silenced'
        BY <1>5, <2>3, <3>1 DEF HandleReviewCompleted, NoteSilence
      <4> QED
        BY <2>1, <4>1 DEF GoesOn, Taken
    <3>2. CASE RequestApproval("pr_create", r)
      <4>1. \E n \in ApprovalID : kind'[n] = "pr_create" /\ about'[n] = r
        BY <3>2, <1>n, Requested
      <4> QED
        BY <2>1, <4>1 DEF GoesOn, Taken
    <3> QED
      BY <1>5, <2>3, <3>1, <3>2, <1>f DEF HandleReviewCompleted
  <2> QED
    BY <2>2, <2>3
<1>6. CASE MarkReviewing
  <2>1. completing' = <<"review", completing[2]>> /\ UNCHANGED <<bus, run>>
    BY <1>6 DEF MarkReviewing
  <2>2. completing'[1] = "review"
    BY <2>1
  <2> QED
    BY <2>1, <2>2 DEF GoesOn, Coming
<1>7. CASE Review
  <2>0. PICK q \in RunID : completing[2] = q
    BY <1>7, <1>t DEF Review, Idle
  <2>1. <<"reviewed", q>> \in Messages /\ TryToSend(<<"reviewed", q>>) /\ completing' = <<"ack", q>> /\ UNCHANGED run
    BY <1>7, <2>0, Subjects DEF Review
  <2>2. \A n \in Messages : bus'[n] = IF n = <<"reviewed", q>> THEN bus[n] + 1 ELSE bus[n]
    BY <2>1, <1>s
  <2>3. bus[<<"reviewed", r>>] \in Nat /\ bus'[<<"completed", r>>] = bus[<<"completed", r>>]
    BY <2>2, <1>m, <1>t
  <2>4. CASE q = r
    <3>1. bus'[<<"reviewed", r>>] > 0
      BY <2>2, <2>3, <2>4, <1>m
    <3> QED
      BY <3>1, <2>1 DEF GoesOn, Coming
  <2>5. CASE q # r
    <3>1. bus'[<<"reviewed", r>>] = bus[<<"reviewed", r>>]
      BY <2>2, <2>5, <1>m
    <3> QED
      BY <3>1, <2>1, <2>3, <2>5 DEF GoesOn, Coming
  <2> QED
    BY <2>4, <2>5
<1>8. CASE AckCompleted
  <2>0. PICK q \in RunID : completing[2] = q /\ completing = <<"ack", q>>
    BY <1>8, <1>t DEF AckCompleted, Idle
  <2>1. <<"completed", q>> \in Messages /\ Ack(<<"completed", q>>) /\ completing' = Idle /\ UNCHANGED run
    BY <1>8, <2>0, Subjects DEF AckCompleted
  <2>2. \A n \in Messages : bus'[n] = IF n = <<"completed", q>> THEN bus[n] - 1 ELSE bus[n]
    BY <2>1, <1>n, Counts
  <2>3. bus'[<<"reviewed", r>>] = bus[<<"reviewed", r>>] /\ (q # r => bus'[<<"completed", r>>] = bus[<<"completed", r>>])
    BY <2>2, <1>m
  <2> QED
    BY <2>0, <2>1, <2>3 DEF GoesOn, Coming, Idle
<1>9. ASSUME NEW a \in ApprovalID, HandleApprovalApproved(a) PROVE GoesOn(r)
  BY <1>9, <1>k DEF HandleApprovalApproved
<1>10. ASSUME NEW a \in ApprovalID, HandleApprovalRejected(a) \/ ResumeRun(a) PROVE GoesOn(r)
  <2>1. PICK m : Handled(m) /\ (m = <<"rejected", a>> \/ m = <<"approved", a>>)
    BY <1>10, ReviewIsHandled DEF HandleApprovalRejected, ResumeRun
  <2>2. m \in Messages /\ m # <<"reviewed", r>> /\ m # <<"completed", r>>
    <3>1. m \in Messages
      BY <2>1, Subjects
    <3>2. m[1] \in {"rejected", "approved"}
      BY <2>1
    <3> QED
      BY <3>1, <3>2
  <2>3. run'[r] = "completed" => run[r] = "completed"
    BY <1>10, <1>n, Answered
  <2> QED
    BY <2>1, <2>2, <2>3, <1>a, <1>m, <1>k
<1>11. CASE CreatePullRequest \/ createPRRecord \/ MarkPRCreated
  BY <1>11, <1>k DEF CreatePullRequest, createPRRecord, MarkPRCreated
<1>12. CASE AckApproved
  <2>0. PICK b \in ApprovalID : approving[2] = b
    BY <1>12, <1>t DEF AckApproved, Idle
  <2>1. <<"approved", b>> \in Messages /\ Ack(<<"approved", b>>) /\ UNCHANGED <<completing, run>>
    BY <1>12, <2>0, Subjects DEF AckApproved
  <2>2. \A n \in Messages : bus'[n] = IF n = <<"approved", b>> THEN bus[n] - 1 ELSE bus[n]
    BY <2>1, <1>n, Counts
  <2> QED
    BY <2>1, <2>2, <1>m, <1>k
<1>13. ASSUME NEW a \in ApprovalID, NEW response \in {"approved", "rejected"}, RespondApproval(a, response)
       PROVE  GoesOn(r)
  <2>1. /\ TryToSend(<<response, a>>) /\ UNCHANGED <<run, completing>> /\ <<response, a>> \in Messages
    BY <1>13, Subjects DEF RespondApproval, Respond
  <2> QED
    BY <2>1, <1>s, <1>m, <1>k
<1>14. CASE RetryRun
  <2>1. UNCHANGED <<bus, completing>>
    BY <1>14 DEF RetryRun
  <2>2. run' = run \/ \E n : run' = [run EXCEPT ![n] = "queued"]
    BY <1>14 DEF RetryRun
  <2>3. run'[r] = "completed" => run[r] = "completed"
    BY <2>2, <1>t
  <2> QED
    BY <2>1, <2>3, <1>k
<1>15. CASE MergePullRequest \/ CancelTask \/ Proposing \/ (\E p \in DOMAIN pulls : ReadPullRequest(p)) \/ UNCHANGED vars
  <2>1. UNCHANGED <<run, bus, completing>>
    BY <1>15 DEF MergePullRequest, CancelTask, Proposing, ReadTaskToPropose, ProposePullRequest,
       RecordProposal, MarkProposed, ReadPullRequest, vars
  <2> QED
    BY <2>1, <1>k
<1>16. CASE Redeliver
  <2>1. UNCHANGED <<run, completing>>
    BY <1>16 DEF Redeliver
  <2>2. /\ bus'[<<"reviewed", r>>] >= bus[<<"reviewed", r>>]
        /\ bus'[<<"completed", r>>] >= bus[<<"completed", r>>]
    <3>0. bus[<<"reviewed", r>>] \in Nat /\ bus[<<"completed", r>>] \in Nat
      BY <1>m, <1>t
    <3>1. CASE completing # Idle /\ Send(<<"completed", completing[2]>>)
      <4>1. PICK q \in RunID : completing[2] = q
        BY <3>1, <1>t
      <4>2. \A n \in Messages : bus'[n] = IF n = <<"completed", q>> THEN bus[n] + 1 ELSE bus[n]
        BY <3>1, <4>1, <1>n, Counts, Subjects
      <4> QED
        BY <4>2, <3>0, <1>m
    <3>2. CASE approving # Idle /\ Send(<<"approved", approving[2]>>)
      <4>1. PICK b \in ApprovalID : approving[2] = b
        BY <3>2, <1>t
      <4>2. \A n \in Messages : bus'[n] = IF n = <<"approved", b>> THEN bus[n] + 1 ELSE bus[n]
        BY <3>2, <4>1, <1>n, Counts, Subjects
      <4> QED
        BY <4>2, <3>0, <1>m
    <3> QED
      BY <1>16, <3>1, <3>2 DEF Redeliver
  <2>3. bus[<<"reviewed", r>>] \in Nat /\ bus[<<"completed", r>>] \in Nat
    BY <1>m, <1>t
  <2>4. /\ bus[<<"reviewed", r>>] > 0 => bus'[<<"reviewed", r>>] > 0
        /\ bus[<<"completed", r>>] > 0 => bus'[<<"completed", r>>] > 0
    <3> HIDE DEF vars
    <3>1. \A x \in Nat : \A y : x > 0 /\ y >= x /\ y \in Int => y > 0
      OBVIOUS
    <3>2. bus' \in [Messages -> Nat]
      BY SubscriptionsInductive DEF Subscriptions
    <3> QED
      BY <2>2, <2>3, <3>1, <3>2, <1>m
  <2> QED
    BY <2>1, <2>4 DEF GoesOn, Coming
<1>17. CASE Crash
  BY <1>17, <1>f DEF Crash
<1> QED
  BY <1>1, <1>2, <1>3, <1>4, <1>5, <1>6, <1>7, <1>8, <1>9, <1>10, <1>11, <1>12, <1>13, <1>14, <1>15, <1>16, <1>17
     DEF Next, Agents, Handlers, People, Proposing, CompleteRun, failRun

(* Meaning holds throughout, and with it what rests on it.                 *)
LEMMA MeaningHolds == Spec => []Meaning
<1>1. Init => Meaning
  <2> SUFFICES ASSUME Init PROVE Meaning
    OBVIOUS
  <2>1. \A m \in Messages : bus[m] = 0
    BY DEF Init
  <2>2. \A r \in RunID : bus[<<"completed", r>>] = 0
    BY <2>1, Subjects
  <2>3. \A a \in ApprovalID : bus[<<"approved", a>>] = 0
    BY <2>1, Subjects
  <2>4. /\ \A q \in RunID : from[q] = 0
        /\ \A a \in ApprovalID : kind[a] = "none"
    BY DEF Init
  <2> QED
    BY <2>2, <2>3, <2>4 DEF Meaning
<1> QED
  BY <1>1, MeaningStep, PipelineInvariant, PTL DEF Spec

(* Without a fault, a completed run was taken on or will be.               *)
TakenOn == faults = 0 => \A r \in RunID : run[r] = "completed" => Taken(r) \/ Coming(r)

(* A step takes a completed run on, or leaves it coming.                   *)
LEMMA TakenOnStep == PipelineInv /\ Meaning /\ TakenOn /\ [Next]_vars => TakenOn'
<1> SUFFICES ASSUME PipelineInv, Meaning, TakenOn, [Next]_vars, faults' = 0,
                    NEW r \in RunID, run'[r] = "completed"
             PROVE  Taken(r)' \/ Coming(r)'
  BY DEF TakenOn
<1>1. Lasting /\ GoesOn(r)
  BY MeaningStep, ComingGoesOn
<1>2. faults = 0
  BY <1>1 DEF Lasting
<1>3. Taken(r) => Taken(r)'
  <2>1. r # 0
    BY PipelineAssumption DEF RunID
  <2>2. TypeOK /\ (Misaddressed(r) => Misaddressed(r)')
    BY MisaddressedStays DEF PipelineInv
  <2> QED
    BY <1>1, <2>1, <2>2 DEF Lasting, Taken
<1>4. Coming(r) => Taken(r)' \/ Coming(r)'
  BY <1>1 DEF GoesOn
<1> QED
  BY <1>1, <1>2, <1>3, <1>4 DEF TakenOn, GoesOn

(* Once the events are handled, each at least once, in any order and       *)
(* redelivered or not, HandleRunCompleted has started the follow-on run of *)
(* a completed run, or HandleReviewCompleted has asked for its approval;   *)
(* if neither, its oldest handoff names a role that does not exist, or an  *)
(* approval of the task waited when its review was handled.                *)
THEOREM CompletedRunsAreTakenOn == Spec => []CompletedIsTakenOn
<1>1. Init => TakenOn
  BY DEF Init, TakenOn
<1>2. TakenOn => CompletedIsTakenOn
  <2> SUFFICES ASSUME TakenOn, Settled, NEW r \in RunID, run[r] = "completed" PROVE Taken(r)
    BY DEF CompletedIsTakenOn, Taken
  <2>1. bus[<<"reviewed", r>>] = 0 /\ bus[<<"completed", r>>] = 0
    BY Subjects DEF Settled
  <2>2. ~Coming(r)
    BY <2>1 DEF Coming
  <2> QED
    BY <2>2 DEF TakenOn, Settled
<1> QED
  BY <1>1, <1>2, TakenOnStep, MeaningHolds, PipelineInvariant, PTL DEF Spec

(* Only HandleRunCompleted puts a task into review.                        *)
LEMMA ReviewEntered ==
  ASSUME [Next]_vars, status' = "reviewing" PROVE status = "reviewing" \/ MarkReviewing
<1> USE DEF handoffs, approvals, github, requests, counters
<1>1. ASSUME NEW r \in RunID, scheduleFollowOnRun(r) \/ HandleRunFailed(r) \/ HandleReviewCompleted(r)
                              \/ ReadFailedRun(r) \/ CancelAgentRun(r)
      PROVE  status = "reviewing" \/ MarkReviewing
  BY <1>1 DEF scheduleFollowOnRun, Follow, FollowFails, Unfollowed, HandleRunFailed, HandleReviewCompleted,
                   ReadFailedRun, CancelAgentRun
<1>2. CASE Agents
  BY <1>2 DEF Agents, StartRun, AskApproval, persistAgentMessage, CompleteRun, failRun, EndRun
<1>3. ASSUME NEW a \in ApprovalID, NEW response \in {"approved", "rejected"},
             \/ HandleApprovalApproved(a) \/ HandleApprovalRejected(a) \/ ResumeRun(a)
             \/ RespondApproval(a, response)
      PROVE  status = "reviewing" \/ MarkReviewing
  BY <1>3 DEF HandleApprovalApproved, HandleApprovalRejected, ResumeRun, AnswerAgent, RespondApproval, Respond
<1>4. CASE Review \/ AckCompleted \/ CreatePullRequest \/ createPRRecord \/ MarkPRCreated \/ AckApproved
  BY <1>4 DEF Review, AckCompleted, CreatePullRequest, createPRRecord, MarkPRCreated, AckApproved
<1>5. CASE \/ Proposing \/ MergePullRequest \/ RetryRun \/ CancelTask \/ (\E p \in DOMAIN pulls : ReadPullRequest(p))
           \/ Crash \/ Redeliver \/ UNCHANGED vars
  BY <1>5 DEF Proposing, ReadTaskToPropose, ProposePullRequest, RecordProposal, MarkProposed, MergePullRequest,
     RetryRun, CancelTask, ReadPullRequest, Crash, Redeliver, vars
<1> QED
  BY <1>1, <1>2, <1>3, <1>4, <1>5 DEF Next, Handlers, People, Proposing

(* A task comes into review with a run that completed.                     *)
InReview == status = "reviewing" => \E r \in RunID : run[r] \in {"completed", "failed"}

(* A step keeps it so: a completed run stays one, unless it fails.         *)
LEMMA InReviewStep == PipelineInv /\ Meaning /\ InReview /\ [Next]_vars => InReview'
<1> SUFFICES ASSUME PipelineInv, Meaning, InReview, [Next]_vars, status' = "reviewing"
             PROVE  \E r \in RunID : run'[r] \in {"completed", "failed"}
  BY DEF InReview
<1>1. Lasting
  BY MeaningStep
<1>2. \E r \in RunID : run[r] \in {"completed", "failed"}
  <2>1. CASE status = "reviewing"
    BY <2>1 DEF InReview
  <2>2. CASE MarkReviewing
    <3>1. PICK r \in RunID : completing = <<"mark", r>>
      BY <2>2 DEF PipelineInv, TypeOK, MarkReviewing, Idle
    <3>2. bus[<<"completed", r>>] > 0
      BY <3>1 DEF PipelineInv, Idle
    <3> QED
      BY <3>2 DEF Meaning
  <2> QED
    BY <2>1, <2>2, ReviewEntered
<1> QED
  BY <1>1, <1>2 DEF Lasting

(* While no call fails, nothing is delivered twice, nobody cancels a run   *)
(* and none fails, the runs of the task form a chain: one at most is under *)
(* way or waits to be handled, none once the task is reviewed or proposed, *)
(* and a pull request that is open keeps the task out of review.           *)
Calm == faults = 0 /\ redeliveries = 0 /\ stopped = {} /\ \A r \in RunID : run[r] # "failed"

Active(r) ==
    \/ run[r] \in {"queued", "running", "paused"}
    \/ /\ run[r] = "completed" /\ bus[<<"completed", r>>] > 0
       /\ completing # <<"ack", r>> /\ completing # <<"review", r>>

Beyond ==
    \/ status \in {"reviewing", "pr_created"}
    \/ approving[1] \in {"create", "record", "status"}
    \/ creating # "no"

Opening == approving[1] \in {"record", "status"} \/ creating \in {"record", "status"}

Chain ==
    /\ retrying = 0
    /\ \A r \in RunID : run[r] # "cancelled" /\ bus[<<"completed", r>>] <= 1
    /\ \A q, r \in RunID : Active(q) /\ Active(r) => q = r
    /\ Beyond => \A r \in RunID : ~Active(r)
    /\ OpenOnGitHub # {} => /\ \A r \in RunID : ~Active(r)
                            /\ status # "reviewing" \/ Opening

(* A step that makes no run active and opens no pull request keeps the     *)
(* chain.                                                                  *)
LEMMA ChainKept ==
  ASSUME Chain, retrying' = 0,
         \A r \in RunID : run'[r] # "cancelled" /\ bus'[<<"completed", r>>] <= 1,
         \A r \in RunID : Active(r)' => Active(r),
         Beyond' => Beyond, OpenOnGitHub' \subseteq OpenOnGitHub,
         status' = "reviewing" => status = "reviewing",
         Opening => Opening' \/ status' # "reviewing"
  PROVE  Chain'
<1>1. \A q, r \in RunID : Active(q)' /\ Active(r)' => q = r
  BY DEF Chain
<1>2. Beyond' => \A r \in RunID : ~Active(r)'
  BY DEF Chain
<1>3. OpenOnGitHub' # {} => /\ \A r \in RunID : ~Active(r)'
                            /\ status' # "reviewing" \/ Opening'
  BY DEF Chain
<1> QED
  BY <1>1, <1>2, <1>3 DEF Chain

(* What has been so calm was so before.                                    *)
LEMMA CalmBefore == ASSUME PipelineInv, Meaning, [Next]_vars, Calm' PROVE Calm
<1>1. Lasting /\ (redeliveries' = 0 => redeliveries = 0)
  BY MeaningStep, FaultsGrow DEF PipelineInv
<1>2. stopped \subseteq stopped'
  BY DEF Next, vars
<1>3. faults = 0
  BY <1>1 DEF Lasting, Calm
<1> QED
  BY <1>1, <1>2, <1>3 DEF Lasting, Calm

(* A pull request that opens now is what the task is waiting for.          *)
LEMMA ChainOpens ==
  ASSUME Chain, Beyond, UNCHANGED <<retrying, run, bus, completing>>, Opening'
  PROVE  Chain'
<1>1. \A r \in RunID : ~Active(r) /\ (Active(r)' <=> Active(r))
  BY DEF Chain, Active
<1> QED
  BY <1>1 DEF Chain

(* Every step of the model keeps the chain.                                *)
LEMMA ChainStep ==
  ASSUME PipelineInv, Meaning, Chain, [Next]_vars, Calm, Calm' PROVE Chain'
<1> USE DEF handoffs, approvals, github, requests, counters
<1>n. TypeOK /\ faults \in Nat /\ faults' = 0 /\ redeliveries' = 0 /\ redeliveries = 0
  BY PipelineAssumption DEF PipelineInv, TypeOK, Calm
<1>t. /\ run \in [RunID -> {"none", "queued", "running", "paused", "completed", "failed", "cancelled"}]
      /\ bus \in [Messages -> Nat]
      /\ completing \in {Idle} \cup ({"mark", "review", "ack"} \X RunID)
      /\ approving \in {Idle} \cup ({"create", "record", "status", "ack"} \X ApprovalID)
      /\ remote \in Seq({"open", "merged"})
  BY <1>n DEF TypeOK
<1>f. ~Fault
  BY <1>n DEF Fault
<1>z. ~Redeliver
  BY <1>n DEF Redeliver
<1>m. \A r \in RunID : <<"completed", r>> \in Messages
  BY Subjects
<1>c. \A r \in RunID : /\ run[r] # "cancelled" /\ run'[r] # "cancelled"
                       /\ run[r] # "failed" /\ run'[r] # "failed" /\ bus[<<"completed", r>>] <= 1
  <2>1. \A r \in RunID : run'[r] = "cancelled" => r \in stopped' \/ UNCHANGED run
    BY DEF Next, vars
  <2> QED
    BY <2>1 DEF Chain, Calm
<1>s. \A m \in Messages : TryToSend(m) => \A n \in Messages : bus'[n] = IF n = m THEN bus[n] + 1 ELSE bus[n]
  BY <1>n, <1>f, Counts DEF TryToSend
<1>a. \A m \in Messages : Handled(m) => /\ UNCHANGED <<completing, approving>>
                                        /\ \A n \in Messages : bus'[n] = IF n = m THEN bus[n] - 1 ELSE bus[n]
  BY <1>n, <1>f, Counts DEF Handled
<1>k. ASSUME \A r \in RunID : bus'[<<"completed", r>>] = bus[<<"completed", r>>],
             UNCHANGED <<completing, retrying>>,
             \A r \in RunID : \/ run'[r] = run[r]
                              \/ run[r] \in {"queued", "running", "paused"} /\ run'[r] \in {"queued", "running", "paused"},
             Beyond' => Beyond, OpenOnGitHub' \subseteq OpenOnGitHub,
             status' = "reviewing" => status = "reviewing",
             Opening => Opening' \/ status' # "reviewing"
      PROVE  Chain'
  <2>1. \A r \in RunID : Active(r)' => Active(r)
    BY <1>k DEF Active
  <2>2. retrying' = 0 /\ \A r \in RunID : run'[r] # "cancelled" /\ bus'[<<"completed", r>>] <= 1
    BY <1>c, <1>k DEF Chain
  <2> QED
    BY <1>k, <2>1, <2>2, ChainKept
<1>u. ASSUME UNCHANGED <<status, approving, creating, remote>>
      PROVE  /\ (Beyond' => Beyond) /\ OpenOnGitHub' \subseteq OpenOnGitHub
             /\ status' = "reviewing" => status = "reviewing"
             /\ Opening => Opening' \/ status' # "reviewing"
  BY <1>u DEF Beyond, OpenOnGitHub, Opening
<1>v. ASSUME status' \in {status, "running", "failed", "cancelled", "done"}, UNCHANGED <<approving, creating, remote>>
      PROVE  /\ (Beyond' => Beyond) /\ OpenOnGitHub' \subseteq OpenOnGitHub
             /\ status' = "reviewing" => status = "reviewing"
             /\ Opening => Opening' \/ status' # "reviewing"
  BY <1>v DEF Beyond, OpenOnGitHub, Opening
<1>1. ASSUME NEW q \in RunID, \/ StartRun(q) \/ AskApproval(q)
                              \/ \E roleExists \in BOOLEAN : persistAgentMessage(q, roleExists)
      PROVE Chain'
  <2>1. UNCHANGED <<bus, completing, retrying, status, approving, creating, remote>>
    BY <1>1 DEF StartRun, AskApproval, persistAgentMessage
  <2>2. \/ run' = run
        \/ /\ run[q] \in {"queued", "running", "paused", "cancelled"}
           /\ \E v \in {"running", "paused"} : run' = [run EXCEPT ![q] = v]
    BY <1>1 DEF StartRun, AskApproval, persistAgentMessage, Executing
  <2>3. \A r \in RunID : \/ run'[r] = run[r]
                         \/ run[r] \in {"queued", "running", "paused"} /\ run'[r] \in {"queued", "running", "paused"}
    BY <2>2, <1>t, <1>c
  <2> QED
    BY <2>1, <2>3, <1>k, <1>u
<1>2. ASSUME NEW q \in RunID, NEW outcome \in {"completed", "failed"}, EndRun(q, outcome) PROVE Chain'
  <2>1. /\ run[q] \in {"running", "cancelled", "paused"} /\ run' = [run EXCEPT ![q] = outcome]
        /\ TryToSend(<<outcome, q>>) /\ <<outcome, q>> \in Messages
        /\ UNCHANGED <<completing, retrying, status, approving, creating, remote>>
    BY <1>2, Subjects DEF EndRun, Executing
  <2>2. run'[q] = outcome /\ \A r \in RunID : r # q => run'[r] = run[r]
    BY <2>1, <1>t
  <2>3. outcome = "completed" /\ Active(q)
    BY <2>1, <2>2, <1>c DEF Active
  <2>4. bus[<<"completed", q>>] \in Nat /\ ~(bus[<<"completed", q>>] > 0)
    BY <2>1, <1>m, <1>t DEF Meaning
  <2>5. bus'[<<"completed", q>>] = 1
    BY <2>1, <2>3, <2>4, <1>s, <1>m
  <2>6. \A r \in RunID : r # q => bus'[<<"completed", r>>] = bus[<<"completed", r>>]
    BY <2>1, <2>3, <1>s, <1>m
  <2>7. retrying' = 0 /\ \A r \in RunID : run'[r] # "cancelled" /\ bus'[<<"completed", r>>] <= 1
    BY <2>1, <2>5, <2>6, <1>c DEF Chain
  <2>8. \A r \in RunID : Active(r)' => Active(r)
    BY <2>1, <2>2, <2>3, <2>6 DEF Active
  <2> QED
    BY <2>1, <2>7, <2>8, <1>u, ChainKept
<1>3. ASSUME NEW q \in RunID, scheduleFollowOnRun(q) PROVE Chain'
  <2>0. completing = Idle /\ UNCHANGED <<bus, retrying, approving, creating, remote>>
    BY <1>3 DEF scheduleFollowOnRun
  <2>1. Active(q) /\ run[q] = "completed"
    <3>1. bus[<<"completed", q>>] > 0
      BY <1>3 DEF scheduleFollowOnRun
    <3>2. run[q] = "completed"
      BY <3>1, <1>c DEF Meaning
    <3> QED
      BY <2>0, <3>1, <3>2 DEF Active, Idle
  <2>2. CASE NewRuns # {} /\ Follow(q)
    <3>1. PICK n \in RunID : /\ run[n] = "none" /\ run' = [run EXCEPT ![n] = "queued"]
                             /\ completing' = <<"ack", q>> /\ status' = "running"
      BY <2>2, NextIsNew DEF Follow, NewRuns
    <3>2. /\ run'[n] = "queued"
          /\ \A r \in RunID : r # n => run'[r] = run[r]
      BY <3>1, <1>t
    <3>3. q # n
      BY <2>1, <3>1 DEF Active
    <3>4. ~Active(q)'
      BY <2>1, <3>1, <3>2, <3>3 DEF Active
    <3>5. \A r \in RunID : r # n /\ r # q => ~Active(r)'
      <4>1. \A r \in RunID : r # q => ~Active(r)
        BY <2>1 DEF Chain
      <4> QED
        BY <4>1, <2>0, <3>1, <3>2 DEF Active, Idle
    <3>6. ~Beyond'
      BY <2>0, <2>1, <3>1 DEF Chain, Beyond
    <3>7. OpenOnGitHub' = {}
      BY <2>0, <2>1 DEF Chain, OpenOnGitHub
    <3>8. retrying' = 0 /\ \A r \in RunID : run'[r] # "cancelled" /\ bus'[<<"completed", r>>] <= 1
      BY <2>0, <1>c DEF Chain
    <3> QED
      BY <3>4, <3>5, <3>6, <3>7, <3>8 DEF Chain
  <2>3. CASE /\ UNCHANGED <<run, status>> /\ completing' \in {<<"ack", q>>, <<"mark", q>>}
    <3>1. \A r \in RunID : Active(r)' => Active(r)
      BY <2>0, <2>3 DEF Active, Idle
    <3>2. retrying' = 0 /\ \A r \in RunID : run'[r] # "cancelled" /\ bus'[<<"completed", r>>] <= 1
      BY <2>0, <1>c DEF Chain
    <3> QED
      BY <2>0, <2>3, <3>1, <3>2, <1>u, ChainKept
  <2>4. CASE FollowFails(q) \/ Unfollowed(q)
    BY <2>4, <2>3 DEF FollowFails, Unfollowed
  <2> QED
    BY <1>3, <2>2, <2>4, Zenon DEF scheduleFollowOnRun
<1>4. ASSUME NEW q \in RunID, HandleRunFailed(q) \/ HandleReviewCompleted(q) PROVE Chain'
  <2>1. PICK m : Handled(m) /\ (m = <<"failed", q>> \/ m = <<"reviewed", q>>)
    BY <1>4, ReviewIsHandled DEF HandleRunFailed, HandleReviewCompleted
  <2>2. m \in Messages /\ \A r \in RunID : m # <<"completed", r>>
    <3>1. m \in Messages
      BY <2>1, Subjects
    <3>2. m[1] \in {"failed", "reviewed"}
      BY <2>1
    <3> QED
      BY <3>1, <3>2
  <2>3. /\ status' \in {status, "running", "failed", "cancelled", "done"}
        /\ UNCHANGED <<run, creating, remote, retrying>>
    BY <1>4 DEF HandleRunFailed, HandleReviewCompleted
  <2>4. UNCHANGED <<completing, approving>> /\ \A r \in RunID : bus'[<<"completed", r>>] = bus[<<"completed", r>>]
    BY <2>1, <2>2, <1>a, <1>m
  <2> QED
    BY <2>3, <2>4, <1>k, <1>v
<1>5. CASE MarkReviewing
  <2>1. PICK q \in RunID : completing = <<"mark", q>>
    BY <1>5, <1>t DEF MarkReviewing, Idle
  <2>2. /\ status' = "reviewing" /\ completing' = <<"review", q>>
        /\ UNCHANGED <<run, bus, remote, approving, creating, retrying>>
    BY <1>5, <2>1 DEF MarkReviewing
  <2>3. bus[<<"completed", q>>] > 0
    BY <2>1 DEF PipelineInv, Idle
  <2>4. Active(q)
    BY <2>1, <2>3, <1>c DEF Active, Meaning
  <2>5. \A r \in RunID : ~Active(r)'
    <3>1. \A r \in RunID : r # q => ~Active(r)
      BY <2>4 DEF Chain
    <3>2. run[q] = "completed"
      BY <2>3, <1>c DEF Meaning
    <3> QED
      BY <2>1, <2>2, <3>1, <3>2 DEF Active
  <2>6. OpenOnGitHub' = {}
    BY <2>2, <2>4 DEF Chain, OpenOnGitHub
  <2> QED
    BY <2>2, <2>5, <2>6, <1>c DEF Chain
<1>6. CASE Review
  <2>0. PICK q \in RunID : completing = <<"review", q>>
    BY <1>6, <1>t DEF Review, Idle
  <2>1. /\ TryToSend(<<"reviewed", q>>) /\ <<"reviewed", q>> \in Messages /\ completing' = <<"ack", q>>
        /\ UNCHANGED <<run, status, approving, creating, remote, retrying>>
    BY <1>6, <2>0, Subjects DEF Review
  <2>2. \A r \in RunID : bus'[<<"completed", r>>] = bus[<<"completed", r>>]
    BY <2>1, <1>s, <1>m
  <2>3. \A r \in RunID : Active(r)' => Active(r)
    BY <2>0, <2>1, <2>2 DEF Active
  <2>4. retrying' = 0 /\ \A r \in RunID : run'[r] # "cancelled" /\ bus'[<<"completed", r>>] <= 1
    BY <2>1, <2>2, <1>c DEF Chain
  <2> QED
    BY <2>1, <2>3, <2>4, <1>u, ChainKept
<1>7. CASE AckCompleted
  <2>0. PICK q \in RunID : completing = <<"ack", q>>
    BY <1>7, <1>t DEF AckCompleted, Idle
  <2>1. /\ Ack(<<"completed", q>>) /\ <<"completed", q>> \in Messages /\ completing' = Idle
        /\ UNCHANGED <<run, status, approving, creating, remote, retrying>>
    BY <1>7, <2>0, Subjects DEF AckCompleted
  <2>2. \A n \in Messages : bus'[n] = IF n = <<"completed", q>> THEN bus[n] - 1 ELSE bus[n]
    BY <2>1, <1>n, Counts
  <2>3. bus[<<"completed", q>>] > 0 /\ bus[<<"completed", q>>] <= 1 /\ bus[<<"completed", q>>] \in Nat
    BY <2>0, <1>c, <1>m, <1>t DEF PipelineInv, Idle
  <2>4. bus'[<<"completed", q>>] = 0 /\ \A r \in RunID : r # q => bus'[<<"completed", r>>] = bus[<<"completed", r>>]
    BY <2>2, <2>3, <1>m
  <2>5. \A r \in RunID : Active(r)' => Active(r)
    <3> SUFFICES ASSUME NEW r \in RunID, Active(r)' PROVE Active(r)
      OBVIOUS
    <3>1. CASE r = q
      BY <2>1, <2>4, <3>1 DEF Active
    <3>2. CASE r # q
      BY <2>0, <2>1, <2>4, <3>2 DEF Active
    <3> QED
      BY <3>1, <3>2
  <2>6. retrying' = 0 /\ \A r \in RunID : run'[r] # "cancelled" /\ bus'[<<"completed", r>>] <= 1
    BY <2>1, <2>4, <1>c DEF Chain
  <2> QED
    BY <2>1, <2>5, <2>6, <1>u, ChainKept
<1>8. ASSUME NEW a \in ApprovalID, HandleApprovalApproved(a) PROVE Chain'
  <2>1. /\ UNCHANGED <<bus, completing, retrying, run, status, creating, remote>> /\ approving = Idle
        /\ approving' = <<"ack", a>> \/ (status \in {"reviewing", "pr_created"} /\ approving' = <<"create", a>>)
    BY <1>8 DEF HandleApprovalApproved
  <2>2. /\ (Beyond' => Beyond) /\ OpenOnGitHub' \subseteq OpenOnGitHub
        /\ Opening => Opening'
    BY <2>1 DEF Beyond, OpenOnGitHub, Opening, Idle
  <2> QED
    BY <2>1, <2>2, <1>k
<1>9. ASSUME NEW a \in ApprovalID, HandleApprovalRejected(a) \/ ResumeRun(a) PROVE Chain'
  <2>1. PICK m : Handled(m) /\ (m = <<"rejected", a>> \/ m = <<"approved", a>>)
    BY <1>9, ReviewIsHandled DEF HandleApprovalRejected, ResumeRun
  <2>2. m \in Messages /\ \A r \in RunID : m # <<"completed", r>>
    <3>1. m \in Messages
      BY <2>1, Subjects
    <3>2. m[1] \in {"rejected", "approved"}
      BY <2>1
    <3> QED
      BY <3>1, <3>2
  <2>3. /\ status' \in {status, "running", "failed", "cancelled", "done"}
        /\ UNCHANGED <<creating, remote, retrying>>
    BY <1>9 DEF HandleApprovalRejected, ResumeRun, AnswerAgent
  <2>4. UNCHANGED <<completing, approving>> /\ \A r \in RunID : bus'[<<"completed", r>>] = bus[<<"completed", r>>]
    BY <2>1, <2>2, <1>a, <1>m
  <2>5. \A r \in RunID : \/ run'[r] = run[r]
                         \/ run[r] \in {"queued", "running", "paused"} /\ run'[r] \in {"queued", "running", "paused"}
    BY <1>9, <1>n, <1>c, Answered
  <2> QED
    BY <2>3, <2>4, <2>5, <1>k, <1>v
<1>10. CASE CreatePullRequest
  <2>1. approving[1] = "create" /\ UNCHANGED <<run, bus, completing, retrying, status, creating>>
    BY <1>10 DEF CreatePullRequest
  <2>2. CASE approving' = <<"record", approving[2]>>
    BY <2>1, <2>2, ChainOpens DEF Beyond, Opening
  <2>3. CASE approving' = <<"ack", approving[2]>> /\ UNCHANGED remote
    <3>1. /\ (Beyond' => Beyond) /\ OpenOnGitHub' \subseteq OpenOnGitHub
          /\ Opening => Opening'
      BY <2>1, <2>3 DEF Beyond, OpenOnGitHub, Opening
    <3> QED
      BY <2>1, <3>1, <1>k
  <2> QED
    BY <1>10, <2>2, <2>3 DEF CreatePullRequest, Unopened
<1>11. CASE createPRRecord
  <2>1. /\ approving[1] = "record" /\ approving' = <<"status", approving[2]>>
        /\ UNCHANGED <<run, bus, completing, retrying, status, creating, remote>>
    BY <1>11, <1>f DEF createPRRecord
  <2>2. /\ (Beyond' => Beyond) /\ OpenOnGitHub' \subseteq OpenOnGitHub
        /\ Opening => Opening'
    BY <2>1 DEF Beyond, OpenOnGitHub, Opening
  <2> QED
    BY <2>1, <2>2, <1>k
<1>12. CASE MarkPRCreated
  <2>1. /\ approving[1] = "status" /\ status' = "pr_created" /\ approving' = <<"ack", approving[2]>>
        /\ UNCHANGED <<run, bus, completing, retrying, creating, remote>>
    BY <1>12 DEF MarkPRCreated
  <2>2. /\ (Beyond' => Beyond) /\ OpenOnGitHub' \subseteq OpenOnGitHub
    BY <2>1 DEF Beyond, OpenOnGitHub
  <2> QED
    BY <2>1, <2>2, <1>k
<1>13. CASE AckApproved
  <2>0. PICK b \in ApprovalID : approving = <<"ack", b>>
    BY <1>13, <1>t DEF AckApproved, Idle
  <2>1. /\ Ack(<<"approved", b>>) /\ <<"approved", b>> \in Messages /\ approving' = Idle
        /\ UNCHANGED <<run, status, completing, creating, remote, retrying>>
    BY <1>13, <2>0, Subjects DEF AckApproved
  <2>2. \A n \in Messages : bus'[n] = IF n = <<"approved", b>> THEN bus[n] - 1 ELSE bus[n]
    BY <2>1, <1>n, Counts
  <2>3. \A r \in RunID : bus'[<<"completed", r>>] = bus[<<"completed", r>>]
    BY <2>2, <1>m
  <2>4. /\ (Beyond' => Beyond) /\ OpenOnGitHub' \subseteq OpenOnGitHub
        /\ Opening => Opening'
    BY <2>0, <2>1 DEF Beyond, OpenOnGitHub, Opening, Idle
  <2> QED
    BY <2>1, <2>3, <2>4, <1>k
<1>14. ASSUME NEW b \in ApprovalID, NEW response \in {"approved", "rejected"}, RespondApproval(b, response)
       PROVE  Chain'
  <2>1. /\ TryToSend(<<response, b>>) /\ <<response, b>> \in Messages
        /\ status' \in {status, "running", "failed", "cancelled", "done"}
        /\ UNCHANGED <<run, completing, approving, creating, remote, retrying>>
    BY <1>14, Subjects DEF RespondApproval, Respond
  <2>2. \A r \in RunID : bus'[<<"completed", r>>] = bus[<<"completed", r>>]
    BY <2>1, <1>s, <1>m
  <2> QED
    BY <2>1, <2>2, <1>k, <1>v
<1>15. CASE MergePullRequest
  <2>1. UNCHANGED <<run, bus, completing, approving, creating, retrying>> /\ status' \in {status, "done"}
    BY <1>15 DEF MergePullRequest
  <2>2. OpenOnGitHub' \subseteq OpenOnGitHub
    BY <1>15, <1>t DEF MergePullRequest, OpenOnGitHub
  <2>3. (Beyond' => Beyond) /\ (status' = "reviewing" => status = "reviewing") /\ (Opening => Opening')
    BY <2>1 DEF Beyond, Opening
  <2> QED
    BY <2>1, <2>2, <2>3, <1>k
<1>16. CASE CancelTask \/ (\E p \in DOMAIN pulls : ReadPullRequest(p)) \/ UNCHANGED vars
  <2>1. /\ UNCHANGED <<run, bus, completing, approving, creating, retrying, remote>>
        /\ status' \in {status, "running", "failed", "cancelled", "done"}
    BY <1>16 DEF CancelTask, ReadPullRequest, vars
  <2> QED
    BY <2>1, <1>k, <1>v
<1>17. ASSUME NEW q \in RunID, CancelAgentRun(q) \/ ReadFailedRun(q) PROVE Chain'
  <2>1. ~ReadFailedRun(q)
    BY <1>c DEF ReadFailedRun
  <2>2. ~CancelAgentRun(q)
    BY <1>c, <1>t DEF CancelAgentRun
  <2> QED
    BY <1>17, <2>1, <2>2
<1>18. CASE RetryRun
  BY <1>18 DEF RetryRun, Chain
<1>19. CASE Proposing
  <2>0. UNCHANGED <<run, bus, completing, retrying, approving>>
    BY <1>19 DEF Proposing, ReadTaskToPropose, ProposePullRequest, RecordProposal, MarkProposed
  <2>1. ASSUME NEW approved \in BOOLEAN, ReadTaskToPropose(approved) PROVE Chain'
    <3>1. /\ creating = "no" /\ creating' = "create" /\ status \in {"reviewing", "pr_created"}
          /\ UNCHANGED <<status, remote>>
      BY <2>1 DEF ReadTaskToPropose
    <3>2. /\ (Beyond' => Beyond) /\ OpenOnGitHub' \subseteq OpenOnGitHub
          /\ Opening => Opening'
      BY <2>0, <3>1 DEF Beyond, OpenOnGitHub, Opening
    <3> QED
      BY <2>0, <3>1, <3>2, <1>k
  <2>2. CASE ProposePullRequest
    <3>1. creating = "create" /\ UNCHANGED status
      BY <2>2 DEF ProposePullRequest
    <3>2. CASE creating' = "record"
      BY <2>0, <3>1, <3>2, ChainOpens DEF Beyond, Opening
    <3>3. CASE creating' = "no" /\ UNCHANGED remote
      <4>1. /\ (Beyond' => Beyond) /\ OpenOnGitHub' \subseteq OpenOnGitHub
            /\ Opening => Opening'
        BY <2>0, <3>1, <3>3 DEF Beyond, OpenOnGitHub, Opening
      <4> QED
        BY <2>0, <3>1, <4>1, <1>k
    <3> QED
      BY <2>2, <3>2, <3>3 DEF ProposePullRequest, Unopened
  <2>3. CASE RecordProposal
    <3>1. creating = "record" /\ creating' = "status" /\ UNCHANGED <<status, remote>>
      BY <2>3, <1>f DEF RecordProposal
    <3>2. /\ (Beyond' => Beyond) /\ OpenOnGitHub' \subseteq OpenOnGitHub
          /\ Opening => Opening'
      BY <2>0, <3>1 DEF Beyond, OpenOnGitHub, Opening
    <3> QED
      BY <2>0, <3>1, <3>2, <1>k
  <2>4. CASE MarkProposed
    <3>1. creating = "status" /\ status' = "pr_created" /\ creating' = "no" /\ UNCHANGED remote
      BY <2>4 DEF MarkProposed
    <3>2. Beyond /\ OpenOnGitHub' \subseteq OpenOnGitHub
      BY <3>1 DEF Beyond, OpenOnGitHub
    <3> QED
      BY <2>0, <3>1, <3>2, <1>k
  <2> QED
    BY <1>19, <2>1, <2>2, <2>3, <2>4 DEF Proposing
<1>20. CASE Crash
  BY <1>20, <1>f DEF Crash
<1> QED
  BY <1>1, <1>2, <1>3, <1>4, <1>5, <1>6, <1>7, <1>8, <1>9, <1>10, <1>11, <1>12, <1>13, <1>14, <1>15, <1>16, <1>17,
     <1>18, <1>19, <1>20, <1>z DEF Next, Agents, Handlers, People, Proposing, CompleteRun, failRun

(* Once the events are handled, in any order, a task in review is never    *)
(* stuck there, if nothing failed, was delivered twice or was cancelled: a *)
(* run can be retried (RetryRun), or a pull request opened                 *)
(* (CreatePullRequest), for none is in the way.                            *)
THEOREM ReviewHasAWayOut == Spec => []ReviewHasWayOut
<1> DEFINE Linked == Calm => Chain
<1>1. Init => InReview /\ Linked
  <2> SUFFICES ASSUME Init PROVE InReview /\ Chain
    OBVIOUS
  <2>1. \A m \in Messages : bus[m] = 0
    BY DEF Init
  <2>2. \A r \in RunID : bus[<<"completed", r>>] = 0
    BY <2>1, Subjects
  <2>3. \A r \in RunID : Active(r) => r = 1
    BY <2>2 DEF Init, Active
  <2>4. ~Beyond /\ OpenOnGitHub = {}
    BY DEF Init, Beyond, OpenOnGitHub, Idle
  <2>5. retrying = 0 /\ \A r \in RunID : run[r] # "cancelled"
    BY DEF Init
  <2>6. InReview
    BY DEF Init, InReview
  <2> QED
    BY <2>2, <2>3, <2>4, <2>5, <2>6 DEF Chain
<1>2. PipelineInv /\ Meaning /\ Linked /\ [Next]_vars => Linked'
  BY CalmBefore, ChainStep
<1>3. InReview /\ Linked => ReviewHasWayOut
  <2> SUFFICES ASSUME InReview, Linked, Settled, redeliveries = 0, stopped = {}, status = "reviewing",
                      \A r \in RunID : run[r] # "failed"
               PROVE  loadLatestRun /\ OpenOnGitHub = {}
    BY DEF ReviewHasWayOut
  <2>1. loadLatestRun
    BY DEF InReview, loadLatestRun
  <2>2. Chain
    BY DEF Settled, Calm
  <2>3. ~Opening
    BY DEF Opening, Settled, Idle
  <2> QED
    BY <2>1, <2>2, <2>3 DEF Chain
<1> QED
  BY <1>1, <1>2, <1>3, InReviewStep, MeaningHolds, PipelineInvariant, PTL DEF Spec

(* The approvals of pull requests that were used: the message is gone, or  *)
(* the handler is past the step that creates the pull request.             *)
Past(a) == approving \in {"record", "status", "ack"} \X {a}
Spent   == { a \in ApprovalID : /\ approval[a] = "approved" /\ kind[a] = "pr_create"
                                /\ bus[<<"approved", a>>] = 0 \/ Past(a) }

(* Without faults and redelivery, an approval is announced once, what the  *)
(* worker has created was paid for with an approval, and it works on those *)
(* of pull requests only.                                                  *)
Budget ==
    faults + redeliveries = 0 =>
        /\ \A a \in ApprovalID : bus[<<"approved", a>>] <= 1
        /\ Len(remote) - direct <= Cardinality(Spent)
        /\ approving # Idle => kind[approving[2]] = "pr_create"

(* Every set of approvals is finite.                                       *)
LEMMA ApprovalsAreFinite ==
  ASSUME NEW S, S \subseteq ApprovalID PROVE IsFiniteSet(S) /\ Cardinality(S) \in Nat
<1>1. IsFiniteSet(ApprovalID)
  BY PipelineAssumption, FS_Interval DEF ApprovalID
<1> QED
  BY <1>1, FS_Subset, FS_CardinalityType

(* A step that creates no pull request of the worker's and unspends no     *)
(* approval stays within the budget.                                       *)
LEMMA WithinBudget ==
  ASSUME PipelineInv, Budget, faults + redeliveries = 0,
         \A a \in ApprovalID : bus'[<<"approved", a>>] <= 1,
         Spent \subseteq Spent', Len(remote') - direct' = Len(remote) - direct,
         approving' # Idle => kind'[approving'[2]] = "pr_create"
  PROVE  Budget'
<1>1. Spent \subseteq ApprovalID /\ Spent' \subseteq ApprovalID
  BY DEF Spent
<1>2. IsFiniteSet(Spent') /\ Cardinality(Spent') \in Nat /\ Cardinality(Spent) \in Nat
  BY <1>1, ApprovalsAreFinite
<1>3. Cardinality(Spent) <= Cardinality(Spent')
  BY <1>2, FS_Subset
<1>4. Len(remote) \in Nat /\ direct \in Nat
  BY DEF PipelineInv, TypeOK
<1>5. Len(remote) - direct <= Cardinality(Spent)
  BY DEF Budget
<1>6. Len(remote') - direct' <= Cardinality(Spent')
  BY <1>2, <1>3, <1>4, <1>5
<1> QED
  BY <1>6 DEF Budget

(* What opens a pull request makes the list one longer.                    *)
LEMMA OpensOne == TypeOK /\ createGitHubPR => Len(remote') = Len(remote) + 1 /\ Len(remote) \in Nat
BY DEF TypeOK, createGitHubPR

(* The worker pays for each pull request with an approval not yet used.    *)
LEMMA BudgetStep == PipelineInv /\ Meaning /\ Budget /\ [Next]_vars => Budget'
<1> SUFFICES ASSUME PipelineInv, Meaning, Budget, [Next]_vars, faults' + redeliveries' = 0 PROVE Budget'
  BY DEF Budget
<1> USE DEF handoffs, approvals, github, requests, counters
<1>n. TypeOK /\ faults \in Nat /\ redeliveries \in Nat
  BY PipelineAssumption DEF PipelineInv, TypeOK
<1>o. faults' \in Nat /\ redeliveries' \in Nat
  <2>1. Rows'
    BY RowsInductive
  <2> QED
    <3>1. faults' \in 0..MaxTrouble /\ redeliveries' \in 0..MaxTrouble
      BY <2>1 DEF Rows
    <3>2. MaxTrouble \in Nat
      BY PipelineAssumption
    <3> QED
      BY <3>1, <3>2
<1>f. ~Fault /\ faults' = 0 /\ redeliveries' = 0
  <2>1. \A x, y \in Nat : x + y = 0 => x = 0 /\ y = 0
    OBVIOUS
  <2>2. faults' = 0 /\ redeliveries' = 0
    BY <1>o, <2>1
  <2> QED
    BY <1>n, <2>2 DEF Fault
<1>l. Lasting
  BY MeaningStep
<1>t. /\ bus \in [Messages -> Nat]
      /\ approval \in [ApprovalID -> {"none", "pending", "approved", "rejected"}]
      /\ completing \in {Idle} \cup ({"mark", "review", "ack"} \X RunID)
      /\ approving \in {Idle} \cup ({"create", "record", "status", "ack"} \X ApprovalID)
      /\ remote \in Seq({"open", "merged"}) /\ direct \in Nat
  BY <1>n DEF TypeOK
<1>z. ~Redeliver
  BY <1>n, <1>f DEF Redeliver
<1>p. ASSUME faults + redeliveries = 0, approving' # Idle => approving # Idle /\ approving'[2] = approving[2]
      PROVE  approving' # Idle => kind'[approving'[2]] = "pr_create"
  <2> SUFFICES ASSUME approving' # Idle PROVE kind'[approving'[2]] = "pr_create"
    OBVIOUS
  <2>1. approving # Idle /\ approving'[2] = approving[2] /\ approving[2] \in ApprovalID
    BY <1>p, <1>t DEF Idle
  <2>2. kind[approving[2]] = "pr_create"
    BY <1>p, <2>1 DEF Budget
  <2> QED
    BY <2>1, <2>2, <1>l DEF Lasting
<1>k. ASSUME UNCHANGED approving, faults + redeliveries = 0,
             \A a \in ApprovalID : bus'[<<"approved", a>>] = bus[<<"approved", a>>],
             Len(remote') - direct' = Len(remote) - direct
      PROVE  Budget'
  <2>1. Spent \subseteq Spent'
    <3> SUFFICES ASSUME NEW a \in Spent PROVE a \in Spent'
      OBVIOUS
    <3>1. a \in ApprovalID /\ approval[a] = "approved" /\ kind[a] = "pr_create"
      BY DEF Spent
    <3>2. approval'[a] = "approved" /\ kind'[a] = "pr_create"
      BY <3>1, <1>l DEF Lasting
    <3> QED
      BY <1>k, <3>1, <3>2 DEF Spent, Past
  <2>2. \A a \in ApprovalID : bus'[<<"approved", a>>] <= 1
    BY <1>k DEF Budget
  <2> QED
    BY <1>k, <1>p, <2>1, <2>2, WithinBudget
<1>y. UNCHANGED redeliveries => faults + redeliveries = 0
  BY <1>f, <1>l, <1>n DEF Lasting
<1>m. \A a \in ApprovalID : <<"approved", a>> \in Messages
  BY Subjects
<1>s. \A m \in Messages : TryToSend(m) => \A n \in Messages : bus'[n] = IF n = m THEN bus[n] + 1 ELSE bus[n]
  BY <1>n, <1>f, Counts DEF TryToSend
<1>a. \A m \in Messages : Handled(m) => /\ UNCHANGED <<completing, approving>>
                                        /\ \A n \in Messages : bus'[n] = IF n = m THEN bus[n] - 1 ELSE bus[n]
  BY <1>n, <1>f, Counts DEF Handled
<1>1. ASSUME NEW q \in RunID, \/ StartRun(q) \/ CancelAgentRun(q) \/ AskApproval(q) \/ ReadFailedRun(q)
                              \/ scheduleFollowOnRun(q) \/ \E roleExists \in BOOLEAN : persistAgentMessage(q, roleExists)
      PROVE Budget'
  <2>1. UNCHANGED <<bus, approving, remote, direct, redeliveries>>
    BY <1>1, Zenon DEF StartRun, CancelAgentRun, persistAgentMessage, ReadFailedRun, scheduleFollowOnRun, AskApproval
  <2> QED
    BY <2>1, <1>k, <1>y
<1>2. ASSUME NEW q \in RunID, NEW outcome \in {"completed", "failed"}, EndRun(q, outcome) PROVE Budget'
  <2>1. TryToSend(<<outcome, q>>) /\ UNCHANGED <<approving, remote, direct, redeliveries>> /\ <<outcome, q>> \in Messages
    BY <1>2, Subjects DEF EndRun
  <2> QED
    BY <2>1, <1>s, <1>m, <1>k, <1>y
<1>3. ASSUME NEW q \in RunID, HandleRunFailed(q) PROVE Budget'
  <2>1. Handled(<<"failed", q>>) /\ UNCHANGED <<remote, direct, redeliveries>> /\ <<"failed", q>> \in Messages
    BY <1>3, Subjects, ReviewIsHandled DEF HandleRunFailed
  <2> QED
    BY <2>1, <1>a, <1>m, <1>k, <1>y
<1>4. ASSUME NEW q \in RunID, HandleReviewCompleted(q) PROVE Budget'
  <2>1. Handled(<<"reviewed", q>>) /\ UNCHANGED <<remote, direct, redeliveries>> /\ <<"reviewed", q>> \in Messages
    BY <1>4, Subjects, ReviewIsHandled DEF HandleReviewCompleted
  <2> QED
    BY <2>1, <1>a, <1>m, <1>k, <1>y
<1>5. CASE MarkReviewing
  BY <1>5, <1>k, <1>y DEF MarkReviewing
<1>6. CASE Review
  <2>0. PICK q \in RunID : completing[2] = q
    BY <1>6, <1>t DEF Review, Idle
  <2>1. /\ <<"reviewed", q>> \in Messages /\ TryToSend(<<"reviewed", q>>)
        /\ UNCHANGED <<approving, remote, direct, redeliveries>>
    BY <1>6, <2>0, Subjects DEF Review
  <2> QED
    BY <2>1, <1>s, <1>m, <1>k, <1>y
<1>7. CASE AckCompleted
  <2>0. PICK q \in RunID : completing[2] = q
    BY <1>7, <1>t DEF AckCompleted, Idle
  <2>1. /\ <<"completed", q>> \in Messages /\ Ack(<<"completed", q>>)
        /\ UNCHANGED <<approving, remote, direct, redeliveries>>
    BY <1>7, <2>0, Subjects DEF AckCompleted
  <2>2. \A n \in Messages : bus'[n] = IF n = <<"completed", q>> THEN bus[n] - 1 ELSE bus[n]
    BY <2>1, <1>n, Counts
  <2> QED
    BY <2>1, <2>2, <1>m, <1>k, <1>y
<1>8. ASSUME NEW b \in ApprovalID, HandleApprovalApproved(b) PROVE Budget'
  <2>1. /\ approving = Idle /\ UNCHANGED <<bus, approval, kind, remote, direct, redeliveries>>
        /\ approving'[2] = b /\ kind[b] = "pr_create"
    BY <1>8 DEF HandleApprovalApproved
  <2>2. Spent \subseteq Spent'
    BY <2>1 DEF Spent, Past, Idle
  <2>3. \A a \in ApprovalID : bus'[<<"approved", a>>] <= 1
    BY <2>1, <1>y DEF Budget
  <2> QED
    BY <2>1, <2>2, <2>3, <1>y, WithinBudget
<1>9. ASSUME NEW b \in ApprovalID, HandleApprovalRejected(b) PROVE Budget'
  <2>1. Handled(<<"rejected", b>>) /\ UNCHANGED <<remote, direct, redeliveries>> /\ <<"rejected", b>> \in Messages
    BY <1>9, Subjects, ReviewIsHandled DEF HandleApprovalRejected
  <2> QED
    BY <2>1, <1>a, <1>m, <1>k, <1>y
<1>10. CASE CreatePullRequest
  <2>0. PICK b \in ApprovalID : approving = <<"create", b>>
    BY <1>10, <1>t DEF CreatePullRequest, Idle
  <2>1. UNCHANGED <<bus, approval, kind, direct, redeliveries>> /\ \E s \in {"record", "ack"} : approving' = <<s, b>>
    BY <1>10, <2>0 DEF CreatePullRequest
  <2>p. kind[b] = "pr_create" /\ (approving' # Idle => kind'[approving'[2]] = "pr_create")
    BY <2>0, <2>1, <1>y DEF Budget, Idle
  <2>2. bus[<<"approved", b>>] > 0 /\ approval[b] = "approved" /\ bus[<<"approved", b>>] \in Nat
    BY <2>0, <1>m, <1>t DEF PipelineInv, Meaning, Idle
  <2>3. b \notin Spent
    BY <2>0, <2>2 DEF Spent, Past
  <2>4. \A a \in Spent : a \in Spent'
    BY <2>0, <2>1 DEF Spent, Past
  <2>5. b \in Spent'
    BY <2>1, <2>2, <2>p DEF Spent, Past
  <2>6. \A a \in ApprovalID : bus'[<<"approved", a>>] <= 1
    BY <2>1, <1>y DEF Budget
  <2>7. CASE Unopened
    BY <2>1, <2>p, <2>4, <2>6, <2>7, <1>y, WithinBudget DEF Unopened
  <2>8. CASE createGitHubPR
    <3>1. Len(remote') = Len(remote) + 1 /\ Len(remote) \in Nat
      BY <2>8, <1>n, OpensOne
    <3>2. IsFiniteSet(Spent) /\ IsFiniteSet(Spent') /\ Cardinality(Spent) \in Nat /\ Cardinality(Spent') \in Nat
      <4>1. Spent \subseteq ApprovalID /\ Spent' \subseteq ApprovalID
        BY DEF Spent
      <4> QED
        BY <4>1, ApprovalsAreFinite
    <3>3. Cardinality(Spent \cup {b}) = Cardinality(Spent) + 1
      BY <3>2, <2>3, FS_AddElement
    <3>4. Spent \cup {b} \subseteq Spent'
      BY <2>4, <2>5
    <3>5. Cardinality(Spent \cup {b}) <= Cardinality(Spent')
      BY <3>2, <3>4, FS_Subset
    <3>6. Len(remote) - direct <= Cardinality(Spent)
      BY <2>1, <1>y DEF Budget
    <3>7. Len(remote') - direct' <= Cardinality(Spent')
      BY <2>1, <3>1, <3>2, <3>3, <3>5, <3>6, <1>t
    <3> QED
      BY <2>6, <2>p, <3>7 DEF Budget
  <2> QED
    BY <1>10, <2>7, <2>8 DEF CreatePullRequest, OpenPullRequest
<1>11. CASE createPRRecord \/ MarkPRCreated
  <2>0. PICK b \in ApprovalID : approving \in {"record", "status"} \X {b}
    BY <1>11, <1>t DEF createPRRecord, MarkPRCreated, Idle
  <2>1. /\ UNCHANGED <<bus, approval, kind, remote, direct, redeliveries>>
        /\ \E s \in {"status", "ack"} : approving' = <<s, b>>
    BY <1>11, <2>0 DEF createPRRecord, MarkPRCreated
  <2>p. approving' # Idle => kind'[approving'[2]] = "pr_create"
    BY <2>0, <2>1, <1>y, <1>p DEF Idle
  <2>2. Spent \subseteq Spent'
    BY <2>0, <2>1 DEF Spent, Past
  <2>3. \A a \in ApprovalID : bus'[<<"approved", a>>] <= 1
    BY <2>1, <1>y DEF Budget
  <2> QED
    BY <2>1, <2>p, <2>2, <2>3, <1>y, WithinBudget
<1>12. CASE AckApproved
  <2>0. PICK b \in ApprovalID : approving = <<"ack", b>>
    BY <1>12, <1>t DEF AckApproved, Idle
  <2>1. /\ <<"approved", b>> \in Messages /\ Ack(<<"approved", b>>)
        /\ UNCHANGED <<approval, kind, remote, direct, redeliveries>> /\ approving' = Idle
    BY <1>12, <2>0, Subjects DEF AckApproved
  <2>2. \A n \in Messages : bus'[n] = IF n = <<"approved", b>> THEN bus[n] - 1 ELSE bus[n]
    BY <2>1, <1>n, Counts
  <2>3. bus[<<"approved", b>>] > 0 /\ bus[<<"approved", b>>] \in Nat /\ bus[<<"approved", b>>] <= 1
    BY <2>0, <2>1, <1>m, <1>t, <1>y DEF PipelineInv, Idle, Budget
  <2>4. bus'[<<"approved", b>>] = 0
    BY <2>1, <2>2, <2>3
  <2>5. \A a \in ApprovalID : a # b => bus'[<<"approved", a>>] = bus[<<"approved", a>>]
    BY <2>2, <1>m
  <2>6. \A a \in ApprovalID : bus'[<<"approved", a>>] <= 1
    <3> SUFFICES ASSUME NEW a \in ApprovalID PROVE bus'[<<"approved", a>>] <= 1
      OBVIOUS
    <3>1. bus[<<"approved", a>>] <= 1
      BY <2>1, <1>y DEF Budget
    <3> QED
      BY <2>4, <2>5, <3>1
  <2>7. Spent \subseteq Spent'
    BY <2>0, <2>1, <2>4, <2>5 DEF Spent, Past
  <2> QED
    BY <2>1, <2>6, <2>7, <1>y, WithinBudget
<1>13. ASSUME NEW b \in ApprovalID, NEW response \in {"approved", "rejected"}, RespondApproval(b, response)
       PROVE  Budget'
  <2>1. /\ approval[b] = "pending" /\ approval' = [approval EXCEPT ![b] = response]
        /\ TryToSend(<<response, b>>) /\ UNCHANGED <<approving, kind, remote, direct, redeliveries>>
        /\ <<response, b>> \in Messages
    BY <1>13, Subjects DEF RespondApproval, Respond
  <2>2. \A n \in Messages : bus'[n] = IF n = <<response, b>> THEN bus[n] + 1 ELSE bus[n]
    BY <2>1, <1>s
  <2>3. bus[<<"approved", b>>] = 0
    BY <2>1, <1>m, <1>t DEF Meaning
  <2>4. \A a \in ApprovalID : a # b => bus'[<<"approved", a>>] = bus[<<"approved", a>>]
    BY <2>2, <1>m
  <2>5. bus'[<<"approved", b>>] \in {0, 1}
    BY <2>2, <2>3, <1>m
  <2>6. \A a \in ApprovalID : bus'[<<"approved", a>>] <= 1
    <3> SUFFICES ASSUME NEW a \in ApprovalID PROVE bus'[<<"approved", a>>] <= 1
      OBVIOUS
    <3>1. bus[<<"approved", a>>] <= 1
      BY <2>1, <1>y DEF Budget
    <3> QED
      BY <2>4, <2>5, <3>1
  <2>7. b \notin Spent
    BY <2>1 DEF Spent
  <2>8. Spent \subseteq Spent'
    BY <2>1, <2>4, <2>7, <1>l DEF Spent, Past, Lasting
  <2> QED
    BY <2>1, <2>6, <2>8, <1>y, <1>p, WithinBudget
<1>14. CASE RetryRun \/ CancelTask \/ (\E p \in DOMAIN pulls : ReadPullRequest(p)) \/ UNCHANGED vars
  BY <1>14, <1>k, <1>y DEF RetryRun, CancelTask, ReadPullRequest, vars
<1>15. CASE MergePullRequest
  <2>1. UNCHANGED <<bus, approving, direct, redeliveries>>
    BY <1>15 DEF MergePullRequest
  <2>2. Len(remote') = Len(remote)
    BY <1>15, <1>t DEF MergePullRequest
  <2> QED
    BY <2>1, <2>2, <1>k, <1>y
<1>16. CASE Proposing
  <2>1. UNCHANGED <<bus, approving, redeliveries>>
    BY <1>16 DEF Proposing, ReadTaskToPropose, ProposePullRequest, RecordProposal, MarkProposed
  <2>2. Len(remote') - direct' = Len(remote) - direct
    <3>1. CASE UNCHANGED <<remote, direct>>
      BY <3>1
    <3>2. CASE createGitHubPR /\ direct' = direct + 1
      BY <3>2, <1>n, <1>t, OpensOne
    <3> QED
      BY <1>16, <3>1, <3>2 DEF Proposing, ReadTaskToPropose, ProposePullRequest, RecordProposal, MarkProposed,
         OpenPullRequest, Unopened
  <2> QED
    BY <2>1, <2>2, <1>k, <1>y
<1>17. CASE Crash
  BY <1>17, <1>f DEF Crash
<1>18. ASSUME NEW b \in ApprovalID, ResumeRun(b) PROVE Budget'
  <2>1. /\ Handled(<<"approved", b>>) /\ UNCHANGED <<approval, kind, remote, direct, redeliveries>>
        /\ <<"approved", b>> \in Messages /\ kind[b] = "action"
    BY <1>18, Subjects, ReviewIsHandled DEF ResumeRun
  <2>2. \A a \in ApprovalID : a # b => bus'[<<"approved", a>>] = bus[<<"approved", a>>]
    BY <2>1, <1>a, <1>m
  <2>3. \A a \in ApprovalID : bus'[<<"approved", a>>] <= bus[<<"approved", a>>]
    <3> SUFFICES ASSUME NEW a \in ApprovalID PROVE bus'[<<"approved", a>>] <= bus[<<"approved", a>>]
      OBVIOUS
    <3>1. <<"approved", a>> \in Messages /\ bus[<<"approved", a>>] \in Nat
      BY <1>m, <1>t
    <3>2. bus'[<<"approved", a>>] \in {bus[<<"approved", a>>], bus[<<"approved", a>>] - 1}
      BY <2>1, <3>1, <1>a
    <3> QED
      BY <3>1, <3>2
  <2>4. \A a \in ApprovalID : bus'[<<"approved", a>>] <= 1
    <3> SUFFICES ASSUME NEW a \in ApprovalID PROVE bus'[<<"approved", a>>] <= 1
      OBVIOUS
    <3>1. bus[<<"approved", a>>] <= 1 /\ bus'[<<"approved", a>>] <= bus[<<"approved", a>>]
      BY <2>1, <2>3, <1>y DEF Budget
    <3>2. bus[<<"approved", a>>] \in Nat /\ bus'[<<"approved", a>>] \in Int
      BY <2>1, <1>a, <1>m, <1>t
    <3> QED
      BY <3>1, <3>2
  <2>5. UNCHANGED approving
    BY <2>1, <1>a
  <2>6. Spent \subseteq Spent'
    BY <2>1, <2>2, <2>5 DEF Spent, Past
  <2> QED
    BY <2>1, <2>4, <2>5, <2>6, <1>y, <1>p, WithinBudget
<1> QED
  BY <1>18, <1>1, <1>2, <1>3, <1>4, <1>5, <1>6, <1>7, <1>8, <1>9, <1>10, <1>11, <1>12, <1>13, <1>14, <1>15, <1>16, <1>17, <1>z
     DEF Next, Agents, Handlers, People, Proposing, CompleteRun, failRun

(* Without faults and redelivery, no approval of a person is good for two  *)
(* pull requests of the worker, whatever merges, retries and requests do   *)
(* to the task's status meanwhile.                                         *)
THEOREM OnePullRequestPerApproval == Spec => []ApprovalPerPullRequest
<1>1. Init => Budget
  <2> SUFFICES ASSUME Init PROVE Budget
    OBVIOUS
  <2>1. \A m \in Messages : bus[m] = 0
    BY DEF Init
  <2>2. Spent = {} /\ remote = <<>> /\ direct = 0
    BY DEF Init, Spent
  <2>3. Len(remote) - direct <= Cardinality(Spent)
    BY <2>2, FS_EmptySet
  <2>4. approving = Idle
    BY DEF Init
  <2> QED
    <3>1. \A a \in ApprovalID : bus[<<"approved", a>>] = 0
      BY <2>1, Subjects
    <3> QED
      BY <2>3, <2>4, <3>1 DEF Budget
<1>2. PipelineInv /\ Budget => ApprovalPerPullRequest
  <2> SUFFICES ASSUME PipelineInv, Budget, faults + redeliveries = 0
               PROVE  Len(remote) - direct <=
                          Cardinality({ a \in ApprovalID : approval[a] = "approved" /\ kind[a] = "pr_create" })
    BY DEF ApprovalPerPullRequest
  <2> DEFINE A == { a \in ApprovalID : approval[a] = "approved" /\ kind[a] = "pr_create" }
  <2>1. Spent \subseteq A /\ A \subseteq ApprovalID /\ Spent \subseteq ApprovalID
    BY DEF Spent
  <2>2. Len(remote) - direct <= Cardinality(Spent)
    BY DEF Budget
  <2>3. Len(remote) \in Nat /\ direct \in Nat
    BY DEF PipelineInv, TypeOK
  <2> HIDE DEF A
  <2>4. IsFiniteSet(A) /\ Cardinality(A) \in Nat /\ Cardinality(Spent) \in Nat
    BY <2>1, ApprovalsAreFinite
  <2>5. Cardinality(Spent) <= Cardinality(A)
    BY <2>1, <2>4, FS_Subset
  <2>6. Len(remote) - direct <= Cardinality(A)
    BY <2>2, <2>3, <2>4, <2>5
  <2> QED
    BY <2>6 DEF A
<1> QED
  BY <1>1, <1>2, BudgetStep, MeaningHolds, PipelineInvariant, PTL DEF Spec

=============================================================================
