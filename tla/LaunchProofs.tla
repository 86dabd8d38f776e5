---------------------------- MODULE LaunchProofs ----------------------------
(* Proofs about Launch, for every number of workers, messages and crashes. *)
EXTENDS Launch, FiniteSetTheorems, TLAPS

(* Types.                                                                  *)
THEOREM LaunchTypes == Spec => []TypeOK
<1> USE LaunchAssumption DEF TypeOK
<1>1. Init => TypeOK
  <2> SUFFICES ASSUME Init PROVE TypeOK
    OBVIOUS
  <2>1. status \in TaskStatuses /\ pc \in [Worker -> Steps] /\ seen \in [Client -> TaskStatuses \cup {"none"}]
    BY DEF Init, TaskStatuses, Steps
  <2>2. runs \in Seq({"queued", "taken"})
    BY DEF Init
  <2>3. workspace \in BOOLEAN /\ edited \in BOOLEAN
    BY Zenon DEF Init
  <2> QED
    BY <2>1, <2>2, <2>3 DEF Init
<1>2. TypeOK /\ [Next]_vars => TypeOK'
  <2> SUFFICES ASSUME TypeOK, [Next]_vars PROVE TypeOK'
    OBVIOUS
  <2>0. Len(runs) \in Nat /\ DOMAIN runs = 1..Len(runs)
    OBVIOUS
  <2>p. ASSUME NEW w \in Worker, NEW s \in Steps, Goto(w, s) PROVE pc' \in [Worker -> Steps]
    BY <2>p DEF Goto
  <2>t. ASSUME NEW r \in Nat, Publish(r) PROVE trig' \subseteq Nat
    BY <2>t DEF Publish
  <2>c. ASSUME CreateRun PROVE runs' \in Seq({"queued", "taken"})
    BY <2>c DEF CreateRun
  <2>n. NewRun \in Nat
    BY <2>0 DEF NewRun
  <2>1. CASE HandleTaskCreated \/ ApproveSpec \/ CancelTask \/ Redeliver
    <3>1. status' \in TaskStatuses
      BY <2>1 DEF HandleTaskCreated, ApproveSpec, CancelTask, Redeliver, TaskStatuses
    <3>2. msgs' \in Int
      BY <2>1 DEF HandleTaskCreated, ApproveSpec, CancelTask, Redeliver
    <3> QED
      BY <2>1, <3>1, <3>2 DEF HandleTaskCreated, ApproveSpec, CancelTask, Redeliver
  <2>2. CASE StartRun
    <3>1. status' \in TaskStatuses
      BY <2>2 DEF StartRun, TaskStatuses
    <3> QED
      BY <2>2, <3>1, <2>c, <2>n, <2>t DEF StartRun
  <2>3. ASSUME NEW c \in Client, ReadStatus(c) \/ GenerateSpec(c) \/ UpdateTask(c) \/ RefuseRequest(c)
        PROVE  TypeOK'
    <3>1. CASE UpdateTask(c)
      <4>1. seen[c] \in TaskStatuses
        BY <3>1 DEF UpdateTask
      <4>2. \A s \in TaskStatuses : validStatusTransitions[s] \subseteq TaskStatuses
        BY DEF validStatusTransitions, TaskStatuses
      <4> QED
        BY <3>1, <4>1, <4>2 DEF UpdateTask
    <3> QED
      BY <2>3, <3>1 DEF ReadStatus, GenerateSpec, RefuseRequest, TaskStatuses
  <2>4. ASSUME NEW w \in Worker, Deliver(w) \/ HandleTaskApproved(w) \/ Crash(w) PROVE TypeOK'
    <3> {"idle", "republish", "claim", "provision", "commit", "publish", "cleanup", "release", "ack"}
           \subseteq Steps
      BY DEF Steps
    <3>1. CASE Deliver(w)
      BY <3>1, <2>p DEF Deliver
    <3>2. CASE publishExistingQueuedRun(w)
      <4>1. Queued \subseteq Nat
        BY <2>0 DEF Queued
      <4>2. trig' \subseteq Nat
        BY <3>2, <4>1, <2>t DEF publishExistingQueuedRun
      <4> QED
        BY <3>2, <4>2, <2>p DEF publishExistingQueuedRun
    <3>3. CASE claimApprovedTaskForInitialRun(w)
      BY <3>3, <2>p DEF claimApprovedTaskForInitialRun, TaskStatuses
    <3>4. CASE provisionWorkspace(w)
      BY <3>4, <2>p DEF provisionWorkspace
    <3>5. CASE CommitInitialRun(w)
      <4>1. workspace' \in BOOLEAN
        BY <3>5, Zenon DEF CommitInitialRun
      <4>2. runs' \in Seq({"queued", "taken"}) /\ pc' \in [Worker -> Steps]
        BY <3>5, <2>c, <2>p DEF CommitInitialRun
      <4> QED
        BY <3>5, <4>1, <4>2 DEF CommitInitialRun
    <3>6. CASE cleanupProvisionedWorkspace(w)
      BY <3>6, <2>p DEF cleanupProvisionedWorkspace
    <3>7. CASE releaseInitialRunClaim(w)
      BY <3>7, <2>p DEF releaseInitialRunClaim, TaskStatuses
    <3>8. CASE publishRunTriggered(w)
      BY <3>8, <2>0, <2>t, <2>p DEF publishRunTriggered
    <3>9. CASE Ack(w)
      BY <3>9, <2>p DEF Ack
    <3>10. CASE Crash(w)
      BY <3>10, <2>p DEF Crash
    <3> QED
      BY <2>4, <3>1, <3>2, <3>3, <3>4, <3>5, <3>6, <3>7, <3>8, <3>9, <3>10 DEF HandleTaskApproved
  <2>5. ASSUME NEW r \in DOMAIN runs, TakeRun(r) PROVE TypeOK'
    BY <2>5 DEF TakeRun, Queued
  <2>6. CASE UNCHANGED vars
    BY <2>6 DEF vars
  <2> QED
    BY <2>1, <2>2, <2>3, <2>4, <2>5, <2>6 DEF Next
<1> QED
  BY <1>1, <1>2, PTL DEF Spec

(* A worker holds its claim from the compare-and-set to the commit or the  *)
(* end of the release.                                                     *)
Claiming == {"provision", "commit", "cleanup", "release"}

Claimed ==
    /\ Len(runs) <= 1
    /\ status \in {"backlog", "spec_review", "approved"} => runs = <<>>
    /\ \A w \in Worker : pc[w] \in Claiming =>
          /\ status \in {"running", "cancelled"}
          /\ status = "running" => runs = <<>>
          /\ \A v \in Worker : pc[v] \in Claiming => v = w

LaunchInv == TypeOK /\ (edited \/ Claimed)

(* A step after which nobody has set the status by hand is no GenerateSpec *)
(* and no UpdateTask.                                                      *)
LEMMA NotByHand ==
    ASSUME [Next]_vars, edited' # TRUE
    PROVE  edited' = edited /\ \A c \in Client : ~GenerateSpec(c) /\ ~UpdateTask(c)
<1>1. \A c \in Client : ~GenerateSpec(c) /\ ~UpdateTask(c)
  BY Zenon DEF GenerateSpec, UpdateTask
<1>2. CASE UNCHANGED vars
  BY <1>1, <1>2, Zenon DEF vars
<1>3. CASE HandleTaskCreated \/ ApproveSpec \/ StartRun \/ CancelTask \/ Redeliver
  BY <1>1, <1>3, Zenon DEF HandleTaskCreated, ApproveSpec, StartRun, CancelTask, Redeliver
<1>4. ASSUME NEW c \in Client, ReadStatus(c) \/ RefuseRequest(c) PROVE edited' = edited
  BY <1>4, Zenon DEF ReadStatus, RefuseRequest
<1>5. ASSUME NEW w \in Worker, Deliver(w) \/ HandleTaskApproved(w) \/ Crash(w) PROVE edited' = edited
  BY <1>5, Zenon DEF Deliver, HandleTaskApproved, Crash, publishExistingQueuedRun,
     claimApprovedTaskForInitialRun, provisionWorkspace, CommitInitialRun,
     cleanupProvisionedWorkspace, releaseInitialRunClaim, publishRunTriggered, Ack
<1>6. ASSUME NEW r \in DOMAIN runs, TakeRun(r) PROVE edited' = edited
  BY <1>6, Zenon DEF TakeRun
<1> QED
  BY <1>1, <1>2, <1>3, <1>4, <1>5, <1>6, Zenon DEF Next

(* The invariant of the claim, as long as nobody sets the status by hand:  *)
(* one worker holds the task, it holds it running or cancelled, and a task *)
(* it can still attach a workspace to has no run.                          *)
THEOREM LaunchClaims == Spec => []LaunchInv
<1>1. TypeOK /\ Init => LaunchInv
  BY DEF Init, LaunchInv, Claimed, Claiming
<1>2. ASSUME LaunchInv, TypeOK', [Next]_vars PROVE LaunchInv'
  <2> SUFFICES ASSUME edited' # TRUE PROVE Claimed'
    BY <1>2, Zenon DEF LaunchInv
  <2>e. edited' = edited /\ \A c \in Client : ~GenerateSpec(c) /\ ~UpdateTask(c)
    BY <1>2, NotByHand
  <2>c. Claimed
    BY <1>2, <2>e, Zenon DEF LaunchInv
  <2>0. runs \in Seq({"queued", "taken"}) /\ pc \in [Worker -> Steps]
    BY <1>2 DEF LaunchInv, TypeOK
  <2> USE <2>0, <2>c DEF Claimed, Claiming, Goto
  <2>1. CASE HandleTaskCreated \/ ApproveSpec \/ CancelTask \/ Redeliver
    BY <2>1 DEF HandleTaskCreated, ApproveSpec, CancelTask, Redeliver
  <2>2. CASE StartRun
    BY <2>2 DEF StartRun, CreateRun
  <2>3. ASSUME NEW c \in Client, ReadStatus(c) \/ RefuseRequest(c) PROVE Claimed'
    BY <2>3 DEF ReadStatus, RefuseRequest
  <2>4. ASSUME NEW w \in Worker, Deliver(w) \/ HandleTaskApproved(w) \/ Crash(w) PROVE Claimed'
    <3>1. CASE Deliver(w) \/ Crash(w)
      BY <3>1 DEF Deliver, Crash
    <3>2. CASE publishExistingQueuedRun(w)
      BY <3>2 DEF publishExistingQueuedRun
    <3>3. CASE claimApprovedTaskForInitialRun(w)
      BY <3>3 DEF claimApprovedTaskForInitialRun, Claimable
    <3>4. CASE provisionWorkspace(w)
      BY <3>4 DEF provisionWorkspace
    <3>5. CASE CommitInitialRun(w)
      BY <3>5 DEF CommitInitialRun, Attachable, CreateRun
    <3>6. CASE cleanupProvisionedWorkspace(w)
      BY <3>6 DEF cleanupProvisionedWorkspace
    <3>7. CASE releaseInitialRunClaim(w)
      BY <3>7 DEF releaseInitialRunClaim, Attachable
    <3>8. CASE publishRunTriggered(w) \/ Ack(w)
      BY <3>8 DEF publishRunTriggered, Ack
    <3> QED
      BY <2>4, <3>1, <3>2, <3>3, <3>4, <3>5, <3>6, <3>7, <3>8 DEF HandleTaskApproved
  <2>5. ASSUME NEW r \in DOMAIN runs, TakeRun(r) PROVE Claimed'
    BY <2>5 DEF TakeRun, Queued
  <2>6. CASE UNCHANGED vars
    BY <2>6 DEF vars
  <2> QED
    BY <1>2, <2>e, <2>1, <2>2, <2>3, <2>4, <2>5, <2>6 DEF Next
<1> QED
  BY <1>1, <1>2, LaunchTypes, PTL DEF Spec

(* However many workers, crashes, redeliveries and StartRun requests there *)
(* are, a task whose status nobody sets by hand gets at most one initial   *)
(* run.                                                                    *)
THEOREM InitialRunIsUnique == Spec => []OneInitialRun
<1>1. LaunchInv => OneInitialRun
  BY Zenon DEF LaunchInv, Claimed, OneInitialRun
<1> QED
  BY <1>1, LaunchClaims, PTL

(* Nor is such a task, once launched, ever left approved.                  *)
THEOREM LaunchedIsNotApproved == Spec => []ApprovedHasNoRun
<1>1. LaunchInv => ApprovedHasNoRun
  <2>1. Claimed => (status = "approved" => runs = <<>>)
    BY DEF Claimed
  <2> QED
    BY <2>1, Zenon DEF LaunchInv, ApprovedHasNoRun
<1> QED
  BY <1>1, LaunchClaims, PTL

(* No handler revives a cancelled task.                                    *)
THEOREM CancellationSticks == Spec => CancelSticks
<1>1. LaunchInv /\ [Next]_vars => [edited' \/ (status = "cancelled" => status' = "cancelled")]_vars
  <2> SUFFICES ASSUME LaunchInv, Next, edited' # TRUE, status = "cancelled" PROVE status' = "cancelled"
    BY Zenon DEF vars
  <2>1. \A c \in Client : ~GenerateSpec(c) /\ ~UpdateTask(c)
    BY NotByHand
  <2> QED
    BY <2>1 DEF Next, HandleTaskCreated, ApproveSpec, StartRun, CancelTask, Redeliver, ReadStatus,
       RefuseRequest, Deliver, HandleTaskApproved, Crash, TakeRun,
       publishExistingQueuedRun, claimApprovedTaskForInitialRun, provisionWorkspace, Claimable,
       CommitInitialRun, cleanupProvisionedWorkspace, releaseInitialRunClaim, Attachable,
       publishRunTriggered, Ack
<1> QED
  BY <1>1, LaunchClaims, PTL DEF Spec, CancelSticks

-----------------------------------------------------------------------------
(* Sessions.  Workers with a runtime workspace that is neither the task's  *)
(* nor destroyed.                                                          *)
Holders == { w \in Worker : pc[w] \in {"commit", "cleanup"} }

(* There are finitely many of them, and one more or less is one more or    *)
(* less.                                                                   *)
LEMMA HolderMoves ==
    ASSUME NEW w \in Worker, \A v \in Worker \ {w} : pc'[v] = pc[v]
    PROVE  /\ Cardinality(Holders) \in Nat /\ Cardinality(Holders') \in Nat
           /\ (w \in Holders <=> w \in Holders') => Holders' = Holders
           /\ w \notin Holders /\ w \in Holders' => Cardinality(Holders') = Cardinality(Holders) + 1
           /\ w \in Holders /\ w \notin Holders' => Cardinality(Holders') = Cardinality(Holders) - 1
<1> USE LaunchAssumption
<1>1. Holders \subseteq Worker /\ Holders' \subseteq Worker
  BY DEF Holders
<1>2. IsFiniteSet(Holders) /\ IsFiniteSet(Holders')
  BY <1>1, FS_Subset
<1>3. Holders \ {w} = Holders' \ {w}
  BY DEF Holders
<1> HIDE DEF Holders
<1>4. PICK A, B : A = Holders /\ B = Holders'
  OBVIOUS
<1>5. IsFiniteSet(A) /\ IsFiniteSet(B) /\ A \ {w} = B \ {w}
  BY <1>2, <1>3, <1>4
<1>6. Cardinality(A) \in Nat /\ Cardinality(B) \in Nat
  BY <1>5, FS_CardinalityType
<1>7. (w \in A <=> w \in B) => B = A
  BY <1>5
<1>8. ASSUME w \notin A, w \in B PROVE Cardinality(B) = Cardinality(A) + 1
  <2>1. B = A \cup {w}
    BY <1>5, <1>8
  <2> QED
    BY <1>5, <1>8, <2>1, FS_AddElement
<1>9. ASSUME w \in A, w \notin B PROVE Cardinality(B) = Cardinality(A) - 1
  <2>1. B = A \ {w}
    BY <1>5, <1>9
  <2> QED
    BY <1>5, <1>9, <2>1, FS_RemoveElement
<1> QED
  BY <1>4, <1>6, <1>7, <1>8, <1>9

(* provisionWorkspace, the transaction, cleanupProvisionedWorkspace: as    *)
(* long as no worker has crashed and the provider destroys what it is told *)
(* to, every runtime workspace is the task's or in the hands of a worker,  *)
(* for every number of workers and messages.                               *)
THEOREM SessionsDoNotLeak ==
    ASSUME "destroy" \notin Faults PROVE Spec => []NoSessionLeak
<1> USE LaunchAssumption
<1>1. Init => NoSessionLeak
  <2> SUFFICES ASSUME Init PROVE NoSessionLeak
    OBVIOUS
  <2>1. { w \in Worker : pc[w] \in {"commit", "cleanup"} } = {}
    BY DEF Init
  <2> QED
    <3>1. Cardinality({ w \in Worker : pc[w] \in {"commit", "cleanup"} }) = 0
      BY <2>1, FS_EmptySet
    <3>2. (IF workspace THEN 1 ELSE 0) = 0 /\ sessions = 0
      BY DEF Init
    <3> QED
      BY <3>1, <3>2 DEF NoSessionLeak
<1>2. TypeOK /\ NoSessionLeak /\ [Next]_vars => NoSessionLeak'
  <2> SUFFICES ASSUME TypeOK, NoSessionLeak, [Next]_vars, crashes' = 0
               PROVE  sessions' = (IF workspace' THEN 1 ELSE 0) + Cardinality(Holders')
    BY DEF NoSessionLeak, Holders
  <2>0. pc \in [Worker -> Steps] /\ sessions \in Int /\ crashes \in Nat
    BY DEF TypeOK
  <2>1. ASSUME crashes = 0 PROVE sessions = (IF workspace THEN 1 ELSE 0) + Cardinality(Holders)
    BY <2>1 DEF NoSessionLeak, Holders
  <2>2. ASSUME UNCHANGED <<workspace, sessions, pc, crashes>>
        PROVE  sessions' = (IF workspace' THEN 1 ELSE 0) + Cardinality(Holders')
    <3>1. Holders' = Holders
      BY <2>2 DEF Holders
    <3> QED
      BY <2>1, <2>2, <3>1
  <2>3. CASE HandleTaskCreated \/ ApproveSpec \/ CancelTask \/ Redeliver \/ StartRun
    BY <2>2, <2>3 DEF HandleTaskCreated, ApproveSpec, CancelTask, Redeliver, StartRun
  <2>4. ASSUME NEW c \in Client, ReadStatus(c) \/ GenerateSpec(c) \/ UpdateTask(c) \/ RefuseRequest(c)
        PROVE  sessions' = (IF workspace' THEN 1 ELSE 0) + Cardinality(Holders')
    BY <2>2, <2>4 DEF ReadStatus, GenerateSpec, UpdateTask, RefuseRequest
  <2>5. ASSUME NEW r \in DOMAIN runs, TakeRun(r)
        PROVE  sessions' = (IF workspace' THEN 1 ELSE 0) + Cardinality(Holders')
    BY <2>2, <2>5 DEF TakeRun
  <2>6. ASSUME NEW w \in Worker, Deliver(w) \/ HandleTaskApproved(w) \/ Crash(w)
        PROVE  sessions' = (IF workspace' THEN 1 ELSE 0) + Cardinality(Holders')
    <3>0. ~Crash(w)
      BY <2>0 DEF Crash
    <3>1. \A v \in Worker \ {w} : pc'[v] = pc[v]
      BY <2>0, <2>6 DEF Deliver, HandleTaskApproved, Crash, publishExistingQueuedRun,
         claimApprovedTaskForInitialRun, provisionWorkspace, CommitInitialRun,
         cleanupProvisionedWorkspace, releaseInitialRunClaim, publishRunTriggered, Ack, Goto
    <3>2. crashes = 0
      BY <2>0, <2>6, <3>0 DEF Deliver, HandleTaskApproved, publishExistingQueuedRun,
         claimApprovedTaskForInitialRun, provisionWorkspace, CommitInitialRun,
         cleanupProvisionedWorkspace, releaseInitialRunClaim, publishRunTriggered, Ack
    <3>3. ASSUME UNCHANGED <<workspace, sessions>>, w \in Holders <=> w \in Holders'
          PROVE  sessions' = (IF workspace' THEN 1 ELSE 0) + Cardinality(Holders')
      BY <2>1, <3>1, <3>2, <3>3, HolderMoves
    <3>4. CASE provisionWorkspace(w)
      <4>1. CASE sessions' = sessions + 1 /\ pc'[w] = "commit"
        <5>1. w \notin Holders /\ w \in Holders'
          BY <3>4, <4>1 DEF provisionWorkspace, Holders
        <5>2. Cardinality(Holders') = Cardinality(Holders) + 1 /\ Cardinality(Holders) \in Nat
          BY <3>1, <5>1, HolderMoves
        <5>3. workspace' = workspace
          BY <3>4 DEF provisionWorkspace
        <5> QED
          BY <2>1, <3>2, <4>1, <5>2, <5>3
      <4>2. CASE sessions' = sessions /\ pc'[w] = "release"
        <5>1. w \notin Holders /\ w \notin Holders'
          BY <3>4, <4>2 DEF provisionWorkspace, Holders
        <5> QED
          BY <3>3, <3>4, <4>2, <5>1 DEF provisionWorkspace
      <4> QED
        BY <2>0, <3>4, <4>1, <4>2 DEF provisionWorkspace, Goto
    <3>5. CASE CommitInitialRun(w)
      <4>1. CASE ~workspace /\ workspace' /\ pc'[w] = "publish"
        <5>1. w \in Holders /\ w \notin Holders' /\ sessions' = sessions
          BY <3>5, <4>1 DEF CommitInitialRun, Holders
        <5>2. Cardinality(Holders') = Cardinality(Holders) - 1 /\ Cardinality(Holders) \in Nat
          BY <3>1, <5>1, HolderMoves
        <5>3. sessions = Cardinality(Holders)
          BY <2>1, <3>2, <4>1, <5>2
        <5>4. (IF workspace' THEN 1 ELSE 0) = 1
          BY <4>1
        <5> QED
          BY <5>1, <5>2, <5>3, <5>4
      <4>2. CASE workspace' = workspace /\ pc'[w] = "cleanup"
        <5>1. w \in Holders /\ w \in Holders'
          BY <3>5, <4>2 DEF CommitInitialRun, Holders
        <5> QED
          BY <3>3, <3>5, <4>2, <5>1 DEF CommitInitialRun
      <4> QED
        BY <2>0, <3>5, <4>1, <4>2, Zenon DEF CommitInitialRun, Goto, Attachable
    <3>6. CASE cleanupProvisionedWorkspace(w)
      <4>1. /\ w \in Holders /\ w \notin Holders' /\ sessions' = sessions - 1 /\ workspace' = workspace
        BY <2>0, <3>6 DEF cleanupProvisionedWorkspace, Goto, Holders
      <4>2. Cardinality(Holders') = Cardinality(Holders) - 1 /\ Cardinality(Holders) \in Nat
        BY <3>1, <4>1, HolderMoves
      <4> QED
        BY <2>1, <3>2, <4>1, <4>2
    <3>7. CASE \/ Deliver(w) \/ publishExistingQueuedRun(w) \/ claimApprovedTaskForInitialRun(w)
               \/ releaseInitialRunClaim(w) \/ publishRunTriggered(w) \/ Ack(w)
      <4>1. pc[w] \notin {"commit", "cleanup"} /\ pc'[w] \notin {"commit", "cleanup"} /\ UNCHANGED <<workspace, sessions>>
        BY <2>0, <3>7 DEF Deliver, publishExistingQueuedRun, claimApprovedTaskForInitialRun,
           releaseInitialRunClaim, publishRunTriggered, Ack, Goto
      <4> QED
        BY <3>3, <4>1 DEF Holders
    <3> QED
      BY <2>6, <3>0, <3>4, <3>5, <3>6, <3>7 DEF HandleTaskApproved
  <2>7. CASE UNCHANGED vars
    BY <2>2, <2>7 DEF vars
  <2> QED
    BY <2>3, <2>4, <2>5, <2>6, <2>7 DEF Next
<1> QED
  BY <1>1, <1>2, LaunchTypes, PTL DEF Spec

=============================================================================
