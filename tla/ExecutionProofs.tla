--------------------------- MODULE ExecutionProofs ---------------------------
(* Proofs about where and by whom a run is executed: Sessions, for every   *)
(* number of requests and restarts, and Turns, for every number of turns,  *)
(* items and faults.  The two share neither a constant nor a variable.     *)
EXTENDS Sessions, Turns, FiniteSetTheorems, TLAPS

(* What the handlers do not read again because it cannot be otherwise: a   *)
(* change has an edit, only a command runs, only a snapshot is committed,  *)
(* and only the local runtime gives the row a path.                        *)
Proper ==
    /\ row.path => mode = "local"
    /\ \A c \in Client :
          /\ req[c].op \in {"write", "patch", "exec"} => req[c].edit \in Edit
          /\ req[c].pc = "running" => req[c].op = "exec"
          /\ req[c].pc \in {"snapshot", "commit", "rev-parse"} => req[c].op = "snapshot"
          /\ req[c].path => mode = "local"
          /\ req[c].pc \in {"local", "work", "apply", "pid", "kill", "clear"} => mode = "local"

Typed == TypeOK /\ Proper

(* A client with nothing to do.                                            *)
LEMMA IdleIsRequest ==
    Idle \in Requests /\ Idle.path = FALSE /\ Idle.pc = "idle" /\ Idle.op = "none"
BY SessionsAssumption DEF Idle, Requests, Operations, Steps

(* A request that is moved, or is over, is still a request, and no other   *)
(* request changes.                                                        *)
LEMMA Moved ==
    ASSUME req \in [Client -> Requests], NEW c \in Client, NEW s \in Steps, Goto(c, s)
    PROVE  /\ req' \in [Client -> Requests]
           /\ req'[c].pc = s /\ req'[c].op = req[c].op /\ req'[c].edit = req[c].edit
           /\ req'[c].path = req[c].path /\ req'[c].before = req[c].before
           /\ req'[c].disturbed = req[c].disturbed
           /\ \A d \in Client : d # c => req'[d] = req[d]
BY DEF Goto, Requests

(* A request that is over leaves its client idle.                          *)
LEMMA Ended ==
    ASSUME req \in [Client -> Requests], NEW c \in Client, End(c)
    PROVE  /\ req' \in [Client -> Requests]
           /\ req'[c] = Idle
           /\ \A d \in Client : d # c => req'[d] = req[d]
BY IdleIsRequest DEF End

(* A step of one request that goes where a request of its kind may go.     *)
Steers(c) ==
    \/ End(c)
    \/ \E s \in Steps :
          /\ Goto(c, s)
          /\ s = "running" => req[c].op = "exec"
          /\ s \in {"snapshot", "commit", "rev-parse"} => req[c].op = "snapshot"
          /\ s \in {"local", "work", "apply", "pid", "kill", "clear"} => mode = "local"

(* Such a step keeps the types.                                            *)
LEMMA SteersWell ==
    ASSUME Typed, NEW c \in Client, Steers(c), UNCHANGED <<mode, row>>
    PROVE  req' \in [Client -> Requests] /\ Proper'
<1> USE DEF Typed, TypeOK
<1>1. CASE End(c)
  <2>1. req' \in [Client -> Requests] /\ req'[c] = Idle /\ \A d \in Client : d # c => req'[d] = req[d]
    BY <1>1, Ended
  <2> QED
    BY <2>1 DEF Proper, Idle
<1>2. ASSUME NEW s \in Steps, Goto(c, s),
             s = "running" => req[c].op = "exec",
             s \in {"snapshot", "commit", "rev-parse"} => req[c].op = "snapshot",
             s \in {"local", "work", "apply", "pid", "kill", "clear"} => mode = "local"
      PROVE  req' \in [Client -> Requests] /\ Proper'
  <2>1. /\ req' \in [Client -> Requests]
        /\ req'[c].pc = s /\ req'[c].op = req[c].op /\ req'[c].edit = req[c].edit
        /\ req'[c].path = req[c].path
        /\ \A d \in Client : d # c => req'[d] = req[d]
    BY <1>2, Moved
  <2> QED
    BY <1>2, <2>1 DEF Proper
<1> QED
  BY <1>1, <1>2 DEF Steers

(* What a change, a commit and a restore leave is a worktree.              *)
LEMMA TreesKept ==
    ASSUME TypeOK
    PROVE  /\ \A e \in Edit : Changed(e) => tree' \in Trees /\ tree'.head = tree.head /\ tree'.commits = tree.commits
           /\ [tree EXCEPT !.work = {}] \in Trees
           /\ tree' = [tree EXCEPT !.index = tree.work] =>
                 tree' \in Trees /\ tree'.head = tree.head /\ tree'.commits = tree.commits
           /\ \A h \in Nat : tree' = [tree EXCEPT !.commits = Append(@, tree.index), !.head = h] =>
                 /\ tree' \in Trees /\ tree'.head = h
                 /\ tree'.commits = Append(tree.commits, tree.index)
<1>1. tree \in Trees /\ tree.commits \in Seq(SUBSET Edit) /\ tree.index \in SUBSET Edit
  BY DEF TypeOK, Trees
<1>2. Append(tree.commits, tree.index) \in Seq(SUBSET Edit)
  BY <1>1
<1>3. ASSUME NEW h \in Nat, tree' = [tree EXCEPT !.commits = Append(@, tree.index), !.head = h]
      PROVE  tree' \in Trees /\ tree'.head = h /\ tree'.commits = Append(tree.commits, tree.index)
  BY <1>1, <1>2, <1>3 DEF Trees
<1>4. ASSUME NEW e \in Edit, Changed(e)
      PROVE  tree' \in Trees /\ tree'.head = tree.head /\ tree'.commits = tree.commits
  BY <1>1, <1>4 DEF Trees, Changed
<1>5. [tree EXCEPT !.work = {}] \in Trees
  BY <1>1 DEF Trees
<1>6. ASSUME tree' = [tree EXCEPT !.index = tree.work]
      PROVE  tree' \in Trees /\ tree'.head = tree.head /\ tree'.commits = tree.commits
  BY <1>1, <1>6 DEF Trees
<1> QED
  BY <1>3, <1>4, <1>5, <1>6

(* Every request, session and worktree is what its handler takes it for,   *)
(* whatever the runtime and wherever the process is started anew.          *)
THEOREM SessionTypes == Spec => []Typed
<1> USE SessionsAssumption
<1>1. Init => Typed
  BY DEF Init, Typed, TypeOK, Proper, Idle, Requests, Trees, Operations, Steps, AllModes, Processes, DockerSteps
<1>2. Typed /\ [Next]_vars => Typed'
  <2> SUFFICES ASSUME Typed, [Next]_vars PROVE Typed'
    OBVIOUS
  <2> USE DEF session, files, service
  <2>1. CASE Create
    <3>1. Len(StepsOf) <= 4 /\ Len(StepsOf) \in Nat
          /\ \A k \in 1..Len(StepsOf) : StepsOf[k].makes \subseteq {"dir", "worktree", "volume", "container"}
      BY DEF StepsOf, DockerSteps, LocalSteps
    <3>2. Len(DockerSteps) = 4
      BY DEF DockerSteps
    <3>3. UNCHANGED <<mode, restarted, req, files, service>>
      BY <2>1 DEF Create, CreateStep, CreateFails, CreateEnds
    <3>4. create' \in 0..5 /\ things' \subseteq {"dir", "worktree", "volume", "container"}
      BY <2>1, <3>1, <3>2 DEF Create, CreateStep, CreateFails, CreateEnds, Typed, TypeOK, Cleanup, Refusals
    <3>7. stuck' \subseteq {"dir", "worktree", "volume", "container"}
      BY <2>1, <3>1 DEF Create, CreateStep, CreateFails, CreateEnds, Typed, TypeOK, Refusals
    <3>5. known' \in [Processes -> {"absent", "ready", "running"}]
      BY <2>1 DEF Create, CreateStep, CreateFails, CreateEnds, Typed, TypeOK
    <3>6. row' \in [path : BOOLEAN, session : BOOLEAN, deleted : BOOLEAN] /\ (row'.path => mode = "local")
      BY <2>1 DEF Create, CreateStep, CreateFails, CreateEnds, Typed, TypeOK, Proper
    <3> QED
      BY <3>2, <3>3, <3>4, <3>5, <3>6, <3>7 DEF Typed, TypeOK, Proper
  <2>2. ASSUME NEW c \in Client, Request(c) PROVE Typed'
    <3>1. UNCHANGED <<mode, row, session, tree, patch, snaps, service>>
      BY <2>2 DEF Request, ListWorkspaceFiles, ReadWorkspaceFile, StartWorkspaceService, StopWorkspaceService,
         WriteWorkspaceFile, ApplyWorkspacePatch, ExecWorkspaceCommand, AskDestroy, AskHost, Ask
    <3>2. ASSUME NEW op \in Operations, NEW e \in Edit \cup {NoEdit}, Ask(c, op, e),
                 op \in {"write", "patch", "exec"} => e \in Edit
          PROVE  req' \in [Client -> Requests] /\ asked' \subseteq Edit /\ Proper'
      <4> DEFINE new == [Idle EXCEPT !.op = op, !.edit = e, !.pc = getWorkspacePath]
      <4>1. /\ new \in Requests /\ new.op = op /\ new.edit = e /\ new.path = FALSE
            /\ new.pc = getWorkspacePath
        <5>1. getWorkspacePath \in Steps
          BY DEF getWorkspacePath, Steps
        <5> QED
          BY <5>1, IdleIsRequest DEF Requests
      <4>2. req' = [req EXCEPT ![c] = new]
        BY <3>2 DEF Ask
      <4> HIDE DEF new
      <4>3. req' \in [Client -> Requests] /\ req'[c] = new /\ \A d \in Client : d # c => req'[d] = req[d]
        BY <4>1, <4>2 DEF Typed, TypeOK
      <4>4. asked' \subseteq Edit
        BY <3>2 DEF Ask, Typed, TypeOK
      <4>5. Proper'
        BY <3>1, <3>2, <4>1, <4>3 DEF Typed, Proper, getWorkspacePath
      <4> QED
        BY <4>3, <4>4, <4>5
    <3>3. ASSUME NEW new \in Requests, req' = [req EXCEPT ![c] = new], new.op \in HostOps \cup {"delete"},
                 new.pc = new.op, new.path => row.path
          PROVE  req' \in [Client -> Requests] /\ Proper'
      <4>1. req' \in [Client -> Requests] /\ req'[c] = new /\ \A d \in Client : d # c => req'[d] = req[d]
        BY <3>3 DEF Typed, TypeOK
      <4> QED
        BY <3>1, <3>3, <4>1 DEF Typed, Proper, HostOps
    <3>4. req' \in [Client -> Requests] /\ asked' \subseteq Edit /\ Proper'
      <4>1. {"list", "read", "start", "stop", "write", "patch", "exec"} \subseteq Operations
        BY DEF Operations, Gated
      <4>2. CASE ListWorkspaceFiles(c) \/ ReadWorkspaceFile(c) \/ StartWorkspaceService(c) \/ StopWorkspaceService(c)
        BY <4>1, <4>2, <3>2 DEF ListWorkspaceFiles, ReadWorkspaceFile, StartWorkspaceService, StopWorkspaceService
      <4>3. ASSUME NEW e \in Edit, WriteWorkspaceFile(c, e) \/ ApplyWorkspacePatch(c, e) \/ ExecWorkspaceCommand(c, e)
            PROVE  req' \in [Client -> Requests] /\ asked' \subseteq Edit /\ Proper'
        BY <4>1, <4>3, <3>2 DEF WriteWorkspaceFile, ApplyWorkspacePatch, ExecWorkspaceCommand
      <4>4. CASE AskDestroy(c)
        <5>1. [Idle EXCEPT !.op = "delete", !.pc = "delete", !.path = row.path] \in Requests
          BY IdleIsRequest DEF Requests, Steps, Operations, Typed, TypeOK
        <5>2. LET new == [Idle EXCEPT !.op = "delete", !.pc = "delete", !.path = row.path]
              IN  new.op = "delete" /\ new.pc = "delete" /\ new.path = row.path
          BY DEF Idle
        <5> QED
          BY <4>4, <5>1, <5>2, <3>3 DEF AskDestroy, Typed, TypeOK
      <4>5. ASSUME NEW op \in HostOps, AskHost(c, op)
            PROVE  req' \in [Client -> Requests] /\ asked' \subseteq Edit /\ Proper'
        <5>1. PICK b \in SUBSET Edit : req' = [req EXCEPT ![c] = [Idle EXCEPT !.op = op, !.pc = op, !.before = b]]
          <6>1. (IF op = "snapshot" THEN tree.work ELSE {}) \in SUBSET Edit
            BY DEF Typed, TypeOK, Trees
          <6> QED
            BY <4>5, <6>1 DEF AskHost
        <5>2. [Idle EXCEPT !.op = op, !.pc = op, !.before = b] \in Requests
          BY IdleIsRequest DEF Requests, Steps, Operations, HostOps
        <5>3. LET new == [Idle EXCEPT !.op = op, !.pc = op, !.before = b]
              IN  new.op = op /\ new.pc = op /\ new.path = FALSE
          BY DEF Idle
        <5> QED
          BY <4>5, <5>1, <5>2, <5>3, <3>3 DEF AskHost, Typed, TypeOK
      <4> QED
        BY <2>2, <4>2, <4>3, <4>4, <4>5 DEF Request
    <3> QED
      BY <3>1, <3>4 DEF Typed, TypeOK
  <2>3. ASSUME NEW c \in Client, Runtime(c) PROVE Typed'
    <3>1. UNCHANGED <<mode, row, create, things, stuck, restarted, asked, patch, snaps, service>>
      BY <2>3 DEF Runtime, getRuntimeWorkspace, AttachSession, GetStatus, RemoteCallFails, CommandEnds,
         authorizeWorkspaceOperationForWorkspace, runtimeHandler, listRuntimeWorkspaceFiles,
         readRuntimeWorkspaceFile, writeRuntimeWorkspaceFile, applyRuntimeWorkspacePatch,
         execRuntimeWorkspaceCommand, startRuntimeWorkspaceService, stopRuntimeWorkspaceService,
         ReadFile, WriteFile, ApplyPatch, ExecuteCommand
    <3>2. {"attach", "inspect", "allow", "do", "running"} \subseteq Steps /\ Granted(c) \in {"allow", "do"}
      BY DEF Steps, Granted
    <3>3. Proc(c) \in Processes /\ "api" \in Processes
      BY DEF Proc, Processes
    <3>4. \A p \in Processes, st \in {"ready", "running"} :
             setSessionStatus(p, st) => known' \in [Processes -> {"absent", "ready", "running"}]
      BY DEF setSessionStatus, Typed, TypeOK
    <3>5. CASE getRuntimeWorkspace(c) \/ AttachSession(c) \/ GetStatus(c)
               \/ authorizeWorkspaceOperationForWorkspace(c) \/ RemoteCallFails(c)
      <4>1. Steers(c)
        BY <3>5, <3>2 DEF getRuntimeWorkspace, AttachSession, GetStatus, RemoteCallFails, Steers,
           authorizeWorkspaceOperationForWorkspace
      <4>2. known' \in [Processes -> {"absent", "ready", "running"}] /\ tree' = tree
        BY <3>5 DEF getRuntimeWorkspace, AttachSession, GetStatus, RemoteCallFails,
           authorizeWorkspaceOperationForWorkspace, Typed, TypeOK
      <4> QED
        BY <3>1, <4>1, <4>2, SteersWell DEF Typed, TypeOK
    <3>6. CASE runtimeHandler(c)
      <4>1. Steers(c)
        BY <3>6, <3>2 DEF Steers, Do, runtimeHandler, listRuntimeWorkspaceFiles,
           readRuntimeWorkspaceFile, writeRuntimeWorkspaceFile, applyRuntimeWorkspacePatch,
           execRuntimeWorkspaceCommand, startRuntimeWorkspaceService, stopRuntimeWorkspaceService,
           ReadFile, WriteFile, ApplyPatch, ExecuteCommand, ParseCommandString
      <4>2. known' \in [Processes -> {"absent", "ready", "running"}]
        BY <3>6, <3>3, <3>4 DEF Do, runtimeHandler, listRuntimeWorkspaceFiles,
           readRuntimeWorkspaceFile, writeRuntimeWorkspaceFile, applyRuntimeWorkspacePatch,
           execRuntimeWorkspaceCommand, startRuntimeWorkspaceService, stopRuntimeWorkspaceService,
           ReadFile, WriteFile, ApplyPatch, ExecuteCommand, Typed, TypeOK
      <4>3. tree' = tree \/ (Changed(req[c].edit) /\ req[c].edit \in Edit)
        BY <3>6 DEF Do, runtimeHandler, listRuntimeWorkspaceFiles,
           readRuntimeWorkspaceFile, writeRuntimeWorkspaceFile, applyRuntimeWorkspacePatch,
           execRuntimeWorkspaceCommand, startRuntimeWorkspaceService, stopRuntimeWorkspaceService,
           ReadFile, WriteFile, ApplyPatch, ExecuteCommand, Typed, Proper
      <4> QED
        BY <3>1, <4>1, <4>2, <4>3, SteersWell, TreesKept DEF Typed, TypeOK
    <3>7. CASE CommandEnds(c)
      <4>1. Steers(c)
        BY <3>7 DEF Steers, CommandEnds
      <4>2. known' \in [Processes -> {"absent", "ready", "running"}]
        BY <3>7, <3>3, <3>4 DEF CommandEnds
      <4>3. tree' = tree \/ (Changed(req[c].edit) /\ req[c].edit \in Edit)
        BY <3>7 DEF CommandEnds, Typed, Proper
      <4> QED
        BY <3>1, <4>1, <4>2, <4>3, SteersWell, TreesKept DEF Typed, TypeOK
    <3> QED
      BY <2>3, <3>5, <3>6, <3>7 DEF Runtime
  <2>4. ASSUME NEW c \in Client, Host(c) PROVE Typed'
    <3>0. {"commit", "rev-parse", "volume", "forget"} \subseteq Steps
      BY DEF Steps
    <3>1. UNCHANGED <<mode, row, create, restarted, asked, patch, service>>
      BY <2>4 DEF Host, SnapshotAdd, SnapshotCommit, SnapshotReturn, Restore, DestroyContainer, DestroyVolume,
         Forget, DestroyLocal
    <3>2. CASE SnapshotAdd(c) \/ SnapshotCommit(c) \/ SnapshotReturn(c)
      <4>1. Steers(c)
        BY <3>0, <3>2 DEF SnapshotAdd, SnapshotCommit, SnapshotReturn, Steers, Typed, Proper
      <4>2. UNCHANGED session
        BY <3>2 DEF SnapshotAdd, SnapshotCommit, SnapshotReturn
      <4>3. tree' \in Trees /\ tree'.head <= Len(tree'.commits) /\ Len(tree.commits) <= Len(tree'.commits)
        <5>1. CASE tree' = tree
          <6>1. tree.commits \in Seq(SUBSET Edit)
            BY DEF Typed, TypeOK, Trees
          <6> QED
            BY <5>1, <6>1 DEF Typed, TypeOK
        <5>2. CASE tree' = [tree EXCEPT !.index = tree.work]
          <6>1. tree.commits \in Seq(SUBSET Edit)
            BY DEF Typed, TypeOK, Trees
          <6>2. tree' \in Trees /\ tree'.head = tree.head /\ tree'.commits = tree.commits
            BY <5>2, TreesKept DEF Typed
          <6> QED
            BY <6>1, <6>2 DEF Typed, TypeOK
        <5>3. CASE tree' = [tree EXCEPT !.commits = Append(@, tree.index), !.head = Len(tree.commits) + 1]
          <6>1. /\ tree.commits \in Seq(SUBSET Edit) /\ tree.index \in SUBSET Edit
                /\ Len(tree.commits) \in Nat /\ Len(tree.commits) + 1 \in Nat
            BY DEF Typed, TypeOK, Trees
          <6>2. /\ tree' \in Trees /\ tree'.head = Len(tree.commits) + 1
                /\ tree'.commits = Append(tree.commits, tree.index)
            BY <5>3, <6>1, TreesKept DEF Typed
          <6> QED
            BY <6>1, <6>2
        <5> QED
          BY <3>2, <5>1, <5>2, <5>3 DEF SnapshotAdd, SnapshotCommit, SnapshotReturn
      <4>4. snaps' \subseteq 0..Len(tree.commits)
        BY <3>2 DEF SnapshotAdd, SnapshotCommit, SnapshotReturn, Typed, TypeOK, Trees, Revision
      <4>5. snaps' \subseteq 0..Len(tree'.commits)
        BY <4>3, <4>4 DEF Typed, TypeOK, Trees
      <4> QED
        BY <3>1, <4>1, <4>2, <4>3, <4>5, SteersWell DEF Typed, TypeOK
    <3>3. CASE Restore(c)
      <4>1. UNCHANGED <<snaps, session>>
        BY <3>3 DEF Restore
      <4>2. CASE End(c) /\ UNCHANGED tree
        BY <3>1, <4>1, <4>2, SteersWell DEF Steers, Typed, TypeOK
      <4>3. ASSUME NEW s \in snaps \ {0},
                   tree' = [tree EXCEPT !.work = (@ \ tree.index) \cup tree.commits[s],
                                        !.index = tree.commits[s], !.head = s],
                   req' = [d \in Client |-> IF d = c THEN Idle
                                            ELSE [req[d] EXCEPT !.disturbed = req[d].op = "snapshot"]]
            PROVE  Typed'
        <5>1. s \in 1..Len(tree.commits) /\ tree.commits[s] \subseteq Edit
          BY <4>3 DEF Typed, TypeOK, Trees
        <5>2. tree' \in Trees /\ tree'.head = s /\ tree'.commits = tree.commits
          <6>1. (tree.work \ tree.index) \cup tree.commits[s] \in SUBSET Edit /\ s \in Nat
            BY <5>1 DEF Typed, TypeOK, Trees
          <6> QED
            BY <4>3, <5>1, <6>1 DEF Typed, TypeOK, Trees
        <5>3. req'[c] = Idle
          BY <4>3
        <5>4. ASSUME NEW d \in Client, d # c
              PROVE  /\ req'[d] \in Requests
                     /\ req'[d].pc = req[d].pc /\ req'[d].op = req[d].op
                     /\ req'[d].edit = req[d].edit /\ req'[d].path = req[d].path
          <6>1. req[d] \in Requests /\ (req[d].op = "snapshot") \in BOOLEAN
            BY DEF Typed, TypeOK
          <6>2. req'[d] = [req[d] EXCEPT !.disturbed = req[d].op = "snapshot"]
            BY <4>3, <5>4
          <6> QED
            BY <6>1, <6>2 DEF Requests
        <5>5. req' \in [Client -> Requests]
          BY <4>3, <5>3, <5>4, IdleIsRequest
        <5>6. Proper'
          BY <3>1, <5>3, <5>4, IdleIsRequest DEF Typed, Proper
        <5> QED
          BY <3>1, <4>1, <5>1, <5>2, <5>5, <5>6 DEF Typed, TypeOK
      <4> QED
        BY <3>3, <4>2, <4>3 DEF Restore
    <3>4. CASE DestroyContainer(c) \/ DestroyVolume(c) \/ Forget(c) \/ DestroyLocal(c)
      <4>1. Steers(c)
        BY <3>0, <3>4 DEF DestroyContainer, DestroyVolume, Forget, DestroyLocal, Steers
      <4>2. /\ things' \subseteq {"dir", "worktree", "volume", "container"} /\ snaps' = snaps
            /\ stuck' \subseteq {"dir", "worktree", "volume", "container"}
        BY <3>4 DEF DestroyContainer, DestroyVolume, Forget, DestroyLocal, Typed, TypeOK
      <4>3. known' \in [Processes -> {"absent", "ready", "running"}]
        BY <3>4 DEF DestroyContainer, DestroyVolume, Forget, DestroyLocal, Typed, TypeOK
      <4>4. tree' = tree \/ tree' = [tree EXCEPT !.work = {}]
        BY <3>4 DEF DestroyContainer, DestroyVolume, Forget, DestroyLocal
      <4>5. tree' \in Trees /\ tree'.head = tree.head /\ tree'.commits = tree.commits
        BY <4>4, TreesKept DEF Typed, TypeOK, Trees
      <4> QED
        BY <3>1, <4>1, <4>2, <4>3, <4>5, SteersWell DEF Typed, TypeOK
    <3> QED
      BY <2>4, <3>2, <3>3, <3>4 DEF Host
  <2>5. ASSUME NEW c \in Client, Local(c) PROVE Typed'
    <3>0. {"work", "apply", "pid", "kill", "clear"} \subseteq Steps
      BY DEF Steps
    <3>1. UNCHANGED <<mode, create, stuck, known, restarted, asked, snaps>>
      BY <2>5 DEF Local, LocalList, LocalRead, authorizeWorkspaceOperation, LocalWrite, LocalPatchFile,
         LocalApply, LocalExec, LocalStart, WritePid, LocalStop, Kill, DestroyWorkspace, RemoveWorktree
    <3>2. CASE \/ LocalList(c) \/ LocalRead(c) \/ authorizeWorkspaceOperation(c) \/ LocalWrite(c)
               \/ LocalPatchFile(c) \/ LocalApply(c) \/ LocalExec(c) \/ RemoveWorktree(c)
      <4>1. Steers(c)
        BY <3>0, <3>2 DEF LocalList, LocalRead, authorizeWorkspaceOperation, LocalWrite, LocalPatchFile,
           LocalApply, LocalExec, RemoveWorktree, Steers, Typed, Proper
      <4>2. UNCHANGED <<row, service>> /\ things' \subseteq {"dir", "worktree", "volume", "container"}
        BY <3>2 DEF LocalList, LocalRead, authorizeWorkspaceOperation, LocalWrite, LocalPatchFile,
           LocalApply, LocalExec, RemoveWorktree, Typed, TypeOK
      <4>3. patch' \in Edit \cup {NoEdit}
        BY <3>2 DEF LocalList, LocalRead, authorizeWorkspaceOperation, LocalWrite, LocalPatchFile,
           LocalApply, LocalExec, RemoveWorktree, Typed, TypeOK, Requests
      <4>4. \/ tree' = tree \/ tree' = [tree EXCEPT !.work = {}]
            \/ \E e \in Edit : Changed(e)
        BY <3>2 DEF LocalList, LocalRead, authorizeWorkspaceOperation, LocalWrite, LocalPatchFile,
           LocalApply, LocalExec, RemoveWorktree, Typed, Proper
      <4>5. tree' \in Trees /\ tree'.head = tree.head /\ tree'.commits = tree.commits
        BY <4>4, TreesKept DEF Typed, TypeOK, Trees
      <4> QED
        BY <3>1, <4>1, <4>2, <4>3, <4>5, SteersWell DEF Typed, TypeOK
    <3>3. ASSUME NEW s \in {"pid", "kill"}, NEW p \in 0..MaxPid, req[c].pc = "work",
                 req' = [req EXCEPT ![c].pc = s, ![c].pid = p], UNCHANGED row
          PROVE  req' \in [Client -> Requests] /\ Proper'
      <4>1. s \in Steps
        BY <3>0
      <4>2. /\ req' \in [Client -> Requests]
            /\ req'[c].pc = s /\ req'[c].op = req[c].op /\ req'[c].edit = req[c].edit
            /\ req'[c].path = req[c].path
            /\ \A d \in Client : d # c => req'[d] = req[d]
        <5>1. req[c] \in Requests
          BY DEF Typed, TypeOK
        <5>2. [req[c] EXCEPT !.pc = s, !.pid = p] \in Requests
          BY <4>1, <5>1 DEF Requests
        <5>3. req' = [req EXCEPT ![c] = [req[c] EXCEPT !.pc = s, !.pid = p]]
          BY <3>3 DEF Typed, TypeOK
        <5>4. req'[c] = [req[c] EXCEPT !.pc = s, !.pid = p]
          BY <5>3 DEF Typed, TypeOK
        <5> QED
          BY <5>1, <5>2, <5>3, <5>4 DEF Typed, TypeOK, Requests
      <4> QED
        BY <3>1, <3>3, <4>2 DEF Typed, Proper
    <3>4. CASE LocalStart(c) \/ WritePid(c) \/ LocalStop(c) \/ Kill(c)
      <4>1. UNCHANGED <<row, things, tree, patch>>
        BY <3>4 DEF LocalStart, WritePid, LocalStop, Kill
      <4>2. CASE End(c)
        <5>1. req' \in [Client -> Requests] /\ Proper'
          BY <3>1, <4>1, <4>2, SteersWell DEF Steers
        <5>2. alive' \subseteq 1..MaxPid /\ pidfile' \in 0..MaxPid
          BY <3>4 DEF LocalStart, WritePid, LocalStop, Kill, Typed, TypeOK, Requests
        <5> QED
          BY <3>1, <4>1, <5>1, <5>2 DEF Typed, TypeOK
      <4>3. CASE LocalStart(c) /\ ~End(c)
        <5>1. PICK p \in 1..MaxPid : alive' = alive \cup {p} /\ req' = [req EXCEPT ![c].pc = "pid", ![c].pid = p]
          BY <4>3, Zenon DEF LocalStart
        <5>2. req' \in [Client -> Requests] /\ Proper'
          <6>1. req[c].pc = "work" /\ "pid" \in {"pid", "kill"} /\ row' = row
            BY <4>1, <4>3, Zenon DEF LocalStart
          <6>2. p \in 0..MaxPid
            OBVIOUS
          <6> QED
            BY <5>1, <6>1, <6>2, <3>3, Zenon
        <5> QED
          BY <3>1, <4>1, <4>3, <5>1, <5>2 DEF LocalStart, Typed, TypeOK
      <4>4. CASE LocalStop(c) /\ ~End(c)
        <5>1. req' \in [Client -> Requests] /\ Proper'
          BY <4>1, <4>4, <3>3 DEF LocalStop, Typed, TypeOK
        <5> QED
          BY <3>1, <4>1, <4>4, <5>1 DEF LocalStop, Typed, TypeOK
      <4> QED
        BY <3>4, <4>2, <4>3, <4>4, Zenon DEF WritePid, Kill
    <3>5. CASE DestroyWorkspace(c)
      <4>1. UNCHANGED <<session, files, service>> /\ row' \in [path : BOOLEAN, session : BOOLEAN, deleted : BOOLEAN]
            /\ (row'.path => mode = "local")
        <5>1. UNCHANGED <<session, files, service>>
              /\ row' \in {row, [path |-> FALSE, session |-> FALSE, deleted |-> TRUE]}
          <6>1. row' = row \/ row' = [path |-> FALSE, session |-> FALSE, deleted |-> TRUE]
            BY <3>5, Zenon DEF DestroyWorkspace
          <6>2. UNCHANGED <<session, files, service>>
            BY <3>5, Zenon DEF DestroyWorkspace
          <6> QED
            BY <6>1, <6>2
        <5>2. [path |-> FALSE, session |-> FALSE, deleted |-> TRUE]
                 \in [path : BOOLEAN, session : BOOLEAN, deleted : BOOLEAN]
          OBVIOUS
        <5>3. CASE row' = row
          BY <5>1, <5>3 DEF Typed, TypeOK, Proper
        <5>4. CASE row' = [path |-> FALSE, session |-> FALSE, deleted |-> TRUE]
          BY <5>1, <5>2, <5>4
        <5> QED
          BY <5>1, <5>3, <5>4
      <4>2. req' \in [Client -> Requests]
        BY <3>0, <3>5, Moved, Ended DEF DestroyWorkspace, Typed, TypeOK
      <4>3. /\ req'[c] = Idle \/ (req'[c].pc = "clear" /\ req'[c].op = req[c].op /\ req'[c].edit = req[c].edit
                                  /\ req'[c].path = req[c].path /\ req[c].path)
            /\ \A d \in Client : d # c => req'[d] = req[d]
        BY <3>0, <3>5, Moved, Ended DEF DestroyWorkspace, Typed, TypeOK
      <4>4. Proper'
        BY <3>1, <4>1, <4>3, IdleIsRequest DEF Typed, Proper
      <4> QED
        BY <3>1, <4>1, <4>2, <4>4 DEF Typed, TypeOK
    <3> QED
      BY <2>5, <3>2, <3>4, <3>5 DEF Local
  <2>6. ASSUME NEW p \in 1..MaxPid, ServiceExits(p) PROVE Typed'
    BY <2>6 DEF ServiceExits, Typed, TypeOK, Proper
  <2>7. ASSUME NEW p \in Processes, Restart(p) PROVE Typed'
    <3>2. req' \in [Client -> Requests] /\ \A c \in Client : req'[c] = Idle \/ req'[c] = req[c]
      BY <2>7, IdleIsRequest DEF Restart, Typed, TypeOK
    <3>3. Proper'
      BY <2>7, <3>2 DEF Restart, Typed, Proper, Idle
    <3>4. UNCHANGED <<mode, row, things, stuck, files, service>>
          /\ create' \in {0, create} /\ restarted' \subseteq Processes
          /\ known' \in [Processes -> {"absent", "ready", "running"}]
      BY <2>7 DEF Restart, Typed, TypeOK
    <3>5. Len(DockerSteps) = 4
      BY DEF DockerSteps
    <3> QED
      BY <3>2, <3>3, <3>4, <3>5 DEF Typed, TypeOK
  <2>8. CASE UNCHANGED vars
    BY <2>8 DEF vars, Typed, TypeOK, Proper
  <2> QED
    BY <2>1, <2>2, <2>3, <2>4, <2>5, <2>6, <2>7, <2>8 DEF Next
<1> QED
  BY <1>1, <1>2, PTL DEF Spec

-----------------------------------------------------------------------------
(* Frames: what the steps of a request leave alone.                        *)

(* Where a request is that the host serves by itself.                      *)
HostSteps == {"snapshot", "commit", "rev-parse", "restore", "destroy", "volume", "forget"}

OthersStay(c) == \A d \in Client : d # c => req'[d] = req[d]

(* A request that is made waits for the row, or the host knows the session.*)
LEMMA RequestFrame ==
    ASSUME Typed, NEW c \in Client, Request(c)
    PROVE  /\ UNCHANGED <<mode, create, things, stuck, known, restarted, tree>> /\ OthersStay(c)
           /\ req[c].pc = "idle"
           /\ \/ req'[c].pc \in {"local", "load", "delete"}
              \/ /\ req'[c].pc \in HostOps /\ known["host"] # "absent"
                 /\ req'[c].pc = "snapshot" => req'[c].before = tree.work
<1>1. UNCHANGED <<mode, create, things, stuck, known, restarted, tree>> /\ req[c].pc = "idle"
  BY DEF Request, ListWorkspaceFiles, ReadWorkspaceFile, StartWorkspaceService, StopWorkspaceService,
     WriteWorkspaceFile, ApplyWorkspacePatch, ExecWorkspaceCommand, AskDestroy, AskHost, Ask, session, files
<1>2. PICK new : req' = [req EXCEPT ![c] = new]
  BY DEF Request, ListWorkspaceFiles, ReadWorkspaceFile, StartWorkspaceService, StopWorkspaceService,
     WriteWorkspaceFile, ApplyWorkspacePatch, ExecWorkspaceCommand, AskDestroy, AskHost, Ask
<1>3. OthersStay(c)
  BY <1>2 DEF OthersStay, Typed, TypeOK
<1>4. ASSUME NEW op, NEW e, Ask(c, op, e) PROVE req'[c].pc \in {"local", "load", "delete"}
  BY <1>4 DEF Ask, Idle, getWorkspacePath, Typed, TypeOK
<1>5. CASE AskDestroy(c)
  <2>1. req'[c].pc \in {"local", "load", "delete"}
    BY <1>5 DEF AskDestroy, Idle, Typed, TypeOK
  <2> QED
    BY <1>1, <1>3, <2>1
<1>6. ASSUME NEW op \in HostOps, AskHost(c, op)
      PROVE  /\ req'[c].pc \in HostOps /\ known["host"] # "absent"
             /\ req'[c].pc = "snapshot" => req'[c].before = tree.work
  BY <1>6 DEF AskHost, Idle, Typed, TypeOK
<1> QED
  BY <1>1, <1>3, <1>4, <1>5, <1>6 DEF Request, ListWorkspaceFiles, ReadWorkspaceFile, StartWorkspaceService,
     StopWorkspaceService, WriteWorkspaceFile, ApplyWorkspacePatch, ExecWorkspaceCommand

(* The runtime's handlers make nothing and remove nothing, make changes    *)
(* only, and a session they leave as running is left by a command that has *)
(* begun.                                                                  *)
LEMMA RuntimeFrame ==
    ASSUME Typed, NEW c \in Client, Runtime(c)
    PROVE  /\ UNCHANGED <<mode, create, things, stuck, restarted>> /\ OthersStay(c)
           /\ req[c].pc \notin HostSteps /\ req'[c].pc \notin HostSteps
           /\ tree.work \subseteq tree'.work
           /\ tree'.index = tree.index /\ tree'.head = tree.head /\ tree'.commits = tree.commits
           /\ known'["host"] = "absent" <=> known["host"] = "absent"
           /\ req[c].pc = "running" => known'[Proc(c)] # "running"
           /\ \A p \in Processes : known'[p] = "running" =>
                 known[p] = "running" \/ (req'[c].pc = "running" /\ req'[c].op = req[c].op /\ Proc(c) = p)
<1> USE SessionsAssumption
<1>1. Proc(c) \in Processes /\ "api" \in Processes /\ "host" \in Processes
  BY DEF Proc, Processes
<1>2. {"attach", "inspect", "allow", "do", "running"} \subseteq Steps /\ Granted(c) \in {"allow", "do"}
  BY DEF Steps, Granted
<1>3. UNCHANGED <<mode, create, things, stuck, restarted>>
  BY DEF Runtime, getRuntimeWorkspace, AttachSession, GetStatus, RemoteCallFails, CommandEnds,
     authorizeWorkspaceOperationForWorkspace, runtimeHandler, listRuntimeWorkspaceFiles,
     readRuntimeWorkspaceFile, writeRuntimeWorkspaceFile, applyRuntimeWorkspacePatch,
     execRuntimeWorkspaceCommand, startRuntimeWorkspaceService, stopRuntimeWorkspaceService,
     ReadFile, WriteFile, ApplyPatch, ExecuteCommand, session
<1>4. ASSUME Goto(c, "attach") \/ Goto(c, "inspect") \/ Goto(c, Granted(c)) \/ Goto(c, "do") \/ End(c)
      PROVE  OthersStay(c) /\ req'[c].pc \notin HostSteps /\ req'[c].pc # "running"
  BY <1>2, <1>4, Moved, Ended, IdleIsRequest DEF OthersStay, Typed, TypeOK, HostSteps
<1>5. tree' = tree => /\ tree.work \subseteq tree'.work /\ tree'.index = tree.index
                      /\ tree'.head = tree.head /\ tree'.commits = tree.commits
  OBVIOUS
<1>6. \A e \in Edit : Changed(e) => /\ tree.work \subseteq tree'.work /\ tree'.index = tree.index
                                    /\ tree'.head = tree.head /\ tree'.commits = tree.commits
  BY DEF Changed, Typed, TypeOK, Trees
<1>7. CASE getRuntimeWorkspace(c) \/ AttachSession(c) \/ GetStatus(c)
           \/ authorizeWorkspaceOperationForWorkspace(c) \/ RemoteCallFails(c)
  <2>1. OthersStay(c) /\ req'[c].pc \notin HostSteps /\ req'[c].pc # "running"
    BY <1>4, <1>7 DEF getRuntimeWorkspace, AttachSession, GetStatus, RemoteCallFails,
       authorizeWorkspaceOperationForWorkspace
  <2>2. tree' = tree /\ req[c].pc \notin HostSteps /\ req[c].pc # "running"
    BY <1>7 DEF getRuntimeWorkspace, AttachSession, GetStatus, RemoteCallFails,
       authorizeWorkspaceOperationForWorkspace, files, HostSteps
  <2>3. known' \in {known, [known EXCEPT !["api"] = "ready"], [known EXCEPT !["api"] = "absent"]}
    BY <1>7 DEF getRuntimeWorkspace, AttachSession, GetStatus, RemoteCallFails,
       authorizeWorkspaceOperationForWorkspace, session
  <2>4. known'["host"] = known["host"] /\ \A p \in Processes : known'[p] = "running" => known[p] = "running"
    BY <2>3, <1>1 DEF Typed, TypeOK
  <2> QED
    BY <1>3, <1>5, <2>1, <2>2, <2>4
<1>8. CASE CommandEnds(c)
  <2>1. OthersStay(c) /\ req'[c].pc \notin HostSteps
    BY <1>4, <1>8 DEF CommandEnds
  <2>2. req[c].pc \notin HostSteps
    BY <1>8 DEF CommandEnds, HostSteps
  <2>3. \/ tree' = tree
        \/ Changed(req[c].edit) /\ req[c].edit \in Edit
    BY <1>8 DEF CommandEnds, Typed, Proper
  <2>4. setSessionStatus(Proc(c), "ready")
    BY <1>8 DEF CommandEnds
  <2>5. /\ known'["host"] = "absent" <=> known["host"] = "absent"
        /\ known'[Proc(c)] # "running"
        /\ \A p \in Processes : known'[p] = "running" => known[p] = "running"
    BY <2>4, <1>1 DEF setSessionStatus, Typed, TypeOK
  <2> QED
    BY <1>3, <1>5, <1>6, <2>1, <2>2, <2>3, <2>5
<1>9. ASSUME NEW script \in BOOLEAN, req[c].pc = "do", ExecuteCommand(c, script)
      PROVE  /\ OthersStay(c) /\ req'[c].pc \notin HostSteps /\ tree' = tree
             /\ known'["host"] = "absent" <=> known["host"] = "absent"
             /\ \A p \in Processes : known'[p] = "running" =>
                  known[p] = "running" \/ (req'[c].pc = "running" /\ req'[c].op = req[c].op /\ Proc(c) = p)
  <2>1. tree' = tree
    BY <1>9 DEF ExecuteCommand, files
  <2>2. CASE End(c) /\ UNCHANGED known
    BY <2>1, <2>2, <1>4
  <2>3. CASE Goto(c, "running") /\ setSessionStatus(Proc(c), "running")
    <3>1. OthersStay(c) /\ req'[c].pc = "running" /\ req'[c].op = req[c].op
      BY <2>3, <1>2, Moved DEF OthersStay, Typed, TypeOK
    <3>2. /\ known'["host"] = "absent" <=> known["host"] = "absent"
          /\ \A p \in Processes : known'[p] = "running" => known[p] = "running" \/ Proc(c) = p
      BY <2>3, <1>1 DEF setSessionStatus, Typed, TypeOK
    <3> QED
      BY <2>1, <3>1, <3>2 DEF HostSteps
  <2> QED
    BY <1>9, <2>2, <2>3, Zenon DEF ExecuteCommand
<1>10. CASE runtimeHandler(c)
  <2>1. req[c].pc = "do" /\ "do" \notin HostSteps
    BY <1>10 DEF Do, runtimeHandler, listRuntimeWorkspaceFiles,
       readRuntimeWorkspaceFile, writeRuntimeWorkspaceFile, applyRuntimeWorkspacePatch,
       execRuntimeWorkspaceCommand, startRuntimeWorkspaceService, stopRuntimeWorkspaceService, HostSteps
  <2>2. CASE \E script \in BOOLEAN : ExecuteCommand(c, script)
    BY <1>3, <1>5, <1>9, <2>1, <2>2
  <2>3. CASE ReadFile(c) \/ (req[c].op \in {"write", "patch"} /\ (WriteFile(c) \/ ApplyPatch(c)))
    <3>1. End(c) /\ known' = known
      BY <2>3 DEF ReadFile, WriteFile, ApplyPatch, session
    <3>2. \/ tree' = tree
          \/ Changed(req[c].edit) /\ req[c].edit \in Edit
      BY <2>3 DEF ReadFile, WriteFile, ApplyPatch, files, Typed, Proper
    <3> QED
      BY <1>3, <1>4, <1>5, <1>6, <2>1, <3>1, <3>2
  <2> QED
    BY <1>10, <2>2, <2>3 DEF Do, runtimeHandler, listRuntimeWorkspaceFiles,
       readRuntimeWorkspaceFile, writeRuntimeWorkspaceFile, applyRuntimeWorkspacePatch,
       execRuntimeWorkspaceCommand, startRuntimeWorkspaceService, stopRuntimeWorkspaceService
<1> QED
  BY <1>7, <1>8, <1>10 DEF Runtime

(* The API does nothing to the worktree of a runtime of another kind.      *)
LEMMA LocalFrame ==
    ASSUME Typed, NEW c \in Client, Local(c), mode # "local"
    PROVE  /\ UNCHANGED <<mode, create, things, stuck, known, restarted, tree>> /\ OthersStay(c)
           /\ req[c].pc = "delete" /\ req'[c] = Idle
<1>1. DestroyWorkspace(c)
  BY DEF Local, LocalList, LocalRead, authorizeWorkspaceOperation, LocalWrite, LocalPatchFile,
     LocalApply, LocalExec, LocalStart, WritePid, LocalStop, Kill, RemoveWorktree, Typed, Proper
<1>2. End(c) /\ req[c].pc = "delete"
  BY <1>1 DEF DestroyWorkspace, Typed, Proper
<1>3. UNCHANGED <<mode, create, things, stuck, known, restarted, tree>>
  BY <1>1, Zenon DEF DestroyWorkspace, session, files
<1> QED
  BY <1>2, <1>3, Ended DEF OthersStay, Typed, TypeOK

-----------------------------------------------------------------------------
(* Nothing outlives its session.                                           *)

(* The host serves a session it has made, and DestroyWorkspace forgets it  *)
(* when the container and the volume are gone: nothing makes another.      *)
Undone ==
    mode # "local" =>
        /\ "worktree" \notin things
        /\ create # 0 => known["host"] = "absent"
        /\ \A c \in Client :
              /\ req[c].pc \in HostSteps => create = 0
              /\ req[c].pc \in {"volume", "forget"} => "container" \notin things
              /\ req[c].pc = "forget" => "volume" \notin things

Destroyable == Undone /\ NothingOutlivesItsSession

(* A directory, volume or container exists only while CreateWorkspace is   *)
(* at work or the host knows the session that DestroyWorkspace needs,      *)
(* unless the code has ignored that its removal failed.                    *)
THEOREM SessionsLeaveNothing == Spec => []NothingOutlivesItsSession
<1> USE SessionsAssumption
<1>1. Init => Destroyable
  BY DEF Init, Destroyable, Undone, NothingOutlivesItsSession, Idle, HostSteps, Processes
<1>2. Typed /\ Destroyable /\ [Next]_vars => Destroyable'
  <2> SUFFICES ASSUME Typed, Destroyable, [Next]_vars PROVE Destroyable'
    OBVIOUS
  <2> USE DEF Destroyable
  <2>0. {"volume", "forget"} \subseteq HostSteps /\ HostOps \subseteq HostSteps
        /\ {"local", "load", "delete", "idle"} \cap HostSteps = {}
        /\ HostOps \cap {"volume", "forget"} = {}
        /\ "host" \in Processes
    BY DEF HostSteps, HostOps, Processes
  <2>1. CASE Create
    <3>1. UNCHANGED <<mode, req, restarted>> /\ create # 0
      BY <2>1 DEF Create, CreateStep, CreateFails, CreateEnds, StepsOf, DockerSteps, LocalSteps
    <3>2. \A k \in 1..Len(DockerSteps) : "worktree" \notin DockerSteps[k].makes
      BY DEF DockerSteps
    <3>3. mode # "local" => "worktree" \notin things'
      BY <2>1, <3>2 DEF Create, CreateStep, CreateFails, CreateEnds, StepsOf, Cleanup, Refusals, Undone
    <3>4. mode # "local" => (create' # 0 => known'["host"] = "absent")
      BY <2>1 DEF Create, CreateStep, CreateFails, CreateEnds, Undone
    <3>5. mode # "local" => things' \ stuck' = {} \/ create' # 0 \/ known'["host"] # "absent"
      BY <2>1, <2>0 DEF Create, CreateStep, CreateFails, CreateEnds, Cleanup, Typed, TypeOK
    <3> QED
      BY <2>0, <3>1, <3>3, <3>4, <3>5 DEF Undone, NothingOutlivesItsSession
  <2>2. ASSUME NEW c \in Client, Request(c) PROVE Destroyable'
    BY <2>0, <2>2, RequestFrame DEF OthersStay, Undone, NothingOutlivesItsSession
  <2>3. ASSUME NEW c \in Client, Runtime(c) PROVE Destroyable'
    BY <2>0, <2>3, RuntimeFrame DEF OthersStay, Undone, NothingOutlivesItsSession
  <2>4. ASSUME NEW c \in Client, Host(c) PROVE Destroyable'
    <3>1. CASE SnapshotAdd(c) \/ SnapshotCommit(c) \/ SnapshotReturn(c) \/ Restore(c)
      <4>1. UNCHANGED <<mode, create, things, stuck, known, restarted>> /\ req[c].pc \in HostSteps
        BY <3>1 DEF SnapshotAdd, SnapshotCommit, SnapshotReturn, Restore, session, HostSteps
      <4>2. req'[c].pc \notin {"volume", "forget"} /\ \A d \in Client : d # c => req'[d].pc = req[d].pc
        <5>1. CASE Restore(c) /\ ~End(c)
          <6>1. req' = [d \in Client |-> IF d = c THEN Idle ELSE [req[d] EXCEPT !.disturbed = req[d].op = "snapshot"]]
            BY <5>1 DEF Restore
          <6> QED
            BY <6>1, IdleIsRequest DEF Typed, TypeOK, Requests
        <5>2. CASE Goto(c, "commit") \/ Goto(c, "rev-parse") \/ End(c)
          BY <5>2, Moved, Ended, IdleIsRequest DEF Steps, Typed, TypeOK
        <5> QED
          BY <3>1, <5>1, <5>2 DEF SnapshotAdd, SnapshotCommit, SnapshotReturn
      <4> QED
        BY <4>1, <4>2 DEF Undone, NothingOutlivesItsSession
    <3>2. CASE DestroyContainer(c)
      <4>1. /\ UNCHANGED <<mode, create, stuck, known, restarted>> /\ req[c].pc = "destroy"
            /\ \/ things' = things \ {"container"} /\ Goto(c, "volume")
               \/ End(c) /\ UNCHANGED things
        BY <3>2 DEF DestroyContainer
      <4>2. /\ \A d \in Client : d # c => req'[d].pc = req[d].pc
            /\ req'[c].pc \in HostSteps => things' = things \ {"container"}
            /\ req'[c].pc # "forget"
        BY <4>1, Moved, Ended, IdleIsRequest DEF Steps, HostSteps, Typed, TypeOK
      <4>3. things' \subseteq things /\ create' = create /\ (mode # "local" => create = 0)
        BY <4>1 DEF Undone, HostSteps
      <4> QED
        BY <2>0, <4>1, <4>2, <4>3 DEF Undone, NothingOutlivesItsSession
    <3>3. CASE DestroyVolume(c)
      <4>1. /\ UNCHANGED <<mode, create, stuck, known, restarted>> /\ req[c].pc = "volume"
            /\ \/ things' = things \ {"volume"} /\ Goto(c, "forget")
               \/ End(c) /\ UNCHANGED things
        BY <3>3 DEF DestroyVolume
      <4>2. /\ \A d \in Client : d # c => req'[d].pc = req[d].pc
            /\ req'[c].pc \in HostSteps => things' = things \ {"volume"}
        BY <4>1, Moved, Ended, IdleIsRequest DEF Steps, HostSteps, Typed, TypeOK
      <4>3. things' \subseteq things /\ (mode # "local" => create = 0 /\ "container" \notin things)
        BY <4>1 DEF Undone, HostSteps
      <4> QED
        BY <2>0, <4>1, <4>2, <4>3 DEF Undone, NothingOutlivesItsSession
    <3>4. CASE Forget(c)
      <4>1. /\ UNCHANGED <<mode, create, restarted>> /\ req[c].pc = "forget" /\ End(c)
            /\ things' \subseteq things /\ things' \ stuck' \subseteq things \ {"dir"}
            /\ known'["host"] = "absent"
        BY <2>0, <3>4 DEF Forget, Typed, TypeOK
      <4>2. mode # "local" => things' \ stuck' = {}
        BY <4>1 DEF Undone, Typed, TypeOK
      <4>3. req'[c].pc = "idle" /\ \A d \in Client : d # c => req'[d].pc = req[d].pc
        BY <4>1, Ended, IdleIsRequest DEF Typed, TypeOK
      <4> QED
        BY <2>0, <4>1, <4>2, <4>3 DEF Undone, NothingOutlivesItsSession
    <3>5. CASE DestroyLocal(c)
      BY <3>5 DEF DestroyLocal, Undone, NothingOutlivesItsSession
    <3> QED
      BY <2>4, <3>1, <3>2, <3>3, <3>4, <3>5 DEF Host
  <2>5. ASSUME NEW c \in Client, Local(c) PROVE Destroyable'
    <3>1. mode' = mode
      BY <2>5 DEF Local, LocalList, LocalRead, authorizeWorkspaceOperation, LocalWrite, LocalPatchFile,
         LocalApply, LocalExec, LocalStart, WritePid, LocalStop, Kill, DestroyWorkspace, RemoveWorktree
    <3>2. CASE mode = "local"
      BY <3>1, <3>2 DEF Undone, NothingOutlivesItsSession
    <3>3. CASE mode # "local"
      BY <2>0, <2>5, <3>3, LocalFrame, IdleIsRequest DEF OthersStay, Undone, NothingOutlivesItsSession
    <3> QED
      BY <3>2, <3>3
  <2>6. ASSUME NEW p \in 1..MaxPid, ServiceExits(p) PROVE Destroyable'
    BY <2>6 DEF ServiceExits, session, Undone, NothingOutlivesItsSession
  <2>7. ASSUME NEW p \in Processes, Restart(p) PROVE Destroyable'
    <3>1. UNCHANGED <<mode, things, stuck>> /\ restarted' = restarted \cup {p} /\ create' = (IF p = "host" THEN 0 ELSE create)
          /\ known' = [known EXCEPT ![p] = "absent"]
      BY <2>7 DEF Restart
    <3>2. \A c \in Client : req'[c] = Idle \/ req'[c] = req[c]
      BY <2>7 DEF Restart
    <3> QED
      BY <2>0, <3>1, <3>2, IdleIsRequest DEF Undone, NothingOutlivesItsSession, Typed, TypeOK
  <2>8. CASE UNCHANGED vars
    BY <2>8 DEF vars, session, Undone, NothingOutlivesItsSession
  <2> QED
    BY <2>1, <2>2, <2>3, <2>4, <2>5, <2>6, <2>7, <2>8 DEF Next
<1>3. Destroyable => NothingOutlivesItsSession
  BY DEF Destroyable
<1> QED
  BY <1>1, <1>2, <1>3, SessionTypes, PTL DEF Spec

-----------------------------------------------------------------------------
(* A session that reads as running.                                        *)

(* The commands of a process, and what a step of one request does to them. *)
LEMMA CommandsStay ==
    ASSUME BusyOnlyWhileCommand, NEW c \in Client,
           mode' = mode, \A d \in Client : d # c => req'[d].pc = req[d].pc /\ req'[d].op = req[d].op,
           req[c].pc = "running" => known'[Proc(c)] # "running",
           \A p \in Processes : known'[p] = "running" =>
              known[p] = "running" \/ (req'[c].pc = "running" /\ req'[c].op = req[c].op /\ Proc(c) = p)
    PROVE  BusyOnlyWhileCommand'
<1> SUFFICES ASSUME mode # "local", NEW p \in Processes, known'[p] = "running"
             PROVE  \E d \in Client : req'[d].pc = "running" /\ (Proc(d) = p)'
  BY DEF BusyOnlyWhileCommand
<1>1. \A d \in Client : req'[d].op = req[d].op => (Proc(d) = p)' = (Proc(d) = p)
  BY DEF Proc
<1>2. CASE req'[c].pc = "running" /\ req'[c].op = req[c].op /\ Proc(c) = p
  BY <1>1, <1>2
<1>3. CASE known[p] = "running"
  <2>1. PICK d \in Client : req[d].pc = "running" /\ Proc(d) = p
    BY <1>3 DEF BusyOnlyWhileCommand
  <2>2. d # c
    BY <2>1
  <2> QED
    BY <1>1, <2>1, <2>2
<1> QED
  BY <1>2, <1>3

(* A session that reads as running has a command under way, in the process *)
(* that has it in its map: of several requests that attach, run, time out  *)
(* and destroy, the one that ends last sets it back.                       *)
THEOREM RunningIsACommand == Spec => []BusyOnlyWhileCommand
<1> USE SessionsAssumption
<1>1. Init => BusyOnlyWhileCommand
  BY DEF Init, BusyOnlyWhileCommand
<1>2. Typed /\ BusyOnlyWhileCommand /\ [Next]_vars => BusyOnlyWhileCommand'
  <2> SUFFICES ASSUME Typed, BusyOnlyWhileCommand, [Next]_vars PROVE BusyOnlyWhileCommand'
    OBVIOUS
  <2>1. CASE Create
    <3>1. UNCHANGED <<mode, req>> /\ known' \in {known, [known EXCEPT !["host"] = "ready"]}
      BY <2>1 DEF Create, CreateStep, CreateFails, CreateEnds
    <3> QED
      BY <3>1 DEF BusyOnlyWhileCommand, Proc, Typed, TypeOK
  <2>2. ASSUME NEW c \in Client, Request(c) PROVE BusyOnlyWhileCommand'
    BY <2>2, RequestFrame, CommandsStay DEF OthersStay
  <2>3. ASSUME NEW c \in Client, Runtime(c) PROVE BusyOnlyWhileCommand'
    BY <2>3, RuntimeFrame, CommandsStay DEF OthersStay
  <2>4. ASSUME NEW c \in Client, Host(c) PROVE BusyOnlyWhileCommand'
    <3>1. mode' = mode /\ req[c].pc # "running" /\ known' \in {known, [known EXCEPT !["host"] = "absent"]}
      BY <2>4 DEF Host, SnapshotAdd, SnapshotCommit, SnapshotReturn, Restore, DestroyContainer,
         DestroyVolume, Forget, DestroyLocal, session
    <3>2. \A d \in Client : d # c => req'[d].pc = req[d].pc /\ req'[d].op = req[d].op
      <4>1. CASE Restore(c) /\ ~End(c)
        <5>1. req' = [d \in Client |-> IF d = c THEN Idle ELSE [req[d] EXCEPT !.disturbed = req[d].op = "snapshot"]]
          BY <4>1 DEF Restore
        <5> QED
          BY <5>1 DEF Typed, TypeOK, Requests
      <4>2. CASE End(c)
        BY <4>2, Ended DEF Typed, TypeOK
      <4>3. ASSUME NEW s \in Steps, Goto(c, s)
            PROVE  \A d \in Client : d # c => req'[d].pc = req[d].pc /\ req'[d].op = req[d].op
        BY <4>3, Moved DEF Typed, TypeOK
      <4>4. {"commit", "rev-parse", "volume", "forget"} \subseteq Steps
        BY DEF Steps
      <4> QED
        BY <2>4, <4>1, <4>2, <4>3, <4>4 DEF Host, SnapshotAdd, SnapshotCommit, SnapshotReturn,
           DestroyContainer, DestroyVolume, Forget, DestroyLocal
    <3>3. \A p \in Processes : known'[p] = "running" => known[p] = "running"
      BY <3>1 DEF Typed, TypeOK
    <3> QED
      BY <3>1, <3>2, <3>3, CommandsStay
  <2>5. ASSUME NEW c \in Client, Local(c) PROVE BusyOnlyWhileCommand'
    <3>1. mode' = mode
      BY <2>5 DEF Local, LocalList, LocalRead, authorizeWorkspaceOperation, LocalWrite, LocalPatchFile,
         LocalApply, LocalExec, LocalStart, WritePid, LocalStop, Kill, DestroyWorkspace, RemoveWorktree
    <3>2. CASE mode = "local"
      BY <3>1, <3>2 DEF BusyOnlyWhileCommand
    <3>3. CASE mode # "local"
      BY <2>5, <3>3, LocalFrame, CommandsStay DEF OthersStay
    <3> QED
      BY <3>2, <3>3
  <2>6. ASSUME NEW p \in 1..MaxPid, ServiceExits(p) PROVE BusyOnlyWhileCommand'
    BY <2>6 DEF ServiceExits, session, BusyOnlyWhileCommand, Proc
  <2>7. ASSUME NEW p \in Processes, Restart(p) PROVE BusyOnlyWhileCommand'
    <3>1. mode' = mode /\ known' = [known EXCEPT ![p] = "absent"]
          /\ req' = [c \in Client |-> IF At(c) = p THEN Idle ELSE req[c]]
      BY <2>7 DEF Restart
    <3> SUFFICES ASSUME mode # "local", NEW q \in Processes, known'[q] = "running"
                 PROVE  \E c \in Client : req'[c].pc = "running" /\ (Proc(c) = q)'
      BY <3>1 DEF BusyOnlyWhileCommand
    <3>2. q # p /\ known[q] = "running"
      BY <3>1 DEF Typed, TypeOK
    <3>3. PICK c \in Client : req[c].pc = "running" /\ Proc(c) = q
      BY <3>2 DEF BusyOnlyWhileCommand
    <3>4. req[c].op \notin HostOps
      BY <3>3 DEF Typed, Proper, HostOps
    <3>5. At(c) = q
      BY <3>3, <3>4 DEF At, Processes
    <3>6. req'[c] = req[c]
      BY <3>1, <3>2, <3>5
    <3> QED
      BY <3>1, <3>3, <3>6 DEF Proc
  <2>8. CASE UNCHANGED vars
    BY <2>8 DEF vars, session, BusyOnlyWhileCommand, Proc
  <2> QED
    BY <2>1, <2>2, <2>3, <2>4, <2>5, <2>6, <2>7, <2>8 DEF Next
<1> QED
  BY <1>1, <1>2, SessionTypes, PTL DEF Spec

-----------------------------------------------------------------------------
(* Snapshots.                                                              *)

(* What a snapshot keeps at each of its steps: git add takes what is in the*)
(* worktree, git commit what is in the index, and the last revision is that*)
(* of the last commit, this one or a later one.                            *)
Keeping(c) ==
    LET r == req[c]
    IN  /\ r.before \subseteq tree.work
        /\ r.pc \in {"commit", "rev-parse"} => r.before \subseteq tree.index
        /\ r.pc = "rev-parse" => tree.head # 0 /\ r.before \subseteq tree.commits[tree.head]

KeepingInv ==
    mode # "local" =>
        \A c \in Client : req[c].pc \in {"snapshot", "commit", "rev-parse"} /\ ~req[c].disturbed => Keeping(c)

(* A step that only adds to the worktree leaves what a snapshot keeps, of  *)
(* the requests that it leaves where they are.                             *)
LEMMA KeepingStays ==
    ASSUME KeepingInv, NEW c \in Client, mode' = mode, OthersStay(c),
           tree.work \subseteq tree'.work, tree'.index = tree.index, tree'.head = tree.head,
           tree'.commits = tree.commits,
           mode # "local" /\ req'[c].pc \in {"snapshot", "commit", "rev-parse"} /\ ~req'[c].disturbed => Keeping(c)'
    PROVE  KeepingInv'
<1> SUFFICES ASSUME mode # "local", NEW d \in Client, d # c,
                    req'[d].pc \in {"snapshot", "commit", "rev-parse"}, ~req'[d].disturbed
             PROVE  Keeping(d)'
  BY DEF KeepingInv
<1>1. req'[d] = req[d]
  BY DEF OthersStay
<1>2. Keeping(d)
  BY <1>1 DEF KeepingInv
<1> QED
  BY <1>1, <1>2 DEF Keeping

(* The snapshot that is about to be returned holds what was in the worktree*)
(* when it was asked for, whatever edits and snapshots came between its    *)
(* three commands, unless a restore did.                                   *)
THEOREM SnapshotsKeepWork == Spec => []SnapshotKeepsWork
<1> USE SessionsAssumption
<1>1. Init => KeepingInv
  BY DEF Init, KeepingInv, Idle
<1>2. Typed /\ KeepingInv /\ [Next]_vars => KeepingInv'
  <2> SUFFICES ASSUME Typed, KeepingInv, [Next]_vars PROVE KeepingInv'
    OBVIOUS
  <2>0. tree \in Trees /\ tree.work \subseteq Edit /\ tree.index \in SUBSET Edit /\ Len(tree.commits) \in Nat
        /\ tree.commits \in Seq(SUBSET Edit) /\ tree.head \in Nat
    BY DEF Typed, TypeOK, Trees
  <2>1. CASE Create
    <3>1. UNCHANGED <<mode, req, tree>>
      BY <2>1 DEF Create, CreateStep, CreateFails, CreateEnds, files
    <3> QED
      BY <3>1 DEF KeepingInv, Keeping
  <2>2. ASSUME NEW c \in Client, Request(c) PROVE KeepingInv'
    <3>1. /\ mode' = mode /\ tree' = tree /\ OthersStay(c)
          /\ req'[c].pc \in {"snapshot", "commit", "rev-parse"} =>
                req'[c].pc = "snapshot" /\ req'[c].before = tree.work
      BY <2>2, RequestFrame DEF HostOps
    <3>2. req'[c].pc \in {"snapshot", "commit", "rev-parse"} => Keeping(c)'
      BY <3>1 DEF Keeping
    <3> QED
      BY <3>1, <3>2, KeepingStays
  <2>3. ASSUME NEW c \in Client, Runtime(c) PROVE KeepingInv'
    <3>1. req'[c].pc \notin {"snapshot", "commit", "rev-parse"}
      BY <2>3, RuntimeFrame DEF HostSteps
    <3> QED
      BY <2>3, <3>1, RuntimeFrame, KeepingStays
  <2>4. ASSUME NEW c \in Client, Host(c) PROVE KeepingInv'
    <3>0. {"commit", "rev-parse", "volume", "forget"} \subseteq Steps
      BY DEF Steps
    <3>1. ASSUME End(c), mode' = mode, tree' = tree PROVE KeepingInv'
      <4>1. OthersStay(c) /\ req'[c].pc = "idle"
        BY <3>1, Ended, IdleIsRequest DEF OthersStay, Typed, TypeOK
      <4> QED
        BY <3>1, <4>1, KeepingStays
    <3>2. CASE SnapshotAdd(c)
      <4> SUFFICES ASSUME ~(End(c) /\ tree' = tree) PROVE KeepingInv'
        BY <3>1, <3>2 DEF SnapshotAdd
      <4>1. mode' = mode /\ tree' = [tree EXCEPT !.index = tree.work] /\ Goto(c, "commit") /\ req[c].pc = "snapshot"
        BY <3>2, Zenon DEF SnapshotAdd
      <4>2. /\ tree'.work = tree.work /\ tree'.index = tree.work /\ tree'.head = tree.head
            /\ tree'.commits = tree.commits
        BY <2>0, <4>1 DEF Trees
      <4>3. /\ req'[c].pc = "commit" /\ req'[c].before = req[c].before /\ req'[c].disturbed = req[c].disturbed
            /\ \A d \in Client : d # c => req'[d] = req[d]
        BY <3>0, <4>1, Moved DEF Typed, TypeOK
      <4> SUFFICES ASSUME mode # "local", NEW d \in Client, ~req'[d].disturbed,
                          req'[d].pc \in {"snapshot", "commit", "rev-parse"}
                   PROVE  Keeping(d)'
        BY <4>1 DEF KeepingInv
      <4>4. Keeping(d) /\ req'[d].before = req[d].before
        BY <4>1, <4>3 DEF KeepingInv
      <4>5. req'[d].pc = "rev-parse" => req[d].pc = "rev-parse"
        BY <4>3
      <4> QED
        BY <4>2, <4>4, <4>5 DEF Keeping
    <3>3. CASE SnapshotCommit(c)
      <4> SUFFICES ASSUME ~(End(c) /\ tree' = tree) PROVE KeepingInv'
        BY <3>1, <3>3 DEF SnapshotCommit
      <4>1. /\ mode' = mode /\ Goto(c, "rev-parse") /\ req[c].pc = "commit"
            /\ tree' = [tree EXCEPT !.commits = Append(@, tree.index), !.head = Len(tree.commits) + 1]
        BY <3>3, Zenon DEF SnapshotCommit
      <4>2. /\ tree'.work = tree.work /\ tree'.index = tree.index /\ tree'.head = Len(tree.commits) + 1
            /\ tree'.commits = Append(tree.commits, tree.index)
        BY <2>0, <4>1 DEF Trees
      <4>3. tree'.head # 0 /\ tree'.commits[tree'.head] = tree.index
        BY <2>0, <4>2
      <4>4. /\ req'[c].pc = "rev-parse" /\ req'[c].before = req[c].before /\ req'[c].disturbed = req[c].disturbed
            /\ \A d \in Client : d # c => req'[d] = req[d]
        BY <3>0, <4>1, Moved DEF Typed, TypeOK
      <4> SUFFICES ASSUME mode # "local", NEW d \in Client, ~req'[d].disturbed,
                          req'[d].pc \in {"snapshot", "commit", "rev-parse"}
                   PROVE  Keeping(d)'
        BY <4>1 DEF KeepingInv
      <4>5. Keeping(d) /\ req'[d].before = req[d].before
        BY <4>1, <4>4 DEF KeepingInv
      <4>6. req'[d].pc \in {"commit", "rev-parse"} => req[d].pc \in {"commit", "rev-parse"}
        BY <4>1, <4>4
      <4> QED
        BY <4>2, <4>3, <4>5, <4>6 DEF Keeping
    <3>4. CASE SnapshotReturn(c)
      BY <3>1, <3>4 DEF SnapshotReturn
    <3>5. CASE Restore(c)
      <4> SUFFICES ASSUME ~(End(c) /\ tree' = tree) PROVE KeepingInv'
        BY <3>1, <3>5 DEF Restore, session
      <4>1. mode' = mode /\ req' = [d \in Client |-> IF d = c THEN Idle
                                                   ELSE [req[d] EXCEPT !.disturbed = req[d].op = "snapshot"]]
        BY <3>5, Zenon DEF Restore, session
      <4>2. ASSUME NEW d \in Client, req'[d].pc \in {"snapshot", "commit", "rev-parse"} PROVE req'[d].disturbed
        <5>1. d # c /\ req'[d] = [req[d] EXCEPT !.disturbed = req[d].op = "snapshot"]
          BY <4>1, <4>2, IdleIsRequest
        <5>2. req'[d].pc = req[d].pc /\ req'[d].disturbed = (req[d].op = "snapshot")
          BY <5>1 DEF Typed, TypeOK, Requests
        <5> QED
          BY <4>2, <5>2 DEF Typed, Proper
      <4> QED
        BY <4>2 DEF KeepingInv
    <3>6. CASE DestroyContainer(c) \/ DestroyVolume(c) \/ Forget(c)
      <4>1. mode' = mode /\ tree' = tree
        BY <3>6 DEF DestroyContainer, DestroyVolume, Forget, files
      <4>2. ASSUME NEW s \in {"volume", "forget"}, Goto(c, s) PROVE KeepingInv'
        <5>1. s \in Steps
          BY <3>0
        <5>2. OthersStay(c) /\ req'[c].pc = s
          BY <4>2, <5>1, Moved DEF OthersStay, Typed, TypeOK
        <5> QED
          BY <4>1, <4>2, <5>2, KeepingStays
      <4> QED
        BY <3>1, <3>6, <4>1, <4>2 DEF DestroyContainer, DestroyVolume, Forget
    <3>7. CASE DestroyLocal(c)
      BY <3>7 DEF DestroyLocal, KeepingInv
    <3> QED
      BY <2>4, <3>2, <3>3, <3>4, <3>5, <3>6, <3>7 DEF Host
  <2>5. ASSUME NEW c \in Client, Local(c) PROVE KeepingInv'
    <3>1. mode' = mode
      BY <2>5 DEF Local, LocalList, LocalRead, authorizeWorkspaceOperation, LocalWrite, LocalPatchFile,
         LocalApply, LocalExec, LocalStart, WritePid, LocalStop, Kill, DestroyWorkspace, RemoveWorktree
    <3>2. CASE mode = "local"
      BY <3>1, <3>2 DEF KeepingInv
    <3>3. CASE mode # "local"
      <4>1. tree' = tree /\ OthersStay(c) /\ req'[c].pc = "idle"
        BY <2>5, <3>3, LocalFrame, IdleIsRequest
      <4> QED
        BY <3>1, <4>1, KeepingStays
    <3> QED
      BY <3>2, <3>3
  <2>6. ASSUME NEW p \in 1..MaxPid, ServiceExits(p) PROVE KeepingInv'
    BY <2>6 DEF ServiceExits, files, KeepingInv, Keeping
  <2>7. ASSUME NEW p \in Processes, Restart(p) PROVE KeepingInv'
    <3>1. mode' = mode /\ tree' = tree /\ \A c \in Client : req'[c] = Idle \/ req'[c] = req[c]
      BY <2>7 DEF Restart, files
    <3> QED
      BY <3>1, IdleIsRequest DEF KeepingInv, Keeping
  <2>8. CASE UNCHANGED vars
    BY <2>8 DEF vars, files, KeepingInv, Keeping
  <2> QED
    BY <2>1, <2>2, <2>3, <2>4, <2>5, <2>6, <2>7, <2>8 DEF Next
<1>3. KeepingInv => SnapshotKeepsWork
  BY DEF KeepingInv, Keeping, SnapshotKeepsWork, Revision
<1> QED
  BY <1>1, <1>2, <1>3, SessionTypes, PTL DEF Spec

-----------------------------------------------------------------------------
(* Turns: the requests of the agent and the decisions it gets.             *)

AgentStates  == {"off", "working", "ended", "dead"}
Phases       == {"new", "started", "asked", "decided", "finished"}
HandlerSteps == {"idle", "read", "mark", "send", "final", "turn", "resume"}
Launching    == {"thread", "bind", "start"}

SupervisorSteps == {"idle", "thread", "bind", "start", "mark", "watch"}

Supervisions == [pc : SupervisorSteps, signaled : BOOLEAN]

Agents == [state : AgentStates, begun : 0..MaxTurns, id : Nat, prompts : Nat,
           phase : [Item -> Phases], settled : BOOLEAN]

(* What the way of a request is made of.                                   *)
ChannelTypes ==
    /\ agent \in Agents
    /\ requests \in Seq(Key) /\ pending \subseteq Key /\ sent \in [Key -> Seq(Responses)]
    /\ given \in [Key -> SUBSET Responses] /\ answers \subseteq Key \X Responses
    /\ handler \in [Responses -> [pc : HandlerSteps, key : Key \cup {NoKey}]]
    /\ sup \in Supervisions
    /\ sup.pc \in Launching => agent.begun < MaxTurns
    /\ Working => agent.begun # 0

(* The agent may still ask about the item: in a turn to come, or in the one*)
(* it is at work on.                                                       *)
Unasked(k) ==
    \/ k[1] > agent.begun
    \/ k[1] = agent.begun /\ Working /\ agent.phase[k[2]] \in {"new", "started"}

Waits(k) == \E n \in DOMAIN requests : requests[n] = k

(* A request is in one place: not made, in the channel, pending, answered. *)
InOnePlace ==
    /\ \A m, n \in DOMAIN requests : requests[m] = requests[n] => m = n
    /\ \A k \in Key :
          /\ Unasked(k) => ~Waits(k) /\ k \notin pending /\ sent[k] = <<>>
          /\ Waits(k) => k \notin pending /\ sent[k] = <<>>
          /\ k \in pending => sent[k] = <<>>
          /\ Len(sent[k]) <= 1

(* What a handler is at work on, and what it has sent, was given by people.*)
GivenByPeople ==
    /\ \A x \in answers : x[2] \in given[x[1]]
    /\ \A r \in Responses : handler[r].pc # "idle" => handler[r].key \in Key /\ r \in given[handler[r].key]
    /\ \A k \in Key : \A n \in DOMAIN sent[k] : sent[k][n] \in given[k]

DecisionInv == ChannelTypes /\ InOnePlace /\ GivenByPeople

(* What a decision depends on, and the steps that touch nothing of it.     *)
decision == <<agent, requests, pending, sent, given, answers, handler>>

(* Where a step of the supervisor leads.                                   *)
LEMMA SupervisorMoves ==
    ASSUME sup \in Supervisions
    PROVE  /\ \A s \in SupervisorSteps : GoesOn(s) => sup' \in Supervisions /\ sup'.pc = s
           /\ sup' = [sup EXCEPT !.signaled = TRUE] => sup' \in Supervisions /\ sup'.pc = sup.pc
           /\ sup' = Unwatched => sup' \in Supervisions /\ sup'.pc = "idle"
           /\ sup' = [pc |-> "watch", signaled |-> FALSE] => sup' \in Supervisions /\ sup'.pc = "watch"
<1>1. \A s \in SupervisorSteps : GoesOn(s) => sup' \in Supervisions /\ sup'.pc = s
  BY DEF GoesOn, Supervisions
<1>2. sup' = [sup EXCEPT !.signaled = TRUE] => sup' \in Supervisions /\ sup'.pc = sup.pc
  BY DEF Supervisions
<1>3. sup' = Unwatched => sup' \in Supervisions /\ sup'.pc = "idle"
  BY DEF Supervisions, SupervisorSteps, Unwatched
<1>4. sup' = [pc |-> "watch", signaled |-> FALSE] => sup' \in Supervisions /\ sup'.pc = "watch"
  BY DEF Supervisions, SupervisorSteps
<1> QED
  BY <1>1, <1>2, <1>3, <1>4

(* A step elsewhere keeps the invariant.                                   *)
LEMMA Elsewhere ==
    ASSUME DecisionInv, UNCHANGED decision,
           sup' \in Supervisions,
           sup'.pc \in Launching => sup.pc \in Launching \/ agent.begun < MaxTurns
    PROVE  DecisionInv'
<1>1. ChannelTypes'
  BY DEF DecisionInv, ChannelTypes, decision, Working
<1>2. InOnePlace'
  BY DEF DecisionInv, InOnePlace, decision, Waits, Unasked, Working
<1>3. GivenByPeople'
  BY DEF DecisionInv, GivenByPeople, decision
<1> QED
  BY <1>1, <1>2, <1>3 DEF DecisionInv

(* A key names a turn and an item of it.                                   *)
LEMMA KeyIs == Key = (1..MaxTurns) \X Item /\ \A k \in Key : k[1] \in 1..MaxTurns /\ k[2] \in Item
BY DEF Key

(* A step of the agent: it goes on, and asks nothing it has not asked yet. *)
LEMMA AgentGoesOn ==
    ASSUME DecisionInv, agent' \in Agents, agent'.begun = agent.begun, Working' => Working,
           UNCHANGED <<requests, pending, sent, given, answers, handler, sup>>,
           \A k \in Key : Unasked(k)' => Unasked(k)
    PROVE  DecisionInv'
<1>1. ChannelTypes'
  BY DEF DecisionInv, ChannelTypes
<1>2. InOnePlace'
  BY DEF DecisionInv, InOnePlace, Waits
<1>3. GivenByPeople'
  BY DEF DecisionInv, GivenByPeople
<1> QED
  BY <1>1, <1>2, <1>3 DEF DecisionInv

(* A handler goes to another step, or is done with its message.            *)
LEMMA HandlerGoesOn ==
    ASSUME DecisionInv, NEW r \in Responses,
           UNCHANGED <<agent, requests, pending, sent, given, sup>>,
           \/ Done(r)
           \/ answers' = answers /\ \E s \in HandlerSteps : Handles(r, s) /\ handler[r].pc # "idle"
    PROVE  DecisionInv'
<1>0. ChannelTypes /\ GivenByPeople
  BY DEF DecisionInv
<1>1. /\ handler' \in [Responses -> [pc : HandlerSteps, key : Key \cup {NoKey}]]
      /\ \A q \in Responses : handler'[q].pc = "idle" \/ (handler[q].pc # "idle" /\ handler'[q].key = handler[q].key)
      /\ answers' \subseteq answers
  <2>1. CASE Done(r)
    <3>1. [pc |-> "idle", key |-> NoKey] \in [pc : HandlerSteps, key : Key \cup {NoKey}]
      BY DEF HandlerSteps
    <3> QED
      BY <1>0, <2>1, <3>1 DEF Done, ChannelTypes
  <2>2. ASSUME NEW s \in HandlerSteps, Handles(r, s), handler[r].pc # "idle", answers' = answers
        PROVE  /\ handler' \in [Responses -> [pc : HandlerSteps, key : Key \cup {NoKey}]]
               /\ \A q \in Responses : handler'[q].pc = "idle"
                                      \/ (handler[q].pc # "idle" /\ handler'[q].key = handler[q].key)
    BY <1>0, <2>2 DEF Handles, ChannelTypes
  <2> QED
    BY <2>1, <2>2
<1>2. ChannelTypes'
  BY <1>0, <1>1 DEF ChannelTypes, Working
<1>3. InOnePlace'
  BY DEF DecisionInv, InOnePlace, Waits, Unasked, Working
<1>4. GivenByPeople'
  BY <1>0, <1>1 DEF GivenByPeople
<1> QED
  BY <1>2, <1>3, <1>4 DEF DecisionInv

(* A request of the agent is answered at most once and by what a person    *)
(* said of it (DecidedOnce), for every number of turns, items and faults.  *)
(* SendDecision takes the key out of pending before it writes, and only    *)
(* streamTurn puts a key there, out of requests, which holds it once; so a *)
(* key is in one place of four, and moves through them in one direction.   *)
THEOREM DecisionsAreSingle == TurnsSpec => []DecidedOnce
<1> USE TurnsAssumption
<1>1. TurnsInit => DecisionInv
  <2> SUFFICES ASSUME TurnsInit PROVE DecisionInv
    OBVIOUS
  <2>1. agent \in Agents /\ agent.begun = 0 /\ agent.state = "off"
    BY DEF TurnsInit, Asleep, Agents, AgentStates, Phases
  <2>2. ChannelTypes
    BY <2>1 DEF TurnsInit, ChannelTypes, Unwatched, HandlerSteps, Launching, Supervisions, SupervisorSteps, Working
  <2>3. requests = <<>> /\ pending = {} /\ \A k \in Key : sent[k] = <<>>
    BY DEF TurnsInit
  <2>4. InOnePlace
    BY <2>3 DEF InOnePlace, Waits
  <2>5. GivenByPeople
    BY <2>3 DEF TurnsInit, GivenByPeople
  <2> QED
    BY <2>2, <2>4, <2>5 DEF DecisionInv
<1>2. DecisionInv /\ [TurnsNext]_turnsVars => DecisionInv'
  <2> SUFFICES ASSUME DecisionInv, [TurnsNext]_turnsVars PROVE DecisionInv'
    OBVIOUS
  <2>0. ChannelTypes /\ InOnePlace /\ GivenByPeople
    BY DEF DecisionInv
  <2>k. agent \in Agents /\ agent.begun \in 0..MaxTurns /\ agent.phase \in [Item -> Phases]
    BY <2>0 DEF ChannelTypes, Agents
  <2>s. /\ sup \in Supervisions
        /\ \A s \in SupervisorSteps : GoesOn(s) => sup' \in Supervisions /\ sup'.pc = s
        /\ sup' = [sup EXCEPT !.signaled = TRUE] => sup' \in Supervisions /\ sup'.pc = sup.pc
        /\ sup' = Unwatched => sup' \in Supervisions /\ sup'.pc = "idle"
        /\ sup' = [pc |-> "watch", signaled |-> FALSE] => sup' \in Supervisions /\ sup'.pc = "watch"
    BY <2>0, SupervisorMoves DEF ChannelTypes
  <2>1. ASSUME NEW i \in Item, StartItem(i) \/ FinishItem(i) PROVE DecisionInv'
    <3>1. PICK ph \in {"started", "finished"} : Phase(i, ph) /\ (ph = "started" => agent.phase[i] = "new")
      BY <2>1 DEF StartItem, FinishItem
    <3>2. agent' \in Agents /\ agent'.begun = agent.begun /\ agent'.state = agent.state
          /\ agent'.phase = [agent.phase EXCEPT ![i] = ph]
      BY <2>k, <3>1 DEF Phase, Agents, Phases
    <3>3. \A k \in Key : Unasked(k)' => Unasked(k)
      BY <2>k, <3>1, <3>2, KeyIs DEF Unasked, Working
    <3>4. UNCHANGED <<requests, pending, sent, given, answers, handler, sup>>
      BY <2>1 DEF StartItem, FinishItem, store, process
    <3> QED
      BY <3>2, <3>3, <3>4, AgentGoesOn DEF Working
  <2>2. ASSUME NEW i \in Item, RequestApproval(i) PROVE DecisionInv'
    <3>1. Working /\ agent.phase[i] = "started" /\ Phase(i, "asked") /\ EmitRequest(KeyOf(i))
      BY <2>2, Zenon DEF RequestApproval
    <3>2. UNCHANGED <<pending, sent, given, answers, handler, sup>>
      BY <2>2, Zenon DEF RequestApproval, store, process
    <3>3. agent' \in Agents /\ agent'.begun = agent.begun /\ agent'.state = agent.state
          /\ agent'.phase = [agent.phase EXCEPT ![i] = "asked"]
      BY <2>k, <3>1 DEF Phase, Agents, Phases
    <3>4. KeyOf(i) \in Key /\ Unasked(KeyOf(i))
      BY <2>0, <2>k, <3>1, KeyIs DEF KeyOf, Unasked, ChannelTypes
    <3>5. \A k \in Key : Unasked(k)' => Unasked(k) /\ k # KeyOf(i)
      BY <2>k, <3>1, <3>3, KeyIs DEF Unasked, Working, KeyOf
    <3>6. CASE requests' = requests
      BY <3>2, <3>3, <3>5, <3>6, AgentGoesOn DEF Working
    <3>7. CASE requests' = Append(requests, KeyOf(i))
      <4> DEFINE key == KeyOf(i)
      <4>0. key \in Key /\ requests \in Seq(Key)
        BY <2>0, <3>4 DEF ChannelTypes
      <4> HIDE DEF key
      <4>1. /\ requests' \in Seq(Key) /\ DOMAIN requests' = 1..(Len(requests) + 1)
            /\ requests'[Len(requests) + 1] = key /\ \A n \in DOMAIN requests : requests'[n] = requests[n]
            /\ DOMAIN requests = 1..Len(requests) /\ Len(requests) \in Nat
        BY <3>7, <4>0 DEF key
      <4>2. ~Waits(key) /\ key \notin pending /\ sent[key] = <<>>
        BY <2>0, <3>4 DEF InOnePlace, key
      <4>3. \A k \in Key : Waits(k)' <=> Waits(k) \/ k = key
        BY <4>1 DEF Waits
      <4>4. \A m, n \in DOMAIN requests' : requests'[m] = requests'[n] => m = n
        BY <2>0, <4>1, <4>2 DEF InOnePlace, Waits
      <4>5. InOnePlace'
        BY <2>0, <3>2, <3>5, <4>2, <4>3, <4>4 DEF InOnePlace, key
      <4>6. ChannelTypes'
        BY <2>0, <3>2, <3>3, <4>1 DEF ChannelTypes, Working
      <4>7. GivenByPeople'
        BY <2>0, <3>2 DEF GivenByPeople
      <4> QED
        BY <4>5, <4>6, <4>7 DEF DecisionInv
    <3> QED
      BY <3>1, <3>6, <3>7 DEF EmitRequest
  <2>3. ASSUME (\E status \in Ends : EndTurn(status)) \/ SettleSession \/ Close PROVE DecisionInv'
    <3>1. /\ agent' \in Agents /\ agent'.begun = agent.begun /\ agent'.phase = agent.phase
          /\ Working' => Working
      BY <2>k, <2>3 DEF EndTurn, SettleSession, Close, Agents, AgentStates, Working
    <3>2. UNCHANGED <<requests, pending, sent, given, answers, handler, sup>>
      BY <2>3 DEF EndTurn, SettleSession, Close, store, process
    <3>3. \A k \in Key : Unasked(k)' => Unasked(k)
      BY <3>1 DEF Unasked
    <3> QED
      BY <3>1, <3>2, <3>3, AgentGoesOn
  <2>4. CASE ExecuteExternalRun \/ persistThreadID \/ ResumeThread \/ markStarted \/ TimeOut
    <3>1. UNCHANGED decision
      BY <2>4 DEF ExecuteExternalRun, persistThreadID, ResumeThread, markStarted, TimeOut, decision,
         store, process, outside
    <3>2. \/ sup' = sup \/ sup' = [sup EXCEPT !.signaled = TRUE] \/ sup' = [pc |-> "watch", signaled |-> FALSE]
          \/ GoesOn("idle")
          \/ \E step \in Launching : GoesOn(step) /\ (sup.pc \in Launching \/ agent.begun < MaxTurns)
      <4>1. CASE ExecuteExternalRun
        BY <4>1 DEF ExecuteExternalRun, Launching
      <4>2. CASE persistThreadID \/ ResumeThread
        BY <4>2 DEF persistThreadID, ResumeThread, Launching
      <4>3. CASE markStarted \/ TimeOut
        BY <4>3 DEF markStarted, TimeOut
      <4> QED
        BY <2>4, <4>1, <4>2, <4>3
    <3>3. /\ sup' \in Supervisions
          /\ sup'.pc \in Launching => sup.pc \in Launching \/ agent.begun < MaxTurns
      BY <2>s, <3>2 DEF SupervisorSteps, Launching
    <3> QED
      BY <3>1, <3>3, Elsewhere
  <2>5. CASE CreateThread
    <3>1. UNCHANGED <<requests, pending, sent, given, answers, handler>> /\ sup.pc = "thread"
      BY <2>5 DEF CreateThread, process
    <3>2. GoesOn("bind") \/ GoesOn("idle")
      BY <2>5 DEF CreateThread
    <3>3. /\ sup' \in Supervisions
          /\ agent.begun < MaxTurns
      BY <2>0, <2>s, <3>1, <3>2 DEF SupervisorSteps, ChannelTypes, Launching
    <3>4. agent' = agent \/ agent' = [Asleep EXCEPT !.begun = agent.begun]
      BY <2>5 DEF CreateThread, codexCreateThread, ompCreateThread
    <3>5. CASE agent' = agent
      BY <3>1, <3>3, <3>5, Elsewhere DEF decision
    <3>6. CASE agent' = [Asleep EXCEPT !.begun = agent.begun]
      <4>1. agent' \in Agents /\ agent'.begun = agent.begun /\ agent'.state = "off"
        BY <2>k, <3>6 DEF Asleep, Agents, AgentStates, Phases
      <4>2. \A k \in Key : Unasked(k)' => Unasked(k)
        BY <4>1 DEF Unasked, Working
      <4>3. ChannelTypes'
        BY <2>0, <3>1, <3>3, <4>1 DEF ChannelTypes, Working
      <4>4. InOnePlace'
        BY <2>0, <3>1, <4>2 DEF InOnePlace, Waits
      <4>5. GivenByPeople'
        BY <2>0, <3>1 DEF GivenByPeople
      <4> QED
        BY <4>3, <4>4, <4>5 DEF DecisionInv
    <3> QED
      BY <3>4, <3>5, <3>6
  <2>6. CASE RunTurn
    <3>1. UNCHANGED <<pending, sent, given, answers, handler>> /\ sup.pc = "start"
      BY <2>6 DEF RunTurn, store, process, outside
    <3>2. agent.begun < MaxTurns
      BY <2>0, <3>1 DEF ChannelTypes, Launching
    <3>3. CASE UNCHANGED <<process, outside>> /\ GoesOn("idle")
      <4>1. sup' \in Supervisions /\ sup'.pc = "idle"
        BY <2>s, <3>3 DEF SupervisorSteps
      <4> QED
        BY <3>1, <3>2, <3>3, <4>1, Elsewhere DEF decision, outside
    <3>4. ASSUME NEW id \in Nat, NEW invoked \in BOOLEAN, Begun(id, invoked), requests' = <<>>, GoesOn("mark")
          PROVE  DecisionInv'
      <4>1. sup' \in Supervisions /\ sup'.pc = "mark"
        BY <2>s, <3>4 DEF SupervisorSteps
      <4>2. agent' \in Agents /\ agent'.begun = agent.begun + 1
        <5>1. Asleep \in Agents
          BY DEF Asleep, Agents, AgentStates, Phases
        <5>2. agent.begun + 1 \in 0..MaxTurns /\ agent.prompts + 1 \in Nat
          BY <2>k, <3>2 DEF Agents
        <5>3. PICK st \in {"working", "ended"} :
                 agent' = [Asleep EXCEPT !.state = st, !.begun = agent.begun + 1, !.id = id,
                                         !.prompts = agent.prompts + 1]
          BY <3>4 DEF Begun
        <5> QED
          BY <5>1, <5>2, <5>3 DEF Agents, AgentStates
      <4>3. \A k \in Key : Unasked(k)' => Unasked(k)
        BY <2>k, <4>2, KeyIs DEF Unasked
      <4>4. ChannelTypes'
        BY <2>0, <2>k, <3>1, <3>4, <4>1, <4>2 DEF ChannelTypes, Working, Launching
      <4>5. InOnePlace'
        BY <2>0, <3>1, <3>4, <4>3 DEF InOnePlace, Waits
      <4>6. GivenByPeople'
        BY <2>0, <3>1 DEF GivenByPeople
      <4> QED
        BY <4>4, <4>5, <4>6 DEF DecisionInv
    <3>5. agent.begun + 1 \in Nat /\ agent.prompts + 1 \in Nat
      BY <2>0 DEF ChannelTypes, Agents
    <3> QED
      BY <2>6, <3>3, <3>4, <3>5 DEF RunTurn, codexRunTurn, ompRunTurn
  <2>7. CASE StreamStart \/ StreamNotInvoked \/ StreamNote \/ StreamStops
    <3>1. UNCHANGED <<agent, pending, sent, given, answers, handler, sup>> /\ requests' \in {requests, <<>>}
      <4>1. CASE StreamStart
        BY <4>1, Zenon DEF StreamStart, store, outside
      <4>2. CASE StreamNotInvoked
        BY <4>2, Zenon DEF StreamNotInvoked, Unsubscribe, store
      <4>3. CASE StreamNote
        <5>1. UNCHANGED <<agent, pending, sent, given, answers, handler, sup>>
          BY <4>3, Zenon DEF StreamNote, store
        <5>2. requests' \in {requests, <<>>}
          BY <4>3, Zenon DEF StreamNote, codexStream, ompStream, Pass, Unsubscribe
        <5> QED
          BY <5>1, <5>2
      <4>4. CASE StreamStops
        BY <4>4, Zenon DEF StreamStops, Unsubscribe, store
      <4> QED
        BY <2>7, <4>1, <4>2, <4>3, <4>4
    <3>2. ChannelTypes' /\ GivenByPeople'
      <4>1. requests \in Seq(Key) /\ << >> \in Seq(Key)
        BY <2>0 DEF ChannelTypes
      <4>2. requests' \in Seq(Key)
        BY <3>1, <4>1, Zenon
      <4> QED
        BY <2>0, <3>1, <4>2 DEF ChannelTypes, GivenByPeople, Working
    <3>3. InOnePlace'
      BY <2>0, <3>1 DEF InOnePlace, Waits, Unasked, Working
    <3> QED
      BY <3>2, <3>3 DEF DecisionInv
  <2>8. CASE StreamRequest
    <3> DEFINE key == Head(requests)
    <3>1. UNCHANGED <<agent, sent, given, answers, handler, sup>> /\ requests # <<>>
          /\ pending' = pending \cup {key} /\ requests' = Tail(requests)
      BY <2>8 DEF StreamRequest, store
    <3>2. /\ key \in Key /\ key = requests[1] /\ 1 \in DOMAIN requests
          /\ requests' \in Seq(Key) /\ DOMAIN requests = 1..Len(requests) /\ DOMAIN requests' = 1..(Len(requests) - 1)
          /\ Len(requests) \in Nat
          /\ \A n \in DOMAIN requests' : n + 1 \in DOMAIN requests /\ requests'[n] = requests[n + 1]
      BY <2>0, <3>1 DEF ChannelTypes
    <3> HIDE DEF key
    <3>3. Waits(key)
      BY <3>2 DEF Waits
    <3>4. sent[key] = <<>> /\ ~Unasked(key)
      BY <2>0, <3>2, <3>3 DEF InOnePlace
    <3>5. \A k \in Key : Waits(k)' => Waits(k) /\ k # key
      BY <2>0, <3>2 DEF Waits, InOnePlace
    <3>6. \A m, n \in DOMAIN requests' : requests'[m] = requests'[n] => m = n
      BY <2>0, <3>2 DEF InOnePlace
    <3>7. \A k \in Key : Unasked(k)' <=> Unasked(k)
      BY <3>1 DEF Unasked, Working
    <3>8. InOnePlace'
      BY <2>0, <3>1, <3>4, <3>5, <3>6, <3>7 DEF InOnePlace
    <3>9. ChannelTypes' /\ GivenByPeople'
      BY <2>0, <3>1, <3>2 DEF ChannelTypes, GivenByPeople, Working
    <3> QED
      BY <3>8, <3>9 DEF DecisionInv
  <2>9. CASE RecordStep \/ SuperviseStep
    <3>1. UNCHANGED decision
      BY <2>9 DEF RecordStep, persistEvent, InsertApproval, PauseRun, Forward, RecorderEnds, SuperviseStep,
         Suspend, SkipEvent, completeRun, failRun, Unwritten, decision, store, outside
    <3>2. sup' = sup \/ sup' = [sup EXCEPT !.signaled = TRUE] \/ sup' = Unwatched
      BY <2>9 DEF RecordStep, persistEvent, InsertApproval, PauseRun, Forward, RecorderEnds, SuperviseStep,
         Suspend, SkipEvent, completeRun, failRun, Unwritten, EndSupervision
    <3>3. /\ sup' \in Supervisions
          /\ sup'.pc \in Launching => sup.pc \in Launching
      BY <2>s, <3>2 DEF Launching
    <3> QED
      BY <3>1, <3>3, Elsewhere
  <2>10. ASSUME NEW r \in Responses, ReadApproval(r) \/ MarkDispatch(r) \/ FinalItem(r) \/ ResumeTurn(r) \/ ResumeRun(r)
         PROVE  DecisionInv'
    <3>1. UNCHANGED <<agent, requests, pending, sent, given, sup>>
      BY <2>10 DEF ReadApproval, MarkDispatch, FinalItem, ResumeTurn, ResumeRun, store, process, outside
    <3>2. {"resume", "mark", "send", "turn"} \subseteq HandlerSteps
      BY DEF HandlerSteps
    <3>3. \/ Done(r)
          \/ answers' = answers /\ \E s \in HandlerSteps : Handles(r, s) /\ handler[r].pc # "idle"
      BY <2>10, <3>2 DEF ReadApproval, MarkDispatch, FinalItem, ResumeTurn, ResumeRun
    <3> QED
      BY <3>1, <3>3, HandlerGoesOn
  <2>11. ASSUME NEW r \in Responses, SendDecision(r) PROVE DecisionInv'
    <3>1. UNCHANGED <<requests, given, sup>> /\ handler[r].pc = "send"
      BY <2>11 DEF SendDecision
    <3>2. CASE Refuse(r) /\ UNCHANGED <<pending, sent, agent>>
      BY <3>1, <3>2, HandlerGoesOn DEF Refuse
    <3>3. ASSUME NEW key \in Key, key = handler[r].key, key \in pending, pending' = pending \ {key},
                 Decide(r, key), Handles(r, "final"), answers' = answers
          PROVE  DecisionInv'
      <4>1. r \in given[key] /\ ~Unasked(key) /\ ~Waits(key) /\ sent[key] = <<>>
        BY <2>0, <3>1, <3>3 DEF GivenByPeople, InOnePlace
      <4>2. sent' = [sent EXCEPT ![key] = Append(@, r)]
        BY <3>3 DEF Decide
      <4>3. /\ sent' \in [Key -> Seq(Responses)] /\ sent'[key] = <<r>>
            /\ \A k \in Key : k # key => sent'[k] = sent[k]
        BY <2>0, <4>1, <4>2 DEF ChannelTypes
      <4>4. /\ agent' \in Agents /\ agent'.begun = agent.begun /\ agent'.state = agent.state
            /\ \A i \in Item : agent'.phase[i] \in {agent.phase[i], "decided"}
        <5>1. CASE agent' = agent
          BY <2>k, <5>1
        <5>2. CASE agent' = [agent EXCEPT !.phase[key[2]] = "decided"]
          BY <2>k, <5>2, KeyIs DEF Agents, Phases
        <5> QED
          BY <3>3, <5>1, <5>2 DEF Decide
      <4>5. \A k \in Key : Unasked(k)' => Unasked(k)
        BY <4>4, KeyIs DEF Unasked, Working
      <4>6. /\ handler' \in [Responses -> [pc : HandlerSteps, key : Key \cup {NoKey}]]
            /\ \A q \in Responses : handler'[q].pc = "idle" \/ (handler[q].pc # "idle" /\ handler'[q].key = handler[q].key)
        BY <2>0, <3>1, <3>3 DEF Handles, ChannelTypes, HandlerSteps
      <4>7. ChannelTypes'
        BY <2>0, <3>1, <3>3, <4>3, <4>4, <4>6 DEF ChannelTypes, Working
      <4>8. InOnePlace'
        <5>1. \A k \in Key : Waits(k)' <=> Waits(k)
          BY <3>1 DEF Waits
        <5>2. Len(<<r>>) <= 1
          OBVIOUS
        <5> QED
          BY <2>0, <3>1, <3>3, <4>1, <4>3, <4>5, <5>1, <5>2 DEF InOnePlace
      <4>9. GivenByPeople'
        <5>1. \A k \in Key : \A n \in DOMAIN sent'[k] : sent'[k][n] \in given[k]
          BY <2>0, <4>1, <4>3 DEF GivenByPeople
        <5> QED
          BY <2>0, <3>1, <3>3, <4>6, <5>1 DEF GivenByPeople
      <4> QED
        BY <4>7, <4>8, <4>9 DEF DecisionInv
    <3>4. pending \subseteq Key
      BY <2>0 DEF ChannelTypes
    <3> QED
      BY <2>11, <3>2, <3>3, <3>4 DEF SendDecision
  <2>12. ASSUME NEW key \in Key, NEW r \in Responses, AnswerApproval(key, r) \/ Receive(r, key) PROVE DecisionInv'
    <3>1. UNCHANGED <<agent, requests, pending, sent, sup>>
      BY <2>12 DEF AnswerApproval, Receive, process, outside, store
    <3>2. InOnePlace'
      BY <2>0, <3>1 DEF InOnePlace, Waits, Unasked, Working
    <3>3. CASE AnswerApproval(key, r)
      <4>1. /\ given' = [given EXCEPT ![key] = @ \cup {r}] /\ answers' = answers \cup {<<key, r>>}
            /\ handler' = handler
        BY <3>3 DEF AnswerApproval
      <4>2. given' \in [Key -> SUBSET Responses] /\ r \in given'[key] /\ \A k \in Key : given[k] \subseteq given'[k]
        BY <2>0, <4>1 DEF ChannelTypes
      <4>3. ChannelTypes'
        BY <2>0, <3>1, <4>1, <4>2 DEF ChannelTypes, Working
      <4>4. GivenByPeople'
        BY <2>0, <3>1, <4>1, <4>2 DEF GivenByPeople, ChannelTypes
      <4> QED
        BY <3>2, <4>3, <4>4 DEF DecisionInv
    <3>4. CASE Receive(r, key)
      <4>1. /\ UNCHANGED <<given, answers>> /\ <<key, r>> \in answers
            /\ handler' = [handler EXCEPT ![r] = [pc |-> "read", key |-> key]]
        BY <3>4 DEF Receive, store
      <4>2. [pc |-> "read", key |-> key] \in [pc : HandlerSteps, key : Key \cup {NoKey}]
        BY DEF HandlerSteps
      <4>3. handler' \in [Responses -> [pc : HandlerSteps, key : Key \cup {NoKey}]] /\ handler'[r].key = key
            /\ \A q \in Responses : q # r => handler'[q] = handler[q]
        BY <2>0, <4>1, <4>2 DEF ChannelTypes
      <4>4. ChannelTypes'
        BY <2>0, <3>1, <4>1, <4>3 DEF ChannelTypes, Working
      <4>5. r \in given[key]
        BY <2>0, <4>1 DEF GivenByPeople
      <4>6. GivenByPeople'
        BY <2>0, <3>1, <4>1, <4>3, <4>5 DEF GivenByPeople
      <4> QED
        BY <3>2, <4>4, <4>6 DEF DecisionInv
    <3> QED
      BY <2>12, <3>3, <3>4
  <2>13. CASE Crash
    <3>1. /\ UNCHANGED <<sent, given, answers>> /\ requests' = <<>> /\ pending' = {} /\ sup' = Unwatched
          /\ handler' = [q \in Responses |-> [pc |-> "idle", key |-> NoKey]]
          /\ agent' = [Asleep EXCEPT !.begun = agent.begun]
      BY <2>13 DEF Crash, store
    <3>2. agent' \in Agents /\ agent'.begun = agent.begun /\ agent'.state = "off"
      BY <2>k, <3>1 DEF Asleep, Agents, AgentStates, Phases
    <3>3. ChannelTypes'
      BY <2>0, <3>1, <3>2 DEF ChannelTypes, Working, Unwatched, HandlerSteps, Launching, Supervisions, SupervisorSteps
    <3>4. \A k \in Key : Unasked(k)' => Unasked(k)
      BY <3>2 DEF Unasked, Working
    <3>5. InOnePlace'
      BY <2>0, <3>1, <3>4 DEF InOnePlace, Waits
    <3>6. GivenByPeople'
      BY <2>0, <3>1 DEF GivenByPeople
    <3> QED
      BY <3>3, <3>5, <3>6 DEF DecisionInv
  <2>14. CASE UNCHANGED turnsVars
    BY <2>14, <2>0, Elsewhere DEF turnsVars, store, process, outside, decision, ChannelTypes
  <2> QED
    BY <2>1, <2>2, <2>3, <2>4, <2>5, <2>6, <2>7, <2>8, <2>9, <2>10, <2>11, <2>12, <2>13, <2>14
       DEF TurnsNext, AgentStep, ExecuteStep, loadOrCreateThread, StreamStep, RespondStep
<1>3. DecisionInv => DecidedOnce
  BY DEF DecisionInv, InOnePlace, GivenByPeople, DecidedOnce
<1> QED
  BY <1>1, <1>2, <1>3, PTL DEF TurnsSpec
=============================================================================
