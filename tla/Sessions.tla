------------------------------ MODULE Sessions ------------------------------
(***************************************************************************)
(* One workspace and its runtime session, used by several requests at a    *)
(* time.  The session is made by one process, the host (the worker, or the *)
(* runner), which keeps it in the map of its provider.  The API serves the *)
(* files, commands and services of the workspace in one of three ways:     *)
(*                                                                         *)
(*   local    on the worktree the row of the workspace names;              *)
(*   docker   through a Docker provider of its own, whose map it fills by  *)
(*            AttachSession;                                               *)
(*   remote   through the runner, which is then the host.                  *)
(*                                                                         *)
(* What a request may do (the kernel's decision) is module Policies'; here *)
(* it is either way.                                                       *)
(***************************************************************************)
EXTENDS Naturals, Sequences, FiniteSets

CONSTANTS
    Modes,       \* the ways to serve the workspace: a subset of AllModes
    Client,      \* the requests that are served at a time
    Edit,        \* changes of files, each of them made by one request
    NoEdit,      \* the edit of a request that makes none
    MaxCommits,  \* bound on the snapshots
    MaxPid,      \* bound on the service processes
    MaxRestarts  \* bound on the processes that start anew

AllModes  == {"local", "docker", "remote"}
Processes == {"api", "host"}

ASSUME SessionsAssumption ==
    /\ Modes \subseteq AllModes /\ IsFiniteSet(Client) /\ IsFiniteSet(Edit) /\ NoEdit \notin Edit
    /\ MaxCommits \in Nat /\ MaxPid \in Nat /\ MaxRestarts \in Nat

VARIABLES
    mode,
    row,        \* the workspaces row: path and session are set, it is deleted
    create,     \* CreateWorkspace of the host
    things,     \* what there is of the session outside the processes
    stuck,      \* history: those of them that were not removed, and the error ignored
    known,      \* the map of each process: the status of the session
    restarted,  \* the processes that have lost their map
    req,        \* the requests
    asked,      \* the edits some request was made for
    tree,       \* the worktree: files, index, HEAD and the commits
    patch,      \* .tmp_patch of the worktree
    snaps,      \* the snapshots that were returned, by the number of the commit
    alive,      \* service processes
    pidfile     \* the pid file of the one service

session == <<create, things, stuck, known, restarted>>
files   == <<asked, tree, patch, snaps>>
service == <<alive, pidfile>>
vars    == <<mode, row, session, req, files, service>>

-----------------------------------------------------------------------------
(* CreateWorkspace.                                                        *)

(* The steps of a provider, each with what it leaves outside.  A step that *)
(* fails (the command does, or the request was cancelled) may have done it.*)
DockerSteps == <<[name |-> "clone",  makes |-> {"dir"}],
                 [name |-> "volume", makes |-> {"volume"}],
                 [name |-> "run",    makes |-> {"container"}],
                 [name |-> "copy",   makes |-> {}]>>

LocalSteps  == <<[name |-> "clone", makes |-> {"dir"}], [name |-> "worktree", makes |-> {"worktree"}]>>

StepsOf == IF mode = "local" THEN LocalSteps ELSE DockerSteps

CreateStep ==
    /\ create \in 1..Len(StepsOf)
    /\ things' = things \cup StepsOf[create].makes
    /\ create' = create + 1
    /\ UNCHANGED <<mode, row, stuck, known, restarted, req, files, service>>

\* Slip: the commands that clean up run under the context of the request.
CleanupCancelled(made, refused) == refused \cup (made \ {"dir"})

(* What the deferred cleanup leaves: Docker's removes everything, under a  *)
(* context of its own, but for what Docker or the file system refuses to   *)
(* remove; it looks at no error.  The local provider has none.             *)
Cleanup(made, refused) == IF mode = "local" THEN made ELSE refused

Refusals(made) == IF mode = "local" THEN {{}} ELSE SUBSET made

CreateFails ==
    /\ create \in 1..Len(StepsOf)
    /\ \E made \in {things, things \cup StepsOf[create].makes} : \E refused \in Refusals(made) :
          /\ things' = Cleanup(made, refused)
          /\ stuck' = stuck \cup refused
    /\ create' = 0
    /\ UNCHANGED <<mode, row, known, restarted, req, files, service>>

(* The session is registered, and its id or its path is written (Launch).  *)
CreateEnds ==
    /\ create = Len(StepsOf) + 1
    /\ known' = [known EXCEPT !["host"] = "ready"]
    /\ row' = [row EXCEPT !.path = mode = "local", !.session = TRUE]
    /\ create' = 0
    /\ UNCHANGED <<mode, things, stuck, restarted, req, files, service>>

-----------------------------------------------------------------------------
(* Requests.                                                               *)

Idle == [op |-> "none", pc |-> "idle", edit |-> NoEdit, pid |-> 0,
         path |-> FALSE, before |-> {}, disturbed |-> FALSE]

(* The operations that the kernel decides on.                              *)
Gated == {"write", "patch", "exec", "start", "stop"}

Goto(c, pc) == req' = [req EXCEPT ![c].pc = pc]
End(c) == req' = [req EXCEPT ![c] = Idle]

(* A handler reads the path of a workspace that is not deleted: without one*)
(* it goes to the runtime.                                                 *)
getWorkspacePath == IF row.path THEN "local" ELSE "load"

Ask(c, op, e) ==
    /\ req[c].pc = "idle" /\ ~row.deleted
    /\ e \notin asked
    /\ asked' = (asked \cup {e}) \ {NoEdit}
    /\ req' = [req EXCEPT ![c] = [Idle EXCEPT !.op = op, !.edit = e, !.pc = getWorkspacePath]]
    /\ UNCHANGED <<mode, row, session, tree, patch, snaps, service>>

ListWorkspaceFiles(c)      == Ask(c, "list", NoEdit)
ReadWorkspaceFile(c)       == Ask(c, "read", NoEdit)
WriteWorkspaceFile(c, e)   == Ask(c, "write", e)
ApplyWorkspacePatch(c, e)  == Ask(c, "patch", e)
ExecWorkspaceCommand(c, e) == Ask(c, "exec", e)
StartWorkspaceService(c)   == Ask(c, "start", NoEdit)
StopWorkspaceService(c)    == Ask(c, "stop", NoEdit)

Granted(c) == IF req[c].op \in Gated THEN "allow" ELSE "do"

(* getRuntimeWorkspace: the row is read again.                             *)
getRuntimeWorkspace(c) ==
    /\ req[c].pc = "load"
    /\ \/ /\ ~row.deleted /\ row.session /\ mode # "local"
          /\ Goto(c, IF mode = "docker" THEN "attach" ELSE Granted(c))
         
       \/ (row.deleted \/ ~row.session) /\ End(c)
    /\ UNCHANGED <<mode, row, session, files, service>>

(* AttachSession: a session that is in the map is taken as it is; one that *)
(* is not is in the map before Docker is asked about it ...                *)
AttachSession(c) ==
    /\ req[c].pc = "attach"
    /\ IF known["api"] # "absent"
       THEN Goto(c, Granted(c)) /\ UNCHANGED known
       ELSE Goto(c, "inspect") /\ known' = [known EXCEPT !["api"] = "ready"]
    /\ UNCHANGED <<mode, row, create, things, stuck, restarted, files, service>>

(* ... and is taken out of it again, whoever uses it by now.               *)
GetStatus(c) ==
    /\ req[c].pc = "inspect"
    /\ \/ /\ known["api"] # "absent" /\ "container" \in things
          /\ Goto(c, Granted(c)) /\ UNCHANGED known
       \/ End(c) /\ known' = [known EXCEPT !["api"] = "absent"]
    /\ UNCHANGED <<mode, row, create, things, stuck, restarted, files, service>>

authorizeWorkspaceOperationForWorkspace(c) ==
    /\ req[c].pc = "allow"
    /\ Goto(c, "do") \/ End(c)
    /\ UNCHANGED <<mode, row, session, files, service>>

-----------------------------------------------------------------------------
(* The Docker provider, of the API or of the host.                         *)

HostOps == {"snapshot", "restore", "destroy"}

Proc(c) == IF mode = "docker" /\ req[c].op \notin HostOps THEN "api" ELSE "host"

Session(c) == known[Proc(c)] # "absent"

Reachable(c) == Session(c) /\ (IF mode = "local" THEN "worktree" ELSE "container") \in things

Changed(e) == tree' = [tree EXCEPT !.work = @ \cup {e}]

ReadFile(c) ==
    /\ End(c)
    /\ UNCHANGED <<mode, row, session, files, service>>

WriteFile(c) ==
    /\ End(c)
    /\ (Reachable(c) /\ Changed(req[c].edit)) \/ UNCHANGED tree
    /\ UNCHANGED <<mode, row, session, asked, patch, snaps, service>>

(* git apply of what it reads from its input.                              *)
ApplyPatch(c) ==
    /\ End(c)
    /\ (Reachable(c) /\ Changed(req[c].edit)) \/ UNCHANGED tree
    /\ UNCHANGED <<mode, row, session, asked, patch, snaps, service>>

(* A command of a program that is allowed, without what a shell would take *)
(* for its own; a script is none.                                          *)
ParseCommandString(script) == ~script

setSessionStatus(p, status) ==
    known' = IF known[p] = "absent" THEN known ELSE [known EXCEPT ![p] = status]

ExecuteCommand(c, script) ==
    /\ IF Session(c) /\ ParseCommandString(script)
       THEN setSessionStatus(Proc(c), "running") /\ Goto(c, "running")
       ELSE End(c) /\ UNCHANGED known
    /\ UNCHANGED <<mode, row, create, things, stuck, restarted, files, service>>

\* Slip: a command that fails or is timed out leaves the status.
CommandEndsWell(c) ==
    /\ req[c].pc = "running"
    /\ \/ /\ "container" \in things /\ Changed(req[c].edit) /\ End(c)
          /\ setSessionStatus(Proc(c), "ready")
       \/ End(c) /\ UNCHANGED <<tree, known>>
    /\ UNCHANGED <<mode, row, create, things, stuck, restarted, asked, patch, snaps, service>>

(* A command that fails or is timed out may have changed files as well.    *)
CommandEnds(c) ==
    /\ req[c].pc = "running"
    /\ setSessionStatus(Proc(c), "ready")
    /\ \/ "container" \in things /\ Changed(req[c].edit) /\ End(c)
       \/ End(c) /\ UNCHANGED tree
    /\ UNCHANGED <<mode, row, create, things, stuck, restarted, asked, patch, snaps, service>>

(* The handlers of a workspace that has no path.  Files are listed, and    *)
(* services are started and stopped, by a script.                          *)
Do(c, op) == req[c].pc = "do" /\ req[c].op = op

listRuntimeWorkspaceFiles(c)    == Do(c, "list")  /\ ExecuteCommand(c, TRUE)
readRuntimeWorkspaceFile(c)     == Do(c, "read")  /\ ReadFile(c)
writeRuntimeWorkspaceFile(c)    == Do(c, "write") /\ WriteFile(c)
applyRuntimeWorkspacePatch(c)   == Do(c, "patch") /\ ApplyPatch(c)
execRuntimeWorkspaceCommand(c)  == Do(c, "exec")  /\ \E script \in BOOLEAN : ExecuteCommand(c, script)
startRuntimeWorkspaceService(c) == Do(c, "start") /\ ExecuteCommand(c, TRUE)
stopRuntimeWorkspaceService(c)  == Do(c, "stop")  /\ ExecuteCommand(c, TRUE)

runtimeHandler(c) ==
    \/ listRuntimeWorkspaceFiles(c) \/ readRuntimeWorkspaceFile(c) \/ writeRuntimeWorkspaceFile(c)
    \/ applyRuntimeWorkspacePatch(c) \/ execRuntimeWorkspaceCommand(c)
    \/ startRuntimeWorkspaceService(c) \/ stopRuntimeWorkspaceService(c)

(* The remote provider asks the runner, which does the same; a call that   *)
(* does not get through is an error.                                       *)
RemoteCallFails(c) ==
    /\ mode = "remote" /\ req[c].pc = "do"
    /\ End(c)
    /\ UNCHANGED <<mode, row, session, files, service>>

-----------------------------------------------------------------------------
(* What the host alone is asked for.                                       *)

AskHost(c, op) ==
    /\ req[c].pc = "idle" /\ known["host"] # "absent"
    /\ req' = [req EXCEPT ![c] = [Idle EXCEPT !.op = op, !.pc = op,
                               !.before = IF op = "snapshot" THEN tree.work ELSE {}]]
    /\ UNCHANGED <<mode, row, session, files, service>>

\* Slip: the changes are not staged.
SnapshotTracked(c) ==
    /\ req[c].pc = "snapshot"
    /\ Goto(c, "commit")
    /\ UNCHANGED <<mode, row, session, files, service>>

(* Snapshot: git add, git commit and git rev-parse, each of them alone.    *)
SnapshotAdd(c) ==
    /\ req[c].pc = "snapshot"
    /\ \/ Reachable(c) /\ tree' = [tree EXCEPT !.index = tree.work] /\ Goto(c, "commit")
       \/ End(c) /\ UNCHANGED tree
    /\ UNCHANGED <<mode, row, session, asked, patch, snaps, service>>

SnapshotCommit(c) ==
    /\ req[c].pc = "commit"
    /\ \/ /\ Reachable(c) /\ Len(tree.commits) < MaxCommits
          /\ tree' = [tree EXCEPT !.commits = Append(@, tree.index), !.head = Len(tree.commits) + 1]
          /\ Goto(c, "rev-parse")
       \/ End(c) /\ UNCHANGED tree
    /\ UNCHANGED <<mode, row, session, asked, patch, snaps, service>>

(* The local provider returns a name that is none of a commit.             *)
Revision == IF mode = "local" THEN 0 ELSE tree.head

SnapshotReturn(c) ==
    /\ req[c].pc = "rev-parse"
    /\ snaps' \in {snaps, snaps \cup {Revision}}
    /\ End(c)
    /\ UNCHANGED <<mode, row, session, asked, tree, patch, service>>

(* git reset --hard: what the index holds is replaced, what it does not    *)
(* hold is left.                                                           *)
Restore(c) ==
    /\ req[c].pc = "restore"
    /\ \/ /\ Reachable(c)
          /\ \E s \in snaps \ {0} :
                tree' = [tree EXCEPT !.work = (@ \ tree.index) \cup tree.commits[s],
                                     !.index = tree.commits[s], !.head = s]
          /\ req' = [d \in Client |-> IF d = c THEN Idle ELSE [req[d] EXCEPT !.disturbed = req[d].op = "snapshot"]]
       \/ End(c) /\ UNCHANGED tree
    /\ UNCHANGED <<mode, row, session, asked, patch, snaps, service>>

(* DestroyWorkspace of the Docker provider: the session is known until     *)
(* nothing is left of it.                                                  *)
DestroyContainer(c) ==
    /\ req[c].pc = "destroy" /\ mode # "local"
    /\ \/ Session(c) /\ things' = things \ {"container"} /\ Goto(c, "volume")
       \/ End(c) /\ UNCHANGED things
    /\ UNCHANGED <<mode, row, create, stuck, known, restarted, files, service>>

DestroyVolume(c) ==
    /\ req[c].pc = "volume"
    /\ \/ things' = things \ {"volume"} /\ Goto(c, "forget")
       \/ End(c) /\ UNCHANGED things
    /\ UNCHANGED <<mode, row, create, stuck, known, restarted, files, service>>

(* Whether the directory could be removed is not looked at.                *)
Forget(c) ==
    /\ req[c].pc = "forget"
    /\ \/ things' = things \ {"dir"} /\ UNCHANGED stuck
       \/ UNCHANGED things /\ stuck' = stuck \cup (things \cap {"dir"})
    /\ known' = [known EXCEPT !["host"] = "absent"]
    /\ End(c)
    /\ UNCHANGED <<mode, row, create, restarted, files, service>>

(* The local provider forgets the session first.                           *)
DestroyLocal(c) ==
    /\ req[c].pc = "destroy" /\ mode = "local"
    /\ known' = [known EXCEPT !["host"] = "absent"]
    /\ things' \in IF known["host"] = "absent" THEN {things} ELSE {things, {}}
    /\ tree' = IF things' # {} THEN tree ELSE [tree EXCEPT !.work = {}]
    /\ End(c)
    /\ UNCHANGED <<mode, row, create, stuck, restarted, asked, patch, snaps, service>>

-----------------------------------------------------------------------------
(* The API on a local worktree.                                            *)

LocalList(c) ==
    /\ req[c].pc = "local" /\ req[c].op = "list"
    /\ End(c)
    /\ UNCHANGED <<mode, row, session, files, service>>

LocalRead(c) ==
    /\ req[c].pc = "local" /\ req[c].op = "read"
    /\ End(c)
    /\ UNCHANGED <<mode, row, session, files, service>>

authorizeWorkspaceOperation(c) ==
    /\ req[c].pc = "local" /\ req[c].op \in Gated
    /\ Goto(c, "work") \/ End(c)
    /\ UNCHANGED <<mode, row, session, files, service>>

(* The parent directory is made when it is missing.                        *)
LocalWrite(c) ==
    /\ req[c].pc = "work" /\ req[c].op = "write"
    /\ things' = things \cup {"worktree"}
    /\ \/ Changed(req[c].edit) /\ End(c)
       \/ End(c) /\ UNCHANGED tree
    /\ UNCHANGED <<mode, row, create, stuck, known, restarted, asked, patch, snaps, service>>

(* The patch goes through a file of the worktree, the same for every       *)
(* request, which is removed at the end.                                   *)
LocalPatchFile(c) ==
    /\ req[c].pc = "work" /\ req[c].op = "patch"
    /\ \/ /\ "worktree" \in things
          /\ patch' = req[c].edit /\ Goto(c, "apply")
       \/ End(c) /\ UNCHANGED patch
    /\ UNCHANGED <<mode, row, session, asked, tree, snaps, service>>

LocalApply(c) ==
    /\ req[c].pc = "apply"
    /\ \/ patch \in Edit \ tree.work /\ Changed(patch) /\ End(c)
       \/ End(c) /\ UNCHANGED tree
    /\ patch' = NoEdit
    /\ UNCHANGED <<mode, row, session, asked, snaps, service>>

LocalExec(c) ==
    /\ req[c].pc = "work" /\ req[c].op = "exec"
    /\ \/ "worktree" \in things /\ Changed(req[c].edit) /\ End(c)
       \/ End(c) /\ UNCHANGED tree
    /\ UNCHANGED <<mode, row, session, asked, patch, snaps, service>>

(* A service is a process; the file that names it belongs to the service.  *)
LocalStart(c) ==
    /\ req[c].pc = "work" /\ req[c].op = "start"
    /\ \/ \E p \in (1..MaxPid) \ alive :
             /\ alive' = alive \cup {p}
             /\ req' = [req EXCEPT ![c].pc = "pid", ![c].pid = p]
       \/ End(c) /\ UNCHANGED alive
    /\ UNCHANGED <<mode, row, session, files, pidfile>>

WritePid(c) ==
    /\ req[c].pc = "pid"
    /\ \/ pidfile' = req[c].pid /\ UNCHANGED alive
       \/ alive' = alive \ {req[c].pid} /\ UNCHANGED pidfile
    /\ End(c)
    /\ UNCHANGED <<mode, row, session, files>>

LocalStop(c) ==
    /\ req[c].pc = "work" /\ req[c].op = "stop"
    /\ IF pidfile = 0 THEN End(c) ELSE req' = [req EXCEPT ![c].pc = "kill", ![c].pid = pidfile]
    /\ UNCHANGED <<mode, row, session, files, service>>

(* The signal may be refused, or ignored.                                  *)
Kill(c) ==
    /\ req[c].pc = "kill"
    /\ \/ alive' \in {alive, alive \ {req[c].pid}} /\ pidfile' = 0
       \/ UNCHANGED service
    /\ End(c)
    /\ UNCHANGED <<mode, row, session, files>>

ServiceExits(p) ==
    /\ p \in alive /\ alive' = alive \ {p}
    /\ UNCHANGED <<mode, row, session, req, files, pidfile>>

(* DestroyWorkspace of the API: the row, then the worktree it named.  The  *)
(* provider is not told.                                                   *)
AskDestroy(c) ==
    /\ req[c].pc = "idle" /\ ~row.deleted
    /\ req' = [req EXCEPT ![c] = [Idle EXCEPT !.op = "delete", !.pc = "delete", !.path = row.path]]
    /\ UNCHANGED <<mode, row, session, files, service>>

DestroyWorkspace(c) ==
    /\ req[c].pc = "delete"
    /\ \/ /\ ~row.deleted
          /\ row' = [path |-> FALSE, session |-> FALSE, deleted |-> TRUE]
          /\ IF req[c].path THEN Goto(c, "clear") ELSE End(c)
       \/ End(c) /\ UNCHANGED row
    /\ UNCHANGED <<mode, session, files, service>>

RemoveWorktree(c) ==
    /\ req[c].pc = "clear"
    /\ \/ things' = things \ {"worktree"} /\ tree' = [tree EXCEPT !.work = {}]
       \/ UNCHANGED <<things, tree>>
    /\ End(c)
    /\ UNCHANGED <<mode, row, create, stuck, known, restarted, asked, patch, snaps, service>>

(* The process a request is in: the host's own work, and a command the     *)
(* runner has begun, which goes on when the API is gone.                   *)
At(c) == IF req[c].op \in HostOps \/ (req[c].pc = "running" /\ Proc(c) = "host") THEN "host" ELSE "api"

(* A process starts anew: its map is empty and what was in it is lost.     *)
Restart(p) ==
    /\ p \notin restarted /\ Cardinality(restarted) < MaxRestarts
    /\ restarted' = restarted \cup {p}
    /\ known' = [known EXCEPT ![p] = "absent"]
    /\ create' = IF p = "host" THEN 0 ELSE create
    /\ req' = [c \in Client |-> IF At(c) = p THEN Idle ELSE req[c]]
    /\ UNCHANGED <<mode, row, things, stuck, files, service>>

-----------------------------------------------------------------------------
Init ==
    /\ mode \in Modes
    /\ row = [path |-> FALSE, session |-> FALSE, deleted |-> FALSE]
    /\ create = 1 /\ things = {} /\ stuck = {}
    /\ known = [p \in Processes |-> "absent"] /\ restarted = {}
    /\ req = [c \in Client |-> Idle]
    /\ asked = {}
    /\ tree = [work |-> {}, index |-> {}, head |-> 0, commits |-> <<>>]
    /\ patch = NoEdit /\ snaps = {}
    /\ alive = {} /\ pidfile = 0

Create == CreateStep \/ CreateFails \/ CreateEnds

Request(c) ==
    \/ ListWorkspaceFiles(c) \/ ReadWorkspaceFile(c)
    \/ StartWorkspaceService(c) \/ StopWorkspaceService(c)
    \/ \E e \in Edit : WriteWorkspaceFile(c, e) \/ ApplyWorkspacePatch(c, e) \/ ExecWorkspaceCommand(c, e)
    \/ AskDestroy(c)
    \/ \E op \in HostOps : AskHost(c, op)

Runtime(c) ==
    \/ getRuntimeWorkspace(c) \/ AttachSession(c) \/ GetStatus(c)
    \/ authorizeWorkspaceOperationForWorkspace(c)
    \/ runtimeHandler(c) \/ RemoteCallFails(c) \/ CommandEnds(c)

Host(c) ==
    \/ SnapshotAdd(c) \/ SnapshotCommit(c) \/ SnapshotReturn(c) \/ Restore(c)
    \/ DestroyContainer(c) \/ DestroyVolume(c) \/ Forget(c) \/ DestroyLocal(c)

Local(c) ==
    \/ LocalList(c) \/ LocalRead(c) \/ authorizeWorkspaceOperation(c)
    \/ LocalWrite(c) \/ LocalPatchFile(c) \/ LocalApply(c) \/ LocalExec(c)
    \/ LocalStart(c) \/ WritePid(c) \/ LocalStop(c) \/ Kill(c)
    \/ DestroyWorkspace(c) \/ RemoveWorktree(c)

Next ==
    \/ Create
    \/ \E c \in Client : Request(c) \/ Runtime(c) \/ Host(c) \/ Local(c)
    \/ \E p \in 1..MaxPid : ServiceExits(p)
    \/ \E p \in Processes : Restart(p)

Spec == Init /\ [][Next]_vars

-----------------------------------------------------------------------------
(* Properties.                                                             *)

Steps == {"idle", "local", "load", "attach", "inspect", "allow", "do", "running", "snapshot", "commit",
          "rev-parse", "restore", "destroy", "volume", "forget", "work", "apply", "pid", "kill",
          "delete", "clear"}

Operations == {"none", "list", "read", "delete"} \cup Gated \cup HostOps

Requests == [op : Operations, pc : Steps, edit : Edit \cup {NoEdit}, pid : 0..MaxPid, path : BOOLEAN,
             before : SUBSET Edit, disturbed : BOOLEAN]

Trees == [work : SUBSET Edit, index : SUBSET Edit, head : Nat, commits : Seq(SUBSET Edit)]

(* Every variable has its type; a session is ready or running for whoever  *)
(* knows it, and the pid file of a service names a process or nothing.     *)
TypeOK ==
    /\ mode \in AllModes
    /\ row \in [path : BOOLEAN, session : BOOLEAN, deleted : BOOLEAN]
    /\ create \in 0..(Len(DockerSteps) + 1)
    /\ things \subseteq {"dir", "worktree", "volume", "container"} /\ stuck \subseteq {"dir", "worktree", "volume", "container"}
    /\ known \in [Processes -> {"absent", "ready", "running"}] /\ restarted \subseteq Processes
    /\ req \in [Client -> Requests] /\ asked \subseteq Edit
    /\ tree \in Trees /\ tree.head <= Len(tree.commits)
    /\ patch \in Edit \cup {NoEdit} /\ snaps \subseteq 0..Len(tree.commits)
    /\ alive \subseteq 1..MaxPid /\ pidfile \in 0..MaxPid

(* A directory, volume or container of a Docker session exists only while  *)
(* it is being created or its provider knows the session, unless its own   *)
(* removal failed and the code ignored that: whichever other step of       *)
(* CreateWorkspace or DestroyWorkspace fails, alone or in several requests *)
(* at a time, everything is gone or can still be destroyed.  (A process    *)
(* that starts anew forgets its sessions.)                                 *)
NothingOutlivesItsSession ==
    mode # "local" /\ "host" \notin restarted /\ things \ stuck # {} => create # 0 \/ known["host"] # "absent"

(* A Docker session that reads as running has a command under way: however *)
(* commands overlap, fail or are timed out, and sessions are attached and  *)
(* destroyed meanwhile, none is left behind as running.                    *)
BusyOnlyWhileCommand ==
    mode # "local" =>
        \A p \in Processes : known[p] = "running" =>
            \E c \in Client : req[c].pc = "running" /\ Proc(c) = p

(* The snapshot a request is about to return holds every change that was   *)
(* made before it was asked for, although git add, commit and rev-parse are*)
(* separate commands that other snapshots and edits come between.  (Unless *)
(* a restore did.)                                                         *)
SnapshotKeepsWork ==
    \A c \in Client : req[c].pc = "rev-parse" /\ Revision # 0 /\ ~req[c].disturbed =>
        req[c].before \subseteq tree.commits[Revision]

=============================================================================
