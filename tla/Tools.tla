------------------------------- MODULE Tools -------------------------------
(***************************************************************************)
(* What an agent's ten tools may do to a workspace and how a call of one   *)
(* ends, for the two implementations: WorkspaceTools on a local directory  *)
(* and the runtime tools on a container session.                           *)
(*                                                                         *)
(* An input is classed by what the checks of the tools look at.  A call    *)
(* ends "ok", "reported" (a result that carries an error, after which the  *)
(* agent goes on) or "error" (which ends the run).                         *)
(***************************************************************************)
EXTENDS Naturals, FiniteSets, Sequences

Inputs == {"plain", "malformed", "empty", "outside", "dangerous"}

Ends == {"ok", "reported", "error"}

(* A tool refuses some inputs, ends in one of the given ways otherwise, and*)
(* in some of them leaves other files behind than it found.                *)
Tool(refuses, ends, changes) == [refuses |-> refuses, ends |-> ends, changes |-> changes]

Outcomes(t, input) ==
    IF input \in t.refuses
    THEN { [ends |-> "error", changes |-> FALSE] }
    ELSE { o \in [ends : t.ends, changes : BOOLEAN] : o.changes => o.ends \in t.changes }

-----------------------------------------------------------------------------
(* Checks on inputs.                                                       *)

isDangerousCommand == {"dangerous"}

isDangerousQuery == {"dangerous"}

rejectDangerousRuntimeCommand == {"dangerous"}

(* An absolute path, or one that leaves the workspace once it is cleaned.  *)
resolveWorkspacePath == {"outside"}

-----------------------------------------------------------------------------
(* WorkspaceTools.                                                         *)

ReadFile      == Tool({"malformed"} \cup resolveWorkspacePath, Ends, {})
\* The directories are made before the file is written.
WriteFile     == Tool({"malformed"} \cup resolveWorkspacePath, {"ok", "error"}, {"ok", "error"})
SearchFiles   == Tool({"malformed"} \cup resolveWorkspacePath \cup isDangerousQuery, {"ok", "error"}, {})
ListDirectory == Tool({"malformed"} \cup resolveWorkspacePath, {"ok", "error"}, {})
\* git apply --check comes first; the patch file itself may fail to be written.
ApplyPatch    == Tool({"malformed", "empty"}, Ends, {"ok"})
\* Whatever the command leaves with, the agent reads it.
RunCommand    == Tool({"malformed"} \cup isDangerousCommand, {"ok", "error"}, {"ok"})
InspectRepo   == Tool({}, {"ok"}, {})
GetGitDiff    == Tool({}, {"ok", "error"}, {})
\* A commit keeps the files it records.
CreateCommit  == Tool({"malformed", "empty"}, {"ok", "reported"}, {})
RunTests      == Tool({"malformed"} \cup isDangerousCommand, {"ok"}, {"ok"})

executeToolUnchecked ==
    [ read_file |-> ReadFile, write_file |-> WriteFile, search_files |-> SearchFiles,
      list_directory |-> ListDirectory, apply_patch |-> ApplyPatch, run_command |-> RunCommand,
      inspect_repo |-> InspectRepo, get_git_diff |-> GetGitDiff, create_commit |-> CreateCommit,
      run_tests |-> RunTests ]

-----------------------------------------------------------------------------
(* The runtime tools: paths are checked by the provider, and a command that*)
(* does not come back is an error of the call.                             *)

runtimeReadFile      == Tool({"malformed", "outside"}, Ends, {})
runtimeWriteFile     == Tool({"malformed", "outside"}, {"ok", "error"}, {"ok", "error"})
\* The path is quoted for the shell and not looked at.
runtimeSearchFiles   == Tool({"malformed", "empty", "dangerous"}, {"ok", "error"}, {})
runtimeListDirectory == Tool({"malformed", "outside"}, {"ok", "error"}, {})
runtimeApplyPatch    == Tool({"malformed", "empty"}, {"ok", "reported"}, {"ok", "reported"})
runtimeRunCommand    == Tool({"malformed"} \cup rejectDangerousRuntimeCommand, {"ok", "error"}, {"ok", "error"})
runtimeInspectRepo   == Tool({}, {"ok", "error"}, {})
runtimeGetGitDiff    == Tool({}, {"ok", "error"}, {})
runtimeCreateCommit  == Tool({"malformed", "empty"}, {"ok", "reported"}, {})
runtimeRunTests      == Tool({"malformed"} \cup rejectDangerousRuntimeCommand, {"ok", "error"}, {"ok", "error"})

executeRuntimeTool ==
    [ read_file |-> runtimeReadFile, write_file |-> runtimeWriteFile,
      search_files |-> runtimeSearchFiles, list_directory |-> runtimeListDirectory,
      apply_patch |-> runtimeApplyPatch, run_command |-> runtimeRunCommand,
      inspect_repo |-> runtimeInspectRepo, get_git_diff |-> runtimeGetGitDiff,
      create_commit |-> runtimeCreateCommit, run_tests |-> runtimeRunTests ]

-----------------------------------------------------------------------------
(* Which of the two a workspace gets, for its provider and whether it has a*)
(* session.                                                                *)
runtimeProviderForWorkspace(ws) ==
    IF      ws.provider \in {"none", "local", "unprovisioned"} THEN "tools"
    ELSE IF ~ws.session \/ ws.provider # "docker" THEN "error"
    ELSE "runtime"

ToolsOf(ws) ==
    IF runtimeProviderForWorkspace(ws) = "runtime" THEN executeRuntimeTool ELSE executeToolUnchecked

sandboxState(ws) ==
    CASE ws.provider \in {"docker", "gvisor", "firecracker", "kubernetes"} -> "isolated"
      [] ws.provider = "local" -> "trusted_local"
      [] OTHER -> ws.provider

-----------------------------------------------------------------------------
(* The capability a tool needs, and the tools whose authority is bound to  *)
(* the revision of the workspace.                                          *)

toolOperation ==
    [ read_file |-> "read_file", write_file |-> "write_file", search_files |-> "search_repository",
      list_directory |-> "read_file", apply_patch |-> "apply_patch", run_command |-> "run_command",
      inspect_repo |-> "static_analysis", get_git_diff |-> "read_file",
      create_commit |-> "create_commit", run_tests |-> "run_tests" ]

toolRequiresWorkspaceRevision == {"write_file", "apply_patch", "run_command", "create_commit"}

=============================================================================
