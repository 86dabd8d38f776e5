------------------------------ MODULE Policies ------------------------------
(***************************************************************************)
(* What the capability kernel decides: the role permissions and the default*)
(* policies of packages/policies, and Kernel.Evaluate, which combines them *)
(* with the budget and the sandbox.                                        *)
(***************************************************************************)
EXTENDS Integers, FiniteSets, Sequences

Effects == {"allow", "ask", "deny", "admin_only"}

Rank(effect) == CASE effect = "allow" -> 0 [] effect = "ask" -> 1
                  [] effect = "deny" -> 2 [] effect = "admin_only" -> 3

MoreRestrictiveThan(e, other) == Rank(e) > Rank(other)

MostRestrictive(S) == CHOOSE e \in S : \A o \in S : ~MoreRestrictiveThan(o, e)

-----------------------------------------------------------------------------
(* A policy applies to a resource type and an action, "*" for any, under a *)
(* condition on one key of the request, or none.                           *)

NoCondition == <<"none", "none">>

P(type, action, effect)           == [type |-> type, action |-> action, effect |-> effect, when |-> NoCondition]
PWhen(type, action, effect, cond) == [type |-> type, action |-> action, effect |-> effect, when |-> cond]

DefaultPolicies ==
    { P("file", "read", "allow"), P("command", "search", "allow"),
      P("command", "analyze", "allow"), P("command", "test", "allow"),
      P("file", "write", "ask"), P("command", "execute", "ask"), P("command", "install", "ask"),
      P("command", "migrate", "ask"), P("git", "commit", "ask"), P("git", "push", "ask"),
      P("network", "*", "ask"), P("git", "create_pr", "ask"),
      PWhen("secret", "read", "deny", <<"scope", "production">>),
      P("command", "destructive_db", "deny"),
      PWhen("file", "delete", "deny", <<"min_size_mb", "10">>),
      PWhen("git", "push", "deny", <<"branch", "main">>),
      PWhen("deploy", "*", "deny", <<"environment", "production">>),
      PWhen("deploy", "*", "admin_only", <<"environment", "production">>),
      P("git", "merge", "admin_only"), P("secret", "write", "admin_only"),
      P("secret", "rotate", "admin_only"), P("policy", "*", "admin_only") }

Match(p, type, action) == p.type \in {"*", type} /\ p.action \in {"*", action}

(* A key the request does not carry is looked up in its context: scope is  *)
(* the runtime provider, branch the workspace's, environment the task's    *)
(* risk level.  Any other missing key makes the policy inapplicable.       *)
ContextKeys == {"scope", "branch", "environment"}

checkConditions(p, context) ==
    \/ p.when = NoCondition
    \/ p.when[1] \in ContextKeys /\ context[p.when[1]] = p.when[2]

Matching(policies, type, action, context) ==
    { p \in policies : Match(p, type, action) /\ checkConditions(p, context) }

(* Engine.Evaluate: priority orders the walk, and does not change what it  *)
(* returns.                                                                *)
Evaluate(policies, type, action, context, default) ==
    LET M == { p.effect : p \in Matching(policies, type, action, context) }
    IN  IF M = {} THEN default ELSE MostRestrictive(M)

-----------------------------------------------------------------------------
(* Roles.                                                                  *)

RBACConfig ==
    [role \in {"owner", "admin", "member"} |->
        CASE role = "owner" -> { <<"*", "*">> }
          [] role = "admin" ->
               { <<"file", "read">>, <<"file", "write">>, <<"command", "read">>, <<"command", "execute">>,
                 <<"git", "*">>, <<"network", "read">>, <<"deploy", "read">>, <<"deploy", "execute">>,
                 <<"secret", "read">>, <<"secret", "write">>, <<"organization", "read">>,
                 <<"organization", "write">>, <<"project", "*">>, <<"user", "*">>, <<"policy", "*">>,
                 <<"audit", "read">>, <<"integration", "*">> }
          [] role = "member" ->
               { <<"file", "read">>, <<"file", "write">>, <<"command", "read">>, <<"git", "read">>,
                 <<"git", "write">>, <<"network", "read">>, <<"project", "read">>, <<"task", "*">>,
                 <<"repository", "read">> }]

Can(role, type, action) ==
    \E p \in RBACConfig[role] : p[1] \in {"*", type} /\ p[2] \in {"*", action}

-----------------------------------------------------------------------------
(* The kernel.                                                             *)

operationResourceMap ==
    [ read_file |-> <<"file", "read">>, write_file |-> <<"file", "write">>,
      apply_patch |-> <<"file", "write">>, delete_file |-> <<"file", "delete">>,
      run_command |-> <<"command", "execute">>, run_tests |-> <<"command", "test">>,
      install_dependency |-> <<"command", "install">>, access_secret |-> <<"secret", "read">>,
      write_secret |-> <<"secret", "write">>, rotate_secret |-> <<"secret", "rotate">>,
      network_request |-> <<"network", "request">>, call_mcp_tool |-> <<"command", "execute">>,
      start_preview_server |-> <<"deploy", "execute">>, stop_preview_server |-> <<"deploy", "execute">>,
      run_migration |-> <<"command", "migrate">>, destructive_db |-> <<"command", "destructive_db">>,
      create_commit |-> <<"git", "commit">>, push_branch |-> <<"git", "push">>,
      open_pull_request |-> <<"git", "create_pr">>, merge_pull_request |-> <<"git", "merge">>,
      deploy |-> <<"deploy", "execute">>, delete_workspace |-> <<"workspace", "delete">>,
      modify_policy |-> <<"policy", "write">>, modify_budget |-> <<"budget", "write">>,
      search_repository |-> <<"command", "search">>, static_analysis |-> <<"command", "analyze">> ]

Operations == DOMAIN operationResourceMap

HighRisk == {"deploy", "destructive_db", "merge_pull_request", "delete_workspace", "modify_policy",
             "modify_budget", "push_branch", "write_secret", "rotate_secret"}

NoUser == "nobody"

(* Kernel.Evaluate for a request [op, role, context, sandbox, overBudget]: *)
(* the role comes first, then the policies, then the budget; an isolated   *)
(* sandbox turns an allowed high-risk operation into a question.           *)
Decision(req) ==
    LET pair   == operationResourceMap[req.op]
        policy == Evaluate(DefaultPolicies, pair[1], pair[2], req.context, "ask")
    IN  IF      req.role # NoUser /\ ~Can(req.role, pair[1], pair[2]) THEN "deny"
        ELSE IF req.overBudget THEN "deny"
        ELSE IF req.sandbox = "isolated" /\ req.op \in HighRisk /\ policy = "allow" THEN "ask"
        ELSE policy

RequiredApproval(effect) == effect \in {"ask", "admin_only"}

=============================================================================
