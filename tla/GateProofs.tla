----------------------------- MODULE GateProofs -----------------------------
(***************************************************************************)
(* Proofs about Gate, for every number of runners, approvals and answers:  *)
(* its types, who holds which approval, that the runner implements         *)
(* Authority, and the bound on the tool calls of a run.                    *)
(***************************************************************************)
EXTENDS Gate, ManifestProofs, TLAPS

Approval == [grant : Grants, response : {"none", "approved", "rejected"}, consumed : BOOLEAN]

Local == [call : Call \cup {NoCall}, grant : Grants, left : 0..MaxSteps,
          used : [tool : Nat, shell : Nat], candidates : SUBSET (DOMAIN approvals), paid : Nat]

Deed == [grant : Grants, paid : Nat]

(* Authority for a call of a runner: asked of the approvals, or consumed   *)
(* and about to be used.                                                   *)
Authorised(w) ==
    pc[w] \in {"authorize", "consume", "execute"} => local[w].call \in Call

Sought(w) ==
    pc[w] = "consume" =>
        /\ Privileged(local[w].call)
        /\ \A a \in local[w].candidates : approvals[a].grant = local[w].grant

Holds(w) == pc[w] = "execute" /\ Privileged(local[w].call)

HoldsOne(w) ==
    Holds(w) => LET a == local[w].paid IN
        /\ a \in DOMAIN approvals /\ approvals[a].consumed /\ ~Paid(a)
        /\ approvals[a].grant = local[w].grant

(* What was carried out was paid for with an approval that is consumed, an *)
(* approval that a runner holds has not paid yet, and no two hold one.     *)
HeldOnce ==
    /\ \A w \in Runner : Authorised(w) /\ Sought(w) /\ HoldsOne(w)
    /\ \A v, w \in Runner : Holds(v) /\ Holds(w) /\ local[v].paid = local[w].paid => v = w
    /\ \A k \in DOMAIN performed :
          performed[k].paid \in DOMAIN approvals /\ approvals[performed[k].paid].consumed

-----------------------------------------------------------------------------
(* Types.                                                                  *)

(* The type invariant with the sets of records named, so that the prover   *)
(* need not open them.                                                     *)
LEMMA TypeForm ==
    TypeOK <=> /\ run \in {"queued", "running", "paused", "completed", "failed", "cancelled"}
               /\ task \in {"running", "failed"}
               /\ trig \in Nat /\ steps \in [tool : Nat, shell : Nat]
               /\ seen \in 0..Len(approvals) /\ tree \in 0..MaxTree
               /\ approvals \in Seq(Approval)
               /\ answers \subseteq (DOMAIN approvals) \X {"approved", "rejected"}
               /\ performed \in Seq([grant : Grants, paid : Nat])
               /\ pc \in [Runner -> Steps]
               /\ local \in [Runner -> Local]
  BY DEF TypeOK, Approval, Local

(* The names of the steps.                                                 *)
LEMMA StepNames ==
    {"idle", "load", "model", "authorize", "consume", "execute", "ask", "pause", "final", "complete",
     "fail"} = Steps
  BY DEF Steps

(* A runner at rest has a local state of the type.                         *)
LEMMA IdleType == Idle \in Local
<1>1. NoUse \in [tool : Nat, shell : Nat] /\ NoGrant \in Grants
  BY DEF NoUse, NoGrant, Grants
<1>2. 0 \in 0..MaxSteps
  BY GateAssumption
<1> QED
  BY <1>1, <1>2 DEF Idle, Local

(* Counting a call keeps the counters.                                     *)
LEMMA CountType ==
    ASSUME NEW u \in [tool : Nat, shell : Nat], NEW t
    PROVE  Count(u, t) \in [tool : Nat, shell : Nat]
  BY DEF Count

(* The grant that is asked for a call is one of the instance.              *)
LEMMA GrantType ==
    ASSUME NEW c \in Call, NEW rev \in 0..MaxTree \cup {NoRevision}
    PROVE  GrantFor(c, rev) \in Grants
  BY DEF GrantFor, Grants

(* Answering or consuming an approval replaces a field of it.              *)
Responded(s, t, a, r) == t = [s EXCEPT ![a].response = r]
Consumed(s, t, a)     == t = [s EXCEPT ![a].consumed = TRUE]

(* An answer leaves the other approvals, and of its own what was asked for *)
(* and whether it is consumed.                                             *)
LEMMA Respond ==
    ASSUME NEW s \in Seq(Approval), NEW a \in DOMAIN s, NEW r \in {"approved", "rejected"},
           NEW t, Responded(s, t, a, r)
    PROVE  /\ t \in Seq(Approval) /\ DOMAIN t = DOMAIN s /\ Len(t) = Len(s)
           /\ \A b \in DOMAIN s \ {a} : t[b] = s[b]
           /\ t[a].grant = s[a].grant /\ t[a].response = r /\ t[a].consumed = s[a].consumed
<1> DEFINE x == [s[a] EXCEPT !.response = r]
<1>1. s[a] \in Approval
  OBVIOUS
<1>2. x \in Approval /\ x.grant = s[a].grant /\ x.response = r /\ x.consumed = s[a].consumed
  BY <1>1 DEF Approval
<1>3. t = [s EXCEPT ![a] = x]
  BY DEF Responded
<1> HIDE DEF x
<1>4. t \in Seq(Approval) /\ DOMAIN t = DOMAIN s /\ Len(t) = Len(s)
  <2> s \in Seq(Approval) /\ a \in DOMAIN s
    OBVIOUS
  <2> QED
    BY ONLY s \in Seq(Approval), a \in DOMAIN s, <1>2, <1>3
<1>5. (\A b \in DOMAIN s \ {a} : t[b] = s[b]) /\ t[a] = x
  BY <1>3
<1> QED
  BY <1>2, <1>4, <1>5

(* Consuming leaves the other approvals, and of its own what was asked for *)
(* and answered.                                                           *)
LEMMA Consume ==
    ASSUME NEW s \in Seq(Approval), NEW a \in DOMAIN s,
           NEW t, Consumed(s, t, a)
    PROVE  /\ t \in Seq(Approval) /\ DOMAIN t = DOMAIN s /\ Len(t) = Len(s)
           /\ \A b \in DOMAIN s \ {a} : t[b] = s[b]
           /\ t[a].grant = s[a].grant /\ t[a].response = s[a].response /\ t[a].consumed
<1> DEFINE x == [s[a] EXCEPT !.consumed = TRUE]
<1>1. s[a] \in Approval
  OBVIOUS
<1>2. x \in Approval /\ x.grant = s[a].grant /\ x.response = s[a].response
  BY <1>1 DEF Approval
<1>c. x.consumed = TRUE
  BY <1>1 DEF Approval
<1>3. t = [s EXCEPT ![a] = x]
  BY DEF Consumed
<1> HIDE DEF x
<1>4. t \in Seq(Approval) /\ DOMAIN t = DOMAIN s /\ Len(t) = Len(s)
  <2> s \in Seq(Approval) /\ a \in DOMAIN s
    OBVIOUS
  <2> QED
    BY ONLY s \in Seq(Approval), a \in DOMAIN s, <1>2, <1>3
<1>5. (\A b \in DOMAIN s \ {a} : t[b] = s[b]) /\ t[a] = x
  BY <1>3
<1> QED
  BY <1>2, <1>c, <1>4, <1>5

(* Approvals only grow, keep what they were asked for, and one that is     *)
(* consumed stays so.                                                      *)
Grown ==
    /\ approvals' \in Seq(Approval)
    /\ DOMAIN approvals \subseteq DOMAIN approvals'
    /\ \A a \in DOMAIN approvals : /\ approvals'[a].grant = approvals[a].grant
                                   /\ approvals[a].consumed => approvals'[a].consumed

(* No step forgets an approval, or that it was consumed.                   *)
LEMMA ApprovalsGrow ==
    ASSUME TypeOK, [Next]_vars
    PROVE  Grown
<1> USE TypeForm
<1>t. approvals \in Seq(Approval)
  OBVIOUS
<1>0. UNCHANGED approvals => Grown
  BY <1>t DEF Grown
<1>1. ASSUME NEW a \in DOMAIN approvals, NEW r \in {"approved", "rejected"}, SetResponse(a, r)
      PROVE  Grown
  <2>1. /\ approvals' \in Seq(Approval) /\ DOMAIN approvals' = DOMAIN approvals
        /\ \A b \in DOMAIN approvals \ {a} : approvals'[b] = approvals[b]
        /\ approvals'[a].grant = approvals[a].grant /\ approvals'[a].consumed = approvals[a].consumed
    <3>1. Responded(approvals, approvals', a, r)
      BY <1>1 DEF Responded, SetResponse
    <3> QED
      BY ONLY <1>1, <1>t, <3>1, Respond
  <2> QED
    BY <2>1 DEF Grown
<1>2. ASSUME NEW w \in Runner, Ask(w) PROVE Grown
  <2>1. local[w].grant \in Grants
    BY DEF Local
  <2>2. CASE approvals' = Request(local[w].grant)
    <3>1. [grant |-> local[w].grant, response |-> "none", consumed |-> FALSE] \in Approval
      BY <2>1 DEF Approval
    <3> QED
      BY <2>2, <3>1 DEF Request, Grown
  <2> QED
    BY <1>0, <1>2, <2>2 DEF Ask
<1>3. ASSUME NEW w \in Runner, consumeApprovedAuthority(w) PROVE Grown
  <2>1. ASSUME NEW a \in DOMAIN approvals, approvals' = [approvals EXCEPT ![a].consumed = TRUE]
        PROVE  Grown
    <3>1. /\ approvals' \in Seq(Approval) /\ DOMAIN approvals' = DOMAIN approvals
          /\ \A b \in DOMAIN approvals \ {a} : approvals'[b] = approvals[b]
          /\ approvals'[a].grant = approvals[a].grant /\ approvals'[a].consumed
      <4>1. Consumed(approvals, approvals', a)
        BY <2>1 DEF Consumed
      <4>2. a \in DOMAIN approvals
        OBVIOUS
      <4> QED
        BY ONLY <1>t, <4>1, <4>2, Consume
    <3> QED
      BY <3>1 DEF Grown
  <2>2. local[w].candidates \subseteq DOMAIN approvals
    BY DEF Local
  <2> QED
    BY <1>0, <1>3, <2>1, <2>2 DEF consumeApprovedAuthority
<1>4. ASSUME NEW w \in Runner, RunStep(w) PROVE Grown
  BY <1>0, <1>2, <1>3, <1>4
  DEF RunStep, Admit, LoadRun, nextModelAction, authorizeTool, executeTool, requestCapabilityApproval,
      requestModelApproval, pauseRun, failRun, updateRunCompletion, Leave, runFinalChecks, CrashRunner
<1>5. ASSUME NEW a \in DOMAIN approvals, AnswerStep(a) PROVE Grown
  BY <1>0, <1>1, <1>5
  DEF AnswerStep, RespondApproval, handleCommandEvent, ServiceReads, HandleApprovalApproved, HandleApprovalRejected
<1>6. ASSUME NEW r \in {"approved", "rejected"}, ServiceResponds(r) PROVE Grown
  <2>1. seen \in DOMAIN approvals
    BY <1>6 DEF ServiceResponds
  <2> QED
    BY <1>1, <1>6, <2>1 DEF ServiceResponds
<1> QED
  BY <1>0, <1>4, <1>5, <1>6 DEF Next, vars, CancelAgentRun, EditWorkspace

(* Every step keeps the types, if a runner that authorises, consumes or    *)
(* executes has a call in hand.                                            *)
LEMMA TypeStep == TypeOK /\ (\A w \in Runner : Authorised(w)) /\ [Next]_vars => TypeOK'
<1> SUFFICES ASSUME TypeOK, \A w \in Runner : Authorised(w), [Next]_vars PROVE TypeOK'
  OBVIOUS
<1>t. /\ run \in {"queued", "running", "paused", "completed", "failed", "cancelled"}
      /\ task \in {"running", "failed"}
      /\ trig \in Nat /\ steps \in [tool : Nat, shell : Nat]
      /\ seen \in 0..Len(approvals) /\ tree \in 0..MaxTree
      /\ approvals \in Seq(Approval)
      /\ answers \subseteq (DOMAIN approvals) \X {"approved", "rejected"}
      /\ performed \in Seq([grant : Grants, paid : Nat])
      /\ pc \in [Runner -> Steps]
      /\ local \in [Runner -> Local]
  BY TypeForm
<1>g. approvals' \in Seq(Approval) /\ DOMAIN approvals \subseteq DOMAIN approvals'
  BY ApprovalsGrow DEF Grown
<1>l. Local \subseteq Local'
  BY <1>g DEF Local
<1>i. Idle \in Local'
  BY <1>l, IdleType
<1> DEFINE LocalOK == local' \in [Runner -> Local']
           SeenOK  == seen' \in 0..Len(approvals')
           AnswersOK == answers' \subseteq (DOMAIN approvals') \X {"approved", "rejected"}
           RunOK   == run' \in {"queued", "running", "paused", "completed", "failed", "cancelled"}
           TaskOK  == task' \in {"running", "failed"}
           CountOK == trig' \in Nat /\ steps' \in [tool : Nat, shell : Nat] /\ tree' \in 0..MaxTree
           DoneOK  == performed' \in Seq([grant : Grants, paid : Nat])
           PcOK    == pc' \in [Runner -> Steps]
<1>q. RunOK /\ TaskOK /\ CountOK /\ SeenOK /\ AnswersOK /\ DoneOK /\ PcOK /\ LocalOK => TypeOK'
  BY <1>g DEF TypeOK, Approval, Local
<1>u. /\ UNCHANGED run => RunOK
      /\ UNCHANGED task => TaskOK
      /\ UNCHANGED <<trig, steps, tree>> => CountOK
      /\ UNCHANGED seen => SeenOK
      /\ UNCHANGED answers => AnswersOK
      /\ UNCHANGED performed => DoneOK
      /\ UNCHANGED pc => PcOK
      /\ UNCHANGED local => LocalOK
  <2>1. UNCHANGED seen => SeenOK
    BY <1>t, <1>g
  <2>2. UNCHANGED answers => AnswersOK
    BY <1>t, <1>g
  <2>3. UNCHANGED local => LocalOK
    BY <1>t, <1>l
  <2> QED
    BY <1>t, <2>1, <2>2, <2>3
<1>p. ASSUME NEW w \in Runner, NEW s \in Steps, Goto(w, s) PROVE PcOK
  BY <1>p, <1>t DEF Goto
<1>r. ASSUME NEW w \in Runner, NEW l \in Local', Remember(w, l) PROVE LocalOK
  BY <1>r, <1>t, <1>l DEF Remember
<1>k. Acknowledge => trig' \in Nat
  BY <1>t DEF Acknowledge
<1> HIDE DEF LocalOK, SeenOK, AnswersOK, RunOK, TaskOK, CountOK, DoneOK, PcOK
<1>n. {"idle", "load", "model", "authorize", "consume", "execute", "ask", "pause", "final", "complete",
       "fail"} \subseteq Steps
  BY StepNames
<1>1. ASSUME NEW w \in Runner, Admit(w) PROVE TypeOK'
  <2>1. PcOK
    BY <1>1, <1>p, <1>u, <1>n DEF Admit
  <2>2. CountOK
    BY <1>1, <1>k, <1>t DEF Admit, CountOK
  <2> QED
    BY <1>1, <1>q, <1>u, <2>1, <2>2 DEF Admit
<1>2. ASSUME NEW w \in Runner, LoadRun(w) PROVE TypeOK'
  <2>1. ASSUME NEW history \in loadRunHistory
        PROVE  [Idle EXCEPT !.left = MaxSteps, !.used = seedRunState(history)] \in Local'
    <3>1. seedRunState(history) \in [tool : Nat, shell : Nat]
      BY <1>t DEF loadRunHistory, seedRunState, NoUse
    <3>2. MaxSteps \in 0..MaxSteps
      BY GateAssumption
    <3> QED
      BY <1>i, <3>1, <3>2 DEF Local
  <2>2. LocalOK
    BY <1>2, <1>r, <1>u, <2>1 DEF LoadRun, loadAgentRun, loadTask, loadWorkspace
  <2>3. RunOK
    BY <1>2, <1>u DEF LoadRun, RunOK, loadAgentRun, loadTask, loadWorkspace
  <2>4. CountOK
    BY <1>2, <1>k, <1>t DEF LoadRun, CountOK, loadAgentRun, loadTask, loadWorkspace
  <2>5. PcOK
    BY <1>2, <1>p, <1>n DEF LoadRun, loadAgentRun, loadTask, loadWorkspace
  <2> QED
    BY <1>2, <1>q, <1>u, <2>2, <2>3, <2>4, <2>5 DEF LoadRun
<1>3. ASSUME NEW w \in Runner, nextModelAction(w) PROVE TypeOK'
  <2>0. local[w] \in Local
    BY <1>t
  <2>1. ASSUME local[w].left # 0, NEW c \in Call
        PROVE  [local[w] EXCEPT !.call = c, !.left = @ - 1] \in Local'
    <3>1. local[w].left - 1 \in 0..MaxSteps
      BY <2>0, <2>1, GateAssumption DEF Local
    <3>2. [local[w] EXCEPT !.call = c, !.left = @ - 1] \in Local
      BY <2>0, <3>1 DEF Local
    <3> QED
      BY <1>l, <3>2
  <2>2. ASSUME local[w].left # 0
        PROVE  [local[w] EXCEPT !.grant = NoGrant, !.left = @ - 1] \in Local'
    <3>1. local[w].left - 1 \in 0..MaxSteps
      BY <2>0, <2>2, GateAssumption DEF Local
    <3>2. NoGrant \in Grants
      BY DEF Grants
    <3>3. [local[w] EXCEPT !.grant = NoGrant, !.left = @ - 1] \in Local
      BY <2>0, <3>1, <3>2 DEF Local
    <3> QED
      BY <1>l, <3>3
  <2>3. LocalOK
    BY <1>3, <1>r, <1>u, <2>1, <2>2 DEF nextModelAction, runToolStep, FinalResponse, AskHuman, NoAction
  <2>4. steps' \in [tool : Nat, shell : Nat]
    BY <1>3, <1>t, CountType DEF nextModelAction, runToolStep, FinalResponse, AskHuman, NoAction
  <2>5. PcOK
    BY <1>3, <1>p, <1>n DEF nextModelAction, runToolStep, FinalResponse, AskHuman, NoAction
  <2> QED
    BY <1>3, <1>q, <1>u, <1>t, <2>3, <2>4, <2>5 DEF nextModelAction, CountOK
<1>4. ASSUME NEW w \in Runner, authorizeTool(w) PROVE TypeOK'
  <2> DEFINE c   == local[w].call
             rev == IF c[1] \in toolRequiresWorkspaceRevision THEN workspaceSubjectRevision ELSE NoRevision
             g   == GrantFor(c, rev)
             l   == [local[w] EXCEPT !.grant = g, !.candidates = ApprovedAuthority(g)]
  <2>1. c \in Call
    BY <1>4 DEF authorizeTool, Authorised
  <2>2. rev \in 0..MaxTree \cup {NoRevision}
    BY <1>t DEF workspaceSubjectRevision
  <2>3. g \in Grants
    BY <2>1, <2>2, GrantType
  <2>4. ApprovedAuthority(g) \in SUBSET (DOMAIN approvals)
    BY DEF ApprovedAuthority
  <2>5. local[w] \in Local
    BY <1>t
  <2>6. l \in Local'
    <3> HIDE DEF g
    <3>1. l \in Local
      BY <2>3, <2>4, <2>5 DEF Local
    <3> QED
      BY <3>1, <1>l
  <2>7. UNCHANGED local \/ Remember(w, l)
    BY <1>4 DEF authorizeTool
  <2> HIDE DEF l
  <2>8. LocalOK
    BY <1>r, <1>u, <2>6, <2>7
  <2>9. PcOK
    BY <1>4, <1>p, <1>n DEF authorizeTool
  <2> QED
    BY <1>4, <1>q, <1>u, <2>8, <2>9 DEF authorizeTool
<1>5. ASSUME NEW w \in Runner, consumeApprovedAuthority(w) PROVE TypeOK'
  <2>0. local[w] \in Local
    BY <1>t
  <2>1. ASSUME NEW a \in local[w].candidates
        PROVE  [local[w] EXCEPT !.paid = a, !.candidates = {}] \in Local'
    <3>1. a \in Nat
      BY <2>0, <1>t DEF Local
    <3>2. [local[w] EXCEPT !.paid = a, !.candidates = {}] \in Local
      BY <2>0, <3>1 DEF Local
    <3> QED
      BY <1>l, <3>2
  <2>2. ASSUME NEW a \in local[w].candidates
        PROVE  [local[w] EXCEPT !.candidates = @ \ {a}] \in Local'
    <3>1. [local[w] EXCEPT !.candidates = @ \ {a}] \in Local
      BY <2>0 DEF Local
    <3> QED
      BY <1>l, <3>1
  <2>3. LocalOK
    BY <1>5, <1>r, <1>u, <2>1, <2>2 DEF consumeApprovedAuthority
  <2>4. PcOK
    BY <1>5, <1>p, <1>u, <1>n DEF consumeApprovedAuthority
  <2> QED
    BY <1>5, <1>q, <1>u, <2>3, <2>4 DEF consumeApprovedAuthority
<1>e. ASSUME NEW changes, After(changes) <= MaxTree PROVE After(changes) \in 0..MaxTree
  BY <1>e, <1>t, GateAssumption DEF After
<1>6. ASSUME NEW w \in Runner, executeTool(w) PROVE TypeOK'
  <2>0. local[w] \in Local
    BY <1>t
  <2> DEFINE used == Count(local[w].used, local[w].call[1])
             l    == [Idle EXCEPT !.left = local[w].left, !.used = used]
             d    == [grant |-> local[w].grant, paid |-> local[w].paid]
  <2>1. used \in [tool : Nat, shell : Nat]
    BY <2>0, CountType DEF Local
  <2>2. l \in Local'
    <3> HIDE DEF used
    <3>1. l \in Local
      BY <2>0, <2>1, IdleType DEF Local
    <3> QED
      BY <1>l, <3>1
  <2>3. d \in [grant : Grants, paid : Nat]
    BY <2>0 DEF Local
  <2>4. PICK o \in Attempts(local[w].call[1]) :
           /\ tree' = After(o.changes)
           /\ performed' = IF Privileged(local[w].call) THEN Append(performed, d) ELSE performed
           /\ Remember(w, l)
           /\ \E s \in {"model", "fail"} : Goto(w, s)
    <3> HIDE DEF used
    <3> QED
      BY <1>6 DEF executeTool, used
  <2>5. After(o.changes) <= MaxTree
    BY DEF Attempts
  <2>6. tree' \in 0..MaxTree
    BY <2>4, <2>5, <1>e
  <2> HIDE DEF l, d
  <2>7. LocalOK /\ PcOK
    BY <1>p, <1>r, <1>n, <2>2, <2>4
  <2>8. DoneOK
    <3>1. performed' = performed \/ performed' = Append(performed, d)
      BY <2>4
    <3>2. performed \in Seq(Deed) /\ d \in Deed
      BY <1>t, <2>3 DEF Deed
    <3>3. performed' \in Seq(Deed)
      BY ONLY <3>1, <3>2
    <3> QED
      BY <3>3 DEF DoneOK, Deed
  <2>9. UNCHANGED <<run, task, trig, steps, answers, seen>>
    BY <1>6 DEF executeTool
  <2>10. CountOK
    BY <1>t, <2>6, <2>9 DEF CountOK
  <2> QED
    BY <1>q, <1>u, <2>7, <2>8, <2>9, <2>10
<1>7. ASSUME NEW w \in Runner, Ask(w) PROVE TypeOK'
  <2>1. PcOK
    BY <1>7, <1>p, <1>n DEF Ask
  <2> QED
    BY <1>7, <1>q, <1>u, <2>1 DEF Ask
<1>8. ASSUME NEW w \in Runner, NEW s \in {"paused", "failed", "completed"}, Leave(w, s) PROVE TypeOK'
  <2>1. RunOK
    BY <1>8, <1>t DEF Leave, RunOK
  <2>2. PcOK /\ LocalOK
    BY <1>8, <1>p, <1>r, <1>n, <1>i DEF Leave
  <2>3. CountOK
    BY <1>8, <1>t, <1>k DEF Leave, CountOK
  <2> QED
    BY <1>8, <1>q, <1>u, <2>1, <2>2, <2>3 DEF Leave
<1>9. ASSUME NEW w \in Runner, runFinalChecks(w) \/ CrashRunner(w) PROVE TypeOK'
  <2>1. PcOK
    BY <1>9, <1>p, <1>n DEF runFinalChecks, CrashRunner
  <2>2. LocalOK
    BY <1>9, <1>r, <1>u, <1>i DEF runFinalChecks, CrashRunner
  <2>3. CountOK
    BY <1>9, <1>t, <1>e DEF runFinalChecks, CrashRunner, Attempts, CountOK
  <2> QED
    BY <1>9, <1>q, <1>u, <2>1, <2>2, <2>3 DEF runFinalChecks, CrashRunner
<1>10. ASSUME NEW w \in Runner, RunStep(w) PROVE TypeOK'
  BY <1>10, <1>1, <1>2, <1>3, <1>4, <1>5, <1>6, <1>7, <1>8, <1>9
  DEF RunStep, requestCapabilityApproval, requestModelApproval, pauseRun, failRun, updateRunCompletion
<1>11. ASSUME NEW a \in DOMAIN approvals, NEW r \in {"approved", "rejected"}, Publish(a, r) PROVE AnswersOK
  BY <1>11, <1>t, <1>g DEF Publish, AnswersOK
<1>12. ASSUME NEW r, FailTask(r) PROVE TaskOK
  BY <1>12, <1>t DEF FailTask, TaskOK
<1>13. ASSUME NEW a \in DOMAIN approvals, AnswerStep(a) PROVE TypeOK'
  <2>1. ASSUME NEW r \in {"approved", "rejected"}, RespondApproval(a, r) PROVE TypeOK'
    BY <2>1, <1>11, <1>12, <1>q, <1>u DEF RespondApproval
  <2>2. ASSUME NEW r \in {"approved", "rejected"}, handleCommandEvent(a, r) PROVE TypeOK'
    BY <2>2, <1>q, <1>u DEF handleCommandEvent
  <2>3. CASE ServiceReads(a)
    <3>1. SeenOK
      BY <2>3, <1>t, <1>g DEF ServiceReads, SeenOK
    <3> QED
      BY <2>3, <3>1, <1>q, <1>u DEF ServiceReads
  <2>4. CASE HandleApprovalApproved(a)
    <3>1. AnswersOK
      BY <2>4, <1>t, <1>g DEF HandleApprovalApproved, AnswersOK
    <3>2. RunOK /\ TaskOK /\ CountOK
      BY <2>4, <1>t DEF HandleApprovalApproved, RunOK, TaskOK, CountOK
    <3> QED
      BY <2>4, <3>1, <3>2, <1>q, <1>u DEF HandleApprovalApproved
  <2>5. CASE HandleApprovalRejected(a)
    <3>1. AnswersOK
      BY <2>5, <1>t, <1>g DEF HandleApprovalRejected, AnswersOK
    <3>2. RunOK /\ TaskOK
      BY <2>5, <1>t DEF HandleApprovalRejected, RunOK, TaskOK
    <3> QED
      BY <2>5, <3>1, <3>2, <1>q, <1>u DEF HandleApprovalRejected
  <2> QED
    BY <1>13, <2>1, <2>2, <2>3, <2>4, <2>5 DEF AnswerStep
<1>14. ASSUME NEW r \in {"approved", "rejected"}, ServiceResponds(r) PROVE TypeOK'
  <2>1. seen \in DOMAIN approvals
    BY <1>14, <1>t DEF ServiceResponds
  <2>2. AnswersOK /\ TaskOK
    BY <1>14, <1>11, <1>12, <2>1 DEF ServiceResponds
  <2>3. SeenOK
    BY <1>14, <1>g DEF ServiceResponds, SeenOK
  <2> QED
    BY <1>14, <1>q, <1>u, <2>2, <2>3 DEF ServiceResponds
<1>15. CASE CancelAgentRun \/ EditWorkspace
  <2>1. RunOK /\ CountOK
    BY <1>15, <1>t, GateAssumption DEF CancelAgentRun, EditWorkspace, RunOK, CountOK
  <2> QED
    BY <1>15, <1>q, <1>u, <2>1 DEF CancelAgentRun, EditWorkspace
<1>16. CASE UNCHANGED vars
  BY <1>16, <1>q, <1>u DEF vars
<1> QED
  BY <1>10, <1>13, <1>14, <1>15, <1>16 DEF Next

-----------------------------------------------------------------------------
(* Who holds which approval.                                               *)

(* A step that performs nothing and leaves a runner where it is takes      *)
(* nothing from it.                                                        *)
LEMMA Bystander ==
    ASSUME TypeOK, HeldOnce, [Next]_vars, UNCHANGED performed,
           NEW v \in Runner, pc'[v] = pc[v], local'[v] = local[v]
    PROVE  Authorised(v)' /\ Sought(v)' /\ HoldsOne(v)' /\ (Holds(v)' <=> Holds(v))
<1>1. Authorised(v) /\ Sought(v) /\ HoldsOne(v)
  BY DEF HeldOnce
<1>2. /\ DOMAIN approvals \subseteq DOMAIN approvals'
      /\ \A a \in DOMAIN approvals : /\ approvals'[a].grant = approvals[a].grant
                                     /\ approvals[a].consumed => approvals'[a].consumed
  <2>1. Grown
    BY ApprovalsGrow
  <2> QED
    BY <2>1 DEF Grown
<1>3. local[v].candidates \subseteq DOMAIN approvals
  BY TypeForm DEF Local
<1>4. Authorised(v)'
  BY <1>1 DEF Authorised
<1>5. Sought(v)'
  BY <1>1, <1>2, <1>3 DEF Sought
<1>6. Holds(v)' <=> Holds(v)
  BY DEF Holds
<1>7. \A a : Paid(a)' <=> Paid(a)
  BY DEF Paid
<1>8. HoldsOne(v)'
  BY <1>1, <1>2, <1>6, <1>7 DEF HoldsOne
<1> QED
  BY <1>4, <1>5, <1>6, <1>8

(* A step of one runner that performs nothing: what is left to show is what*)
(* the runner itself holds, and that nobody else holds it.                 *)
LEMMA OneMoves ==
    ASSUME TypeOK, HeldOnce, [Next]_vars, UNCHANGED performed, NEW w \in Runner,
           \A v \in Runner \ {w} : pc'[v] = pc[v] /\ local'[v] = local[v],
           Authorised(w)', Sought(w)', HoldsOne(w)',
           Holds(w)' => \A v \in Runner \ {w} : Holds(v) => local[v].paid # local'[w].paid
    PROVE  HeldOnce'
<1>1. \A v \in Runner \ {w} :
         Authorised(v)' /\ Sought(v)' /\ HoldsOne(v)' /\ (Holds(v)' <=> Holds(v)) /\ local'[v] = local[v]
  BY Bystander
<1>2. \A v \in Runner : (Authorised(v) /\ Sought(v) /\ HoldsOne(v))'
  BY <1>1
<1>3. ASSUME NEW u \in Runner, NEW v \in Runner, Holds(u)', Holds(v)', local'[u].paid = local'[v].paid
      PROVE  u = v
  BY <1>1, <1>3 DEF HeldOnce
<1>4. ASSUME NEW k \in DOMAIN performed
      PROVE  performed[k].paid \in DOMAIN approvals' /\ approvals'[performed[k].paid].consumed
  <2>1. Grown
    BY ApprovalsGrow
  <2>2. performed[k].paid \in DOMAIN approvals /\ approvals[performed[k].paid].consumed
    BY DEF HeldOnce
  <2> QED
    BY <2>1, <2>2 DEF Grown
<1> QED
  BY <1>2, <1>3, <1>4 DEF HeldOnce

(* A runner away from the authority of a call holds nothing.               *)
LEMMA Away ==
    ASSUME NEW w \in Runner, pc'[w] \notin {"authorize", "consume", "execute"}
    PROVE  Authorised(w)' /\ Sought(w)' /\ HoldsOne(w)' /\ ~Holds(w)'
  BY DEF Authorised, Sought, HoldsOne, Holds

(* Every step keeps what is held, once.                                    *)
LEMMA HeldStep == TypeOK /\ HeldOnce /\ [Next]_vars => HeldOnce'
<1> SUFFICES ASSUME TypeOK, HeldOnce, [Next]_vars PROVE HeldOnce'
  OBVIOUS
<1>t. pc \in [Runner -> Steps] /\ local \in [Runner -> Local] /\ approvals \in Seq(Approval)
  BY TypeForm
<1>p. ASSUME NEW w \in Runner, NEW s, Goto(w, s)
      PROVE  pc'[w] = s /\ \A v \in Runner \ {w} : pc'[v] = pc[v]
  BY <1>p, <1>t DEF Goto
<1>r. ASSUME NEW w \in Runner, NEW l, Remember(w, l)
      PROVE  local'[w] = l /\ \A v \in Runner \ {w} : local'[v] = local[v]
  BY <1>r, <1>t DEF Remember
<1>a. ASSUME NEW w \in Runner, UNCHANGED performed, NEW s \in Steps \ {"authorize", "consume", "execute"},
             Goto(w, s), UNCHANGED local \/ \E l : Remember(w, l)
      PROVE  HeldOnce'
  <2>1. pc'[w] \notin {"authorize", "consume", "execute"}
    BY <1>a, <1>p
  <2>2. \A v \in Runner \ {w} : pc'[v] = pc[v] /\ local'[v] = local[v]
    BY <1>a, <1>p, <1>r
  <2> QED
    BY <1>a, <2>1, <2>2, Away, OneMoves
<1>0. ASSUME UNCHANGED <<pc, local, performed>> PROVE HeldOnce'
  <2>1. \A v \in Runner : Authorised(v)' /\ Sought(v)' /\ HoldsOne(v)' /\ (Holds(v)' <=> Holds(v))
    BY <1>0, Bystander
  <2>2. ASSUME NEW u \in Runner, NEW v \in Runner, Holds(u)', Holds(v)', local'[u].paid = local'[v].paid
        PROVE  u = v
    BY <1>0, <2>1, <2>2 DEF HeldOnce
  <2>3. ASSUME NEW k \in DOMAIN performed
        PROVE  performed[k].paid \in DOMAIN approvals' /\ approvals'[performed[k].paid].consumed
    <3>1. Grown
      BY ApprovalsGrow
    <3>2. performed[k].paid \in DOMAIN approvals /\ approvals[performed[k].paid].consumed
      BY DEF HeldOnce
    <3> QED
      BY <3>1, <3>2 DEF Grown
  <2> QED
    BY <1>0, <2>1, <2>2, <2>3 DEF HeldOnce
<1>n. {"idle", "load", "model", "ask", "pause", "final", "complete", "fail"}
         \subseteq Steps \ {"authorize", "consume", "execute"}
  BY StepNames
<1>1. ASSUME NEW w \in Runner, Admit(w) PROVE HeldOnce'
  BY <1>1, <1>0, <1>a, <1>n DEF Admit
<1>2. ASSUME NEW w \in Runner, LoadRun(w) PROVE HeldOnce'
  <2>1. UNCHANGED performed
    BY <1>2 DEF LoadRun
  <2>2. UNCHANGED local \/ \E l : Remember(w, l)
    BY <1>2 DEF LoadRun, loadAgentRun, loadTask, loadWorkspace
  <2>3. \E s \in {"model", "idle", "fail"} : Goto(w, s)
    BY <1>2 DEF LoadRun, loadAgentRun, loadTask, loadWorkspace
  <2> QED
    BY <2>1, <2>2, <2>3, <1>a, <1>n
<1>3. ASSUME NEW w \in Runner, nextModelAction(w) PROVE HeldOnce'
  <2>1. UNCHANGED performed
    BY <1>3 DEF nextModelAction
  <2>2. ASSUME NEW c \in Call, runToolStep(w, c) PROVE HeldOnce'
    <3> DEFINE l == [local[w] EXCEPT !.call = c, !.left = @ - 1]
    <3>1. Goto(w, "authorize") /\ Remember(w, l)
      BY <2>2 DEF runToolStep
    <3>2. local[w] \in Local
      BY <1>t
    <3>3. l.call = c
      BY <3>2 DEF Local
    <3> HIDE DEF l
    <3>4. pc'[w] = "authorize" /\ local'[w].call = c
      BY <3>1, <3>3, <1>p, <1>r
    <3>5. \A v \in Runner \ {w} : pc'[v] = pc[v] /\ local'[v] = local[v]
      BY <3>1, <1>p, <1>r
    <3>6. Authorised(w)' /\ Sought(w)' /\ HoldsOne(w)' /\ ~Holds(w)'
      BY <3>4 DEF Authorised, Sought, HoldsOne, Holds
    <3> QED
      BY <2>1, <3>5, <3>6, OneMoves
  <2>3. ASSUME ~\E c \in Call : runToolStep(w, c) PROVE HeldOnce'
    <3>1. UNCHANGED local \/ \E l : Remember(w, l)
      BY <1>3, <2>3 DEF nextModelAction, FinalResponse, NoAction, AskHuman
    <3>2. \E s \in {"final", "ask", "fail"} : Goto(w, s)
      BY <1>3, <2>3 DEF nextModelAction, FinalResponse, NoAction, AskHuman
    <3> QED
      BY <2>1, <3>1, <3>2, <1>a, <1>n
  <2> QED
    BY <2>2, <2>3
<1>4. ASSUME NEW w \in Runner, authorizeTool(w) PROVE HeldOnce'
  <2> DEFINE c   == local[w].call
             rev == IF c[1] \in toolRequiresWorkspaceRevision THEN workspaceSubjectRevision ELSE NoRevision
             g   == GrantFor(c, rev)
             l   == [local[w] EXCEPT !.grant = g, !.candidates = ApprovedAuthority(g)]
  <2>0. UNCHANGED performed /\ UNCHANGED approvals
    BY <1>4 DEF authorizeTool
  <2>c. c \in Call
    BY <1>4 DEF authorizeTool, Authorised, HeldOnce
  <2>1. CASE Goto(w, "fail") /\ UNCHANGED local
    BY <2>0, <2>1, <1>a, <1>n
  <2>2. CASE DecisionFor[c] = "allow" /\ Goto(w, "execute") /\ UNCHANGED local
    <3>1. ~Privileged(c)
      BY <2>2 DEF Privileged, RequiredApproval
    <3>2. pc'[w] = "execute" /\ local'[w] = local[w]
      BY <2>2, <1>p
    <3>3. Authorised(w)' /\ Sought(w)' /\ HoldsOne(w)' /\ ~Holds(w)'
      BY <2>c, <3>1, <3>2 DEF Authorised, Sought, HoldsOne, Holds
    <3>4. \A v \in Runner \ {w} : pc'[v] = pc[v] /\ local'[v] = local[v]
      BY <2>2, <1>p
    <3> QED
      BY <2>0, <3>3, <3>4, OneMoves
  <2>3. CASE Privileged(c) /\ Remember(w, l) /\ Goto(w, "consume")
    <3>1. local[w] \in Local
      BY <1>t
    <3>2. l.call = c /\ l.grant = g /\ l.candidates = ApprovedAuthority(g)
      BY <3>1 DEF Local
    <3>3. \A a \in ApprovedAuthority(g) : approvals[a].grant = g
      BY DEF ApprovedAuthority
    <3> HIDE DEF l, g
    <3>4. pc'[w] = "consume" /\ local'[w] = l
      BY <2>3, <1>p, <1>r
    <3>5. Authorised(w)' /\ HoldsOne(w)' /\ ~Holds(w)'
      BY <2>c, <3>2, <3>4 DEF Authorised, HoldsOne, Holds
    <3>6. Sought(w)'
      BY <2>0, <2>3, <3>2, <3>3, <3>4 DEF Sought
    <3>7. \A v \in Runner \ {w} : pc'[v] = pc[v] /\ local'[v] = local[v]
      BY <2>3, <1>p, <1>r
    <3> QED
      BY <2>0, <3>5, <3>6, <3>7, OneMoves
  <2> QED
    BY <1>4, <2>1, <2>2, <2>3 DEF authorizeTool
<1>5. ASSUME NEW w \in Runner, consumeApprovedAuthority(w) PROVE HeldOnce'
  <2>0. UNCHANGED performed /\ pc[w] = "consume"
    BY <1>5 DEF consumeApprovedAuthority
  <2>l. local[w] \in Local /\ local[w].candidates \subseteq DOMAIN approvals
    <3>1. local[w] \in Local
      BY <1>t
    <3> QED
      BY <3>1 DEF Local
  <2>s. /\ local[w].call \in Call /\ Privileged(local[w].call)
        /\ \A a \in local[w].candidates : approvals[a].grant = local[w].grant
    BY <2>0 DEF HeldOnce, Sought, Authorised
  <2>1. CASE \E s \in {"ask", "fail"} : Goto(w, s) /\ UNCHANGED local
    BY <2>0, <2>1, <1>a, <1>n
  <2>2. ASSUME NEW a \in local[w].candidates, approvals[a].response = "approved", ~approvals[a].consumed,
               approvals' = [approvals EXCEPT ![a].consumed = TRUE],
               Remember(w, [local[w] EXCEPT !.paid = a, !.candidates = {}]), Goto(w, "execute")
        PROVE  HeldOnce'
    <3> DEFINE l == [local[w] EXCEPT !.paid = a, !.candidates = {}]
    <3>1. l.paid = a /\ l.call = local[w].call /\ l.grant = local[w].grant
      BY <2>l DEF Local
    <3>2. Remember(w, l)
      BY <2>2
    <3> HIDE DEF l
    <3>3. pc'[w] = "execute" /\ local'[w] = l
      BY <2>2, <3>2, <1>p, <1>r
    <3>4. \A v \in Runner \ {w} : pc'[v] = pc[v] /\ local'[v] = local[v]
      BY <2>2, <3>2, <1>p, <1>r
    <3>5. a \in DOMAIN approvals
      BY <2>l
    <3>6. a \in DOMAIN approvals' /\ approvals'[a].grant = approvals[a].grant /\ approvals'[a].consumed
      <4>1. Consumed(approvals, approvals', a)
        BY <2>2 DEF Consumed
      <4> QED
        BY ONLY <1>t, <3>5, <4>1, Consume
    <3>7. ~Paid(a)'
      BY <2>0, <2>2 DEF Paid, HeldOnce
    <3>8. Authorised(w)' /\ Sought(w)'
      BY <2>s, <3>1, <3>3 DEF Authorised, Sought
    <3>9. HoldsOne(w)'
      <4>1. local'[w].paid = a /\ local'[w].grant = approvals'[a].grant
        BY <2>s, <3>1, <3>3, <3>6
      <4> QED
        BY <4>1, <3>6, <3>7 DEF HoldsOne
    <3>10. \A v \in Runner \ {w} : Holds(v) => local[v].paid # local'[w].paid
      BY <2>2, <3>1, <3>3 DEF HeldOnce, HoldsOne
    <3> QED
      BY <2>0, <3>4, <3>8, <3>9, <3>10, OneMoves
  <2>3. ASSUME NEW a \in local[w].candidates, Remember(w, [local[w] EXCEPT !.candidates = @ \ {a}]),
               UNCHANGED <<approvals, pc>>
        PROVE  HeldOnce'
    <3> DEFINE l == [local[w] EXCEPT !.candidates = @ \ {a}]
    <3>1. l.call = local[w].call /\ l.grant = local[w].grant /\ l.candidates \subseteq local[w].candidates
      BY <2>l DEF Local
    <3>2. Remember(w, l)
      BY <2>3
    <3> HIDE DEF l
    <3>3. pc'[w] = "consume" /\ local'[w] = l
      BY <2>0, <2>3, <3>2, <1>r
    <3>4. \A v \in Runner \ {w} : pc'[v] = pc[v] /\ local'[v] = local[v]
      BY <2>3, <3>2, <1>r
    <3>5. Authorised(w)' /\ HoldsOne(w)' /\ ~Holds(w)'
      BY <2>s, <3>1, <3>3 DEF Authorised, HoldsOne, Holds
    <3>6. Sought(w)'
      BY <2>s, <2>3, <3>1, <3>3 DEF Sought
    <3> QED
      BY <2>0, <3>4, <3>5, <3>6, OneMoves
  <2> QED
    BY <1>5, <2>1, <2>2, <2>3 DEF consumeApprovedAuthority
<1>6. ASSUME NEW w \in Runner, executeTool(w) PROVE HeldOnce'
  <2> DEFINE d == [grant |-> local[w].grant, paid |-> local[w].paid]
  <2>1. /\ pc[w] = "execute" /\ UNCHANGED approvals
        /\ performed' = IF Privileged(local[w].call) THEN Append(performed, d) ELSE performed
        /\ \E s \in {"model", "fail"} : Goto(w, s)
        /\ \E l : Remember(w, l)
    BY <1>6 DEF executeTool
  <2>2. CASE ~Privileged(local[w].call)
    BY <2>1, <2>2, <1>a, <1>n
  <2>3. CASE Privileged(local[w].call)
    <3>1. Holds(w)
      BY <2>1, <2>3 DEF Holds
    <3>2. local[w].paid \in DOMAIN approvals /\ approvals[local[w].paid].consumed
      BY <3>1 DEF HeldOnce, HoldsOne
    <3>3. \A v \in Runner \ {w} : pc'[v] = pc[v] /\ local'[v] = local[v]
      BY <2>1, <1>p, <1>r
    <3>4. pc'[w] \notin {"authorize", "consume", "execute"}
      BY <2>1, <1>p
    <3>5. /\ performed' = Append(performed, d) /\ d.paid = local[w].paid
          /\ performed \in Seq(Deed)
      BY <2>1, <2>3, TypeForm DEF Deed
    <3> HIDE DEF d
    <3>6. \A k \in DOMAIN performed' : performed'[k] = d \/ (k \in DOMAIN performed /\ performed'[k] = performed[k])
      BY ONLY <3>5
    <3>7. \A a : Paid(a)' => Paid(a) \/ a = local[w].paid
      BY <3>5, <3>6 DEF Paid
    <3>8. Authorised(w)' /\ Sought(w)' /\ HoldsOne(w)' /\ ~Holds(w)'
      BY <3>4, Away
    <3>9. ASSUME NEW v \in Runner \ {w}
          PROVE  Authorised(v)' /\ Sought(v)' /\ HoldsOne(v)' /\ (Holds(v)' <=> Holds(v)) /\ local'[v] = local[v]
      <4>1. Authorised(v) /\ Sought(v) /\ HoldsOne(v) /\ (Holds(v) => local[v].paid # local[w].paid)
        BY <3>1 DEF HeldOnce
      <4>2. Authorised(v)' /\ Sought(v)' /\ (Holds(v)' <=> Holds(v))
        BY <2>1, <3>3, <4>1 DEF Authorised, Sought, Holds
      <4>3. HoldsOne(v)'
        BY <2>1, <3>3, <3>7, <4>1, <4>2 DEF HoldsOne
      <4> QED
        BY <3>3, <4>2, <4>3
    <3>10. ASSUME NEW u \in Runner, NEW v \in Runner, Holds(u)', Holds(v)', local'[u].paid = local'[v].paid
           PROVE  u = v
      BY <3>8, <3>9, <3>10 DEF HeldOnce
    <3>11. ASSUME NEW k \in DOMAIN performed'
           PROVE  performed'[k].paid \in DOMAIN approvals' /\ approvals'[performed'[k].paid].consumed
      BY <2>1, <3>2, <3>5, <3>6 DEF HeldOnce
    <3> QED
      BY <3>8, <3>9, <3>10, <3>11 DEF HeldOnce
  <2> QED
    BY <2>2, <2>3
<1>7. ASSUME NEW w \in Runner, Ask(w) PROVE HeldOnce'
  BY <1>7, <1>a, <1>n DEF Ask
<1>8. ASSUME NEW w \in Runner, NEW s, Leave(w, s) PROVE HeldOnce'
  BY <1>8, <1>a, <1>n DEF Leave
<1>9. ASSUME NEW w \in Runner, runFinalChecks(w) \/ CrashRunner(w) PROVE HeldOnce'
  BY <1>9, <1>a, <1>n DEF runFinalChecks, CrashRunner
<1>10. ASSUME NEW w \in Runner, RunStep(w) PROVE HeldOnce'
  BY <1>10, <1>1, <1>2, <1>3, <1>4, <1>5, <1>6, <1>7, <1>8, <1>9
  DEF RunStep, requestCapabilityApproval, requestModelApproval, pauseRun, failRun, updateRunCompletion
<1>11. ASSUME NEW a \in DOMAIN approvals, AnswerStep(a) PROVE HeldOnce'
  BY <1>11, <1>0
  DEF AnswerStep, RespondApproval, handleCommandEvent, ServiceReads, HandleApprovalApproved, HandleApprovalRejected
<1> QED
  BY <1>0, <1>10, <1>11 DEF Next, vars, ServiceResponds, CancelAgentRun, EditWorkspace

(* Nothing is held before the run starts.                                  *)
LEMMA GateInit == Init => TypeOK /\ HeldOnce
<1> SUFFICES ASSUME Init PROVE TypeOK /\ HeldOnce
  OBVIOUS
<1>1. TypeOK
  <2>1. approvals = <<>> /\ performed = <<>> /\ answers = {} /\ seen = 0 /\ tree = 0 /\ steps = NoUse
    BY DEF Init
  <2>2. 0 \in 0..MaxTree /\ NoUse \in [tool : Nat, shell : Nat]
    BY GateAssumption DEF NoUse
  <2>3. pc \in [Runner -> Steps] /\ local \in [Runner -> Local]
    BY IdleType, StepNames DEF Init
  <2> QED
    BY <2>1, <2>2, <2>3, TypeForm DEF Init
<1>2. performed = <<>> /\ \A w \in Runner : pc[w] = "idle"
  BY DEF Init
<1>3. HeldOnce
  BY <1>2 DEF HeldOnce, Authorised, Sought, Holds, HoldsOne
<1> QED
  BY <1>1, <1>3

(* Both are kept together: a call is known because it is authorised.       *)
LEMMA GateStep == TypeOK /\ HeldOnce /\ [Next]_vars => TypeOK' /\ HeldOnce'
  BY TypeStep, HeldStep DEF HeldOnce

(* Runner.Run, the answers and the worker's handlers keep every variable of*)
(* the gate in its type, with any number of runners on a run.              *)
THEOREM GateTypes == Spec => []TypeOK
  BY GateInit, GateStep, PTL DEF Spec

(* An approval that was consumed is held by one runner, which is about to  *)
(* carry out the call it was asked for, until the call is done or given up;*)
(* then it never pays again.                                               *)
THEOREM AuthorityHeldOnce == Spec => []HeldOnce
  BY GateInit, GateStep, PTL DEF Spec

-----------------------------------------------------------------------------
(* The runner implements Authority.                                        *)

Ledger == [a \in DOMAIN approvals |-> [grant |-> approvals[a].grant, state |-> LedgerState(a)]]

Deeds == [k \in DOMAIN performed |-> performed[k].grant]

(* What the ledger says of an approval.  Only a consumed one has paid.     *)
Booked(a) ==
    /\ Paid(a) => approvals[a].consumed /\ LedgerState(a) = "used"
    /\ ~Paid(a) /\ approvals[a].consumed => LedgerState(a) = "spent"
    /\ ~approvals[a].consumed =>
          /\ approvals[a].response = "none" => LedgerState(a) = "pending"
          /\ approvals[a].response = "approved" => LedgerState(a) = "granted"
          /\ approvals[a].response = "rejected" => LedgerState(a) = "refused"

(* What the ledger of the abstract specification says of an approval is    *)
(* what the approval and the calls that were performed say.                *)
LEMMA Books == TypeOK /\ HeldOnce => \A a \in DOMAIN approvals : Booked(a)
<1> SUFFICES ASSUME TypeOK, HeldOnce, NEW a \in DOMAIN approvals PROVE Booked(a)
  OBVIOUS
<1>1. Paid(a) => approvals[a].consumed
  BY DEF Paid, HeldOnce
<1> QED
  BY <1>1 DEF Booked, LedgerState

(* The state of an approval follows from the approval and whether it paid. *)
LEMMA SameState ==
    ASSUME approvals \in Seq(Approval), NEW a \in DOMAIN approvals,
           Paid(a)' <=> Paid(a), approvals'[a] = approvals[a]
    PROVE  LedgerState(a)' = LedgerState(a)
<1>1. CASE Paid(a)
  BY <1>1 DEF LedgerState
<1>2. CASE ~Paid(a)
  <2>1. approvals[a].response \in {"none", "approved", "rejected"}
    <3>1. approvals[a] \in Approval
      OBVIOUS
    <3> QED
      BY <3>1 DEF Approval
  <2> QED
    BY <1>2, <2>1 DEF LedgerState
<1> QED
  BY <1>1, <1>2

(* The same ledger and the same deeds are a stutter.                       *)
LEMMA SameBooks ==
    ASSUME DOMAIN approvals' = DOMAIN approvals, UNCHANGED performed,
           \A a \in DOMAIN approvals :
              approvals'[a].grant = approvals[a].grant /\ LedgerState(a)' = LedgerState(a)
    PROVE  UNCHANGED Abstract!vars
  BY DEF Abstract!vars

(* One entry of the ledger changes its state.                              *)
LEMMA OneEntry ==
    ASSUME NEW i \in DOMAIN approvals, NEW s, LedgerState(i)' = s,
           DOMAIN approvals' = DOMAIN approvals,
           \A a \in DOMAIN approvals : approvals'[a].grant = approvals[a].grant,
           \A a \in DOMAIN approvals \ {i} : LedgerState(a)' = LedgerState(a)
    PROVE  Ledger' = [Ledger EXCEPT ![i].state = s]
<1> DEFINE e(a) == [grant |-> approvals[a].grant, state |-> LedgerState(a)]
<1>1. Ledger = [a \in DOMAIN approvals |-> e(a)] /\ Ledger[i] = e(i)
  BY DEF Ledger
<1>2. [e(i) EXCEPT !.state = s] = [grant |-> approvals[i].grant, state |-> s]
  OBVIOUS
<1>3. [Ledger EXCEPT ![i].state = s] = [Ledger EXCEPT ![i] = [grant |-> approvals[i].grant, state |-> s]]
  BY <1>1, <1>2
<1>4. Ledger' = [a \in DOMAIN approvals |-> e(a)']
  BY DEF Ledger
<1>5. e(i)' = [grant |-> approvals[i].grant, state |-> s] /\ \A a \in DOMAIN approvals \ {i} : e(a)' = e(a)
  OBVIOUS
<1> HIDE DEF e
<1> QED
  BY <1>1, <1>3, <1>4, <1>5

(* Every step of the gate is a step of Authority, or none: a request, an   *)
(* answer, a consumption or a sensitive call.                              *)
LEMMA AuthorityStep ==
    TypeOK /\ HeldOnce /\ [Next]_vars => [Abstract!Next]_(Abstract!vars)
<1> SUFFICES ASSUME TypeOK, HeldOnce, [Next]_vars PROVE [Abstract!Next]_(Abstract!vars)
  OBVIOUS
<1>t. approvals \in Seq(Approval) /\ performed \in Seq(Deed) /\ seen \in 0..Len(approvals)
  BY TypeForm DEF Deed
<1>b. \A a \in DOMAIN approvals : Booked(a)
  BY Books
<1>c. \A a \in DOMAIN approvals' : Booked(a)'
  <2>1. TypeOK' /\ HeldOnce'
    BY GateStep
  <2>2. (TypeOK /\ HeldOnce)' => (\A a \in DOMAIN approvals : Booked(a))'
    BY Books, PTL
  <2> QED
    BY <2>1, <2>2
<1>p. UNCHANGED performed => \A a : Paid(a)' <=> Paid(a)
  BY DEF Paid
<1>l. DOMAIN Ledger = DOMAIN approvals /\ \A a \in DOMAIN approvals :
         Ledger[a] = [grant |-> approvals[a].grant, state |-> LedgerState(a)]
  BY DEF Ledger
<1>u. UNCHANGED performed => Deeds' = Deeds
  BY DEF Deeds
<1>0. ASSUME UNCHANGED <<approvals, performed>> PROVE [Abstract!Next]_(Abstract!vars)
  <2>1. \A a \in DOMAIN approvals : LedgerState(a)' = LedgerState(a)
    BY <1>0 DEF LedgerState, Paid
  <2> QED
    BY <1>0, <2>1, SameBooks
<1>1. ASSUME NEW a \in DOMAIN approvals, NEW r \in {"approved", "rejected"}, SetResponse(a, r),
             UNCHANGED performed
      PROVE  [Abstract!Next]_(Abstract!vars)
  <2>1. /\ DOMAIN approvals' = DOMAIN approvals
        /\ \A b \in DOMAIN approvals \ {a} : approvals'[b] = approvals[b]
        /\ approvals'[a].grant = approvals[a].grant /\ approvals'[a].response = r
        /\ approvals'[a].consumed = approvals[a].consumed
    <3>1. Responded(approvals, approvals', a, r)
      BY <1>1 DEF Responded, SetResponse
    <3> QED
      BY ONLY <1>1, <1>t, <3>1, Respond
  <2>2. \A b \in DOMAIN approvals \ {a} : LedgerState(b)' = LedgerState(b)
    BY <1>1, <1>p, <2>1, <1>t, SameState
  <2>3. \A b \in DOMAIN approvals : approvals'[b].grant = approvals[b].grant
    BY <2>1
  <2>4. Booked(a) /\ Booked(a)'
    BY <1>b, <1>c, <2>1
  <2>5. CASE approvals[a].consumed
    <3>1. LedgerState(a)' = LedgerState(a)
      BY <1>1, <1>p, <2>1, <2>4, <2>5 DEF Booked
    <3> QED
      BY <1>1, <2>1, <2>2, <2>3, <3>1, SameBooks
  <2>6. CASE ~approvals[a].consumed
    <3> DEFINE s == IF r = "approved" THEN "granted" ELSE "refused"
    <3>1. LedgerState(a)' = s
      BY <2>1, <2>4, <2>6 DEF Booked
    <3>2. LedgerState(a) \in {"pending", "granted", "refused"}
      <4>1. approvals[a].response \in {"none", "approved", "rejected"}
        <5>1. approvals[a] \in Approval
          BY <1>t
        <5> QED
          BY <5>1 DEF Approval
      <4> QED
        BY <2>4, <2>6, <4>1 DEF Booked
    <3>3. s \in {"granted", "refused"} /\ s \in Abstract!States
      BY DEF Abstract!States
    <3> HIDE DEF s
    <3>4. Ledger' = [Ledger EXCEPT ![a].state = s]
      BY <2>1, <2>2, <2>3, <3>1, OneEntry
    <3>5. Ledger[a].state \in {"pending", "granted", "refused"}
      BY <1>l, <3>2
    <3>6. Abstract!Answer(a, s)
      BY <1>1, <1>u, <3>3, <3>4, <3>5 DEF Abstract!Answer, Ledger, Deeds
    <3>7. a \in DOMAIN Ledger
      BY <1>l
    <3> QED
      BY <3>3, <3>6, <3>7 DEF Abstract!Next, Ledger
  <2> QED
    BY <2>5, <2>6
<1>2. ASSUME NEW w \in Runner, Ask(w) PROVE [Abstract!Next]_(Abstract!vars)
  <2>g. PICK g : g = local[w].grant
    OBVIOUS
  <2>n. PICK n : n = Len(approvals) + 1
    OBVIOUS
  <2> DEFINE q == [grant |-> g, response |-> "none", consumed |-> FALSE]
  <2>1. CASE UNCHANGED approvals
    BY <1>2, <1>0, <2>1 DEF Ask
  <2>2. CASE approvals' = Request(g)
    <3>1. g \in Grants
      <4>1. local[w] \in Local
        BY TypeForm
      <4> QED
        BY <2>g, <4>1 DEF Local
    <3>2. q \in Approval /\ q.grant = g /\ q.response = "none" /\ ~q.consumed
      BY <3>1 DEF Approval
    <3>3. approvals' = Append(approvals, q)
      BY <2>2 DEF Request
    <3> HIDE DEF q
    <3>4. /\ DOMAIN approvals = 1..Len(approvals) /\ DOMAIN approvals' = 1..n
          /\ approvals'[n] = q /\ \A a \in DOMAIN approvals : approvals'[a] = approvals[a]
          /\ n \notin DOMAIN approvals /\ n \in DOMAIN approvals'
          /\ DOMAIN approvals' = DOMAIN approvals \cup {n}
      BY ONLY <1>t, <2>n, <3>2, <3>3
    <3>5. UNCHANGED performed
      BY <1>2 DEF Ask
    <3>6. \A a \in DOMAIN approvals : LedgerState(a)' = LedgerState(a)
      BY <1>p, <3>4, <3>5, <1>t, SameState
    <3>7. LedgerState(n)' = "pending"
      <4>1. Booked(n)'
        BY <1>c, <3>4
      <4> QED
        BY <3>2, <3>4, <4>1 DEF Booked
    <3> DEFINE e == [grant |-> g, state |-> "pending"]
    <3>8. Ledger' = Append(Ledger, e)
      <4>1. Len(Ledger) = Len(approvals) /\ Ledger \in Seq({ Ledger[a] : a \in DOMAIN approvals })
        <5>1. DOMAIN Ledger = 1..Len(approvals) /\ Len(approvals) \in Nat
          BY <1>l, <1>t, <3>4
        <5>2. Ledger = [a \in 1..Len(approvals) |-> Ledger[a]]
          BY <5>1 DEF Ledger
        <5> QED
          BY <5>1, <5>2
      <4>2. Append(Ledger, e) = [a \in 1..n |-> IF a = n THEN e ELSE Ledger[a]]
        BY <4>1, <1>t, <2>n
      <4>3. Ledger' = [a \in 1..n |-> Ledger'[a]]
        BY <3>4 DEF Ledger
      <4>4. \A a \in 1..n : Ledger'[a] = [grant |-> approvals'[a].grant, state |-> LedgerState(a)']
        BY <3>4 DEF Ledger
      <4>5. \A a \in 1..n : Ledger'[a] = IF a = n THEN e ELSE Ledger[a]
        BY <1>l, <3>2, <3>4, <3>6, <3>7, <4>4
      <4> QED
        BY <4>2, <4>3, <4>5
    <3>9. Abstract!Ask(g)
      BY <1>u, <3>5, <3>8 DEF Abstract!Ask, Ledger, Deeds
    <3> QED
      BY <3>1, <3>9 DEF Abstract!Next
  <2> QED
    BY <1>2, <2>g, <2>1, <2>2 DEF Ask
<1>3. ASSUME NEW w \in Runner, consumeApprovedAuthority(w) PROVE [Abstract!Next]_(Abstract!vars)
  <2>0. UNCHANGED performed
    BY <1>3 DEF consumeApprovedAuthority
  <2>1. ASSUME NEW a \in DOMAIN approvals, approvals[a].response = "approved", ~approvals[a].consumed,
               approvals' = [approvals EXCEPT ![a].consumed = TRUE]
        PROVE  [Abstract!Next]_(Abstract!vars)
    <3>1. /\ DOMAIN approvals' = DOMAIN approvals
          /\ \A b \in DOMAIN approvals \ {a} : approvals'[b] = approvals[b]
          /\ approvals'[a].grant = approvals[a].grant /\ approvals'[a].consumed
      <4>1. Consumed(approvals, approvals', a)
        BY <2>1 DEF Consumed
      <4>2. a \in DOMAIN approvals
        OBVIOUS
      <4> QED
        BY ONLY <1>t, <4>1, <4>2, Consume
    <3>2. Booked(a) /\ Booked(a)' /\ (Paid(a)' <=> Paid(a))
      BY <1>b, <1>c, <1>p, <2>0, <3>1
    <3>3. LedgerState(a) = "granted" /\ LedgerState(a)' = "spent"
      BY <2>1, <3>1, <3>2 DEF Booked
    <3>4. \A b \in DOMAIN approvals \ {a} : LedgerState(b)' = LedgerState(b)
      BY <1>p, <2>0, <3>1, <1>t, SameState
    <3>5. Ledger' = [Ledger EXCEPT ![a].state = "spent"]
      BY <3>1, <3>3, <3>4, OneEntry
    <3>6. Ledger[a].state = "granted" /\ a \in DOMAIN Ledger
      BY <1>l, <3>3
    <3>7. Abstract!Spend(a)
      BY <1>u, <2>0, <3>5, <3>6 DEF Abstract!Spend, Ledger, Deeds
    <3> QED
      BY <3>6, <3>7 DEF Abstract!Next, Ledger
  <2>2. local[w].candidates \subseteq DOMAIN approvals
    BY TypeForm DEF Local
  <2> QED
    BY <1>0, <1>3, <2>0, <2>1, <2>2 DEF consumeApprovedAuthority
<1>4. ASSUME NEW w \in Runner, executeTool(w) PROVE [Abstract!Next]_(Abstract!vars)
  <2>i. PICK i : i = local[w].paid
    OBVIOUS
  <2> DEFINE d == [grant |-> local[w].grant, paid |-> local[w].paid]
  <2>1. /\ pc[w] = "execute" /\ UNCHANGED approvals
        /\ performed' = IF Privileged(local[w].call) THEN Append(performed, d) ELSE performed
    BY <1>4 DEF executeTool
  <2>2. CASE ~Privileged(local[w].call)
    BY <1>0, <2>1, <2>2
  <2>3. CASE Privileged(local[w].call)
    <3>1. i \in DOMAIN approvals /\ approvals[i].consumed /\ ~Paid(i) /\ approvals[i].grant = local[w].grant
      BY <2>i, <2>1, <2>3 DEF HeldOnce, HoldsOne, Holds
    <3>2. performed' = Append(performed, d) /\ d.paid = i /\ d.grant = approvals[i].grant
      BY <2>i, <2>1, <2>3, <3>1
    <3> HIDE DEF d
    <3>3. /\ Len(performed) \in Nat /\ DOMAIN performed = 1..Len(performed)
          /\ DOMAIN performed' = 1..(Len(performed) + 1) /\ performed'[Len(performed) + 1] = d
          /\ \A k \in DOMAIN performed : performed'[k] = performed[k]
      BY ONLY <1>t, <3>2
    <3>4. \A a : Paid(a)' <=> Paid(a) \/ a = i
      BY <3>2, <3>3 DEF Paid
    <3>5. LedgerState(i) = "spent" /\ LedgerState(i)' = "used"
      <4>1. Booked(i) /\ Booked(i)'
        BY <1>b, <1>c, <2>1, <3>1
      <4> QED
        BY <2>1, <3>1, <3>4, <4>1 DEF Booked
    <3>6. \A a \in DOMAIN approvals \ {i} : LedgerState(a)' = LedgerState(a)
      BY <2>1, <3>4, <1>t, SameState
    <3>7. Ledger' = [Ledger EXCEPT ![i].state = "used"]
      BY <2>1, <3>1, <3>5, <3>6, OneEntry
    <3>8. Ledger[i].state = "spent" /\ i \in DOMAIN Ledger /\ Ledger[i].grant = d.grant
      BY <1>l, <3>1, <3>2, <3>5
    <3>9. Deeds' = Append(Deeds, Ledger[i].grant)
      <4> DEFINE n == Len(performed)
      <4>1. Deeds = [k \in 1..n |-> performed[k].grant]
        BY <3>3 DEF Deeds
      <4>2. Deeds' = [k \in 1..(n + 1) |-> performed'[k].grant]
        BY <3>3 DEF Deeds
      <4>3. Deeds \in Seq({ performed[k].grant : k \in 1..n }) /\ Len(Deeds) = n
        BY <3>3, <4>1
      <4>4. Append(Deeds, d.grant) = [k \in 1..(n + 1) |-> IF k = n + 1 THEN d.grant ELSE Deeds[k]]
        BY <3>3, <4>3
      <4>5. \A k \in 1..(n + 1) : performed'[k].grant = IF k = n + 1 THEN d.grant ELSE Deeds[k]
        BY <3>3, <4>1
      <4> QED
        BY <3>8, <4>2, <4>4, <4>5
    <3>10. Abstract!Do(i)
      BY <3>7, <3>8, <3>9 DEF Abstract!Do, Ledger, Deeds
    <3> QED
      BY <3>8, <3>10 DEF Abstract!Next, Ledger
  <2> QED
    BY <2>2, <2>3
<1>5. ASSUME NEW w \in Runner, RunStep(w) PROVE [Abstract!Next]_(Abstract!vars)
  BY <1>0, <1>2, <1>3, <1>4, <1>5
  DEF RunStep, Admit, LoadRun, nextModelAction, authorizeTool, requestCapabilityApproval,
      requestModelApproval, pauseRun, failRun, updateRunCompletion, Leave, runFinalChecks, CrashRunner
<1>6. ASSUME NEW a \in DOMAIN approvals, AnswerStep(a) PROVE [Abstract!Next]_(Abstract!vars)
  BY <1>0, <1>1, <1>6
  DEF AnswerStep, RespondApproval, handleCommandEvent, ServiceReads, HandleApprovalApproved, HandleApprovalRejected
<1>7. ASSUME NEW r \in {"approved", "rejected"}, ServiceResponds(r) PROVE [Abstract!Next]_(Abstract!vars)
  <2>1. seen \in DOMAIN approvals
    BY <1>7, <1>t DEF ServiceResponds
  <2> QED
    BY <1>1, <1>7, <2>1 DEF ServiceResponds
<1> QED
  BY <1>0, <1>5, <1>6, <1>7 DEF Next, vars, CancelAgentRun, EditWorkspace

(* consumeApprovedAuthority: "Approval is single-use" (runner_authority.go,*)
(* 24).  For every number of runners and approvals, every answer, failure  *)
(* and crash: what the runner does is what Authority allows, so that each  *)
(* sensitive call was approved for its operation, resource and revision and*)
(* the approval was spent on it alone.                                     *)
THEOREM GateImplementsAuthority == Spec => SingleUseAuthority
<1>1. Init => Abstract!Init
  BY DEF Init, Abstract!Init
<1>2. Spec => [](TypeOK /\ HeldOnce)
  BY GateInit, GateStep, PTL DEF Spec
<1> QED
  BY <1>1, <1>2, AuthorityStep, PTL DEF Spec, SingleUseAuthority, Abstract!Spec

-----------------------------------------------------------------------------
(* The budget of tool calls.  What a runner may still record before its own*)
(* count, seeded from the record when it started, is over a limit of m.    *)
Over(n) == IF n > 0 THEN n ELSE 0

Left(m) ==
    [v \in Runner |-> IF      pc[v] = "model" THEN Over(m + 1 - local[v].used.tool)
                      ELSE IF pc[v] \in {"authorize", "consume", "execute"} THEN Over(m - local[v].used.tool)
                      ELSE 0]

(* The record and what all the runners may still add to it.                *)
Shared(m) == steps.tool + Total(Left(m), Runner) <= Cardinality(Runner) * (m + 1)

BudgetInv == \A budget \in loadTaskBudget : budget.tool > 0 => Shared(budget.tool)

(* Limits are natural numbers, 0 where there is none.                      *)
LEMMA LimitType == \A budget \in loadTaskBudget : budget.tool \in Nat
<1> SUFFICES ASSUME NEW budget \in loadTaskBudget PROVE budget.tool \in Nat
  OBVIOUS
<1>1. budget \in {TaskBudget, ProjectBudget, NoBudget}
  BY DEF loadTaskBudget, loadProjectBudgetForTask
<1>2. TaskBudget.tool \in Nat /\ ProjectBudget.tool \in Nat
  BY GateAssumption
<1>3. NoBudget.tool \in Nat
  BY DEF NoBudget
<1> QED
  BY <1>1, <1>2, <1>3

(* A runner never has more than the limit and one left.                    *)
LEMMA LeftType ==
    ASSUME TypeOK, NEW m \in Nat, NEW v \in Runner
    PROVE  Left(m)[v] \in 0..(m + 1)
<1>1. local[v] \in Local
  BY TypeForm
<1>2. local[v].used.tool \in Nat
  BY <1>1 DEF Local
<1>3. PICK u \in Nat : u = local[v].used.tool
  BY <1>2
<1>4. Over(m + 1 - u) \in 0..(m + 1) /\ Over(m - u) \in 0..(m + 1)
  BY DEF Over
<1> QED
  BY <1>3, <1>4 DEF Left

(* One runner at a time: it spends what it has left, or starts anew with   *)
(* what the record leaves of the limit.                                    *)
LEMMA OneSpends ==
    ASSUME TypeOK, TypeOK', NEW m \in Nat, Shared(m), NEW w \in Runner,
           \A v \in Runner \ {w} : pc'[v] = pc[v] /\ local'[v] = local[v],
           \/ steps'.tool + Left(m)'[w] <= steps.tool + Left(m)[w]
           \/ steps'.tool + Left(m)'[w] <= m + 1
           \/ Left(m)'[w] = 0 /\ steps'.tool = steps.tool
    PROVE  Shared(m)'
<1> USE GateAssumption
<1> DEFINE N == Cardinality(Runner)
           R == Runner \ {w}
<1>1. IsFiniteSet(Runner) /\ IsFiniteSet(R) /\ N \in Nat /\ Cardinality(R) = N - 1 /\ N - 1 \in Nat
  <2>1. IsFiniteSet(R) /\ Cardinality(R) = N - 1
    BY FS_RemoveElement
  <2> QED
    BY <2>1, FS_CardinalityType
<1>2. PICK g : g = Left(m)
  OBVIOUS
<1>3. PICK h : h = Left(m)'
  OBVIOUS
<1>4. \A v \in Runner : g[v] \in 0..(m + 1) /\ g[v] \in Nat
  BY <1>2, LeftType
<1>5. \A v \in Runner : Left(m)'[v] \in 0..(m + 1)
  <2> SUFFICES ASSUME NEW v \in Runner PROVE Left(m)'[v] \in 0..(m + 1)
    OBVIOUS
  <2>1. local'[v] \in [call : Call \cup {NoCall}, grant : Grants, left : 0..MaxSteps, used : [tool : Nat, shell : Nat],
                       candidates : SUBSET (DOMAIN approvals'), paid : Nat]
    BY DEF TypeOK
  <2>2. PICK u \in Nat : u = local'[v].used.tool
    BY <2>1
  <2>3. Over(m + 1 - u) \in 0..(m + 1) /\ Over(m - u) \in 0..(m + 1)
    BY DEF Over
  <2> QED
    BY <2>2, <2>3 DEF Left
<1>6. \A v \in Runner : h[v] \in 0..(m + 1) /\ h[v] \in Nat
  BY <1>3, <1>5
<1>7. \A v \in R : h[v] = g[v]
  BY <1>2, <1>3 DEF Left
<1>8. steps.tool \in Nat /\ steps'.tool \in Nat
  BY DEF TypeOK
<1>9. /\ Total(g, Runner) = Total(g, R) + g[w] /\ Total(h, Runner) = Total(h, R) + h[w]
      /\ Total(h, R) = Total(g, R) /\ Total(g, R) \in Nat
      /\ Total(g, R) <= (N - 1) * (m + 1)
  <2>1. \A v \in R : g[v] \in Nat /\ g[v] \in 0..(m + 1)
    BY <1>4
  <2>2. Total(g, Runner) = Total(g, R) + g[w]
    BY <1>1, <1>4, TotalApart
  <2>3. Total(h, Runner) = Total(h, R) + h[w]
    BY <1>1, <1>6, TotalApart
  <2>4. Total(h, R) = Total(g, R)
    BY <1>1, <1>7, <2>1, TotalOfSame
  <2>5. Total(g, R) \in Nat
    BY <1>1, <2>1, TotalNat
  <2>6. Total(g, R) <= Cardinality(R) * (m + 1)
    BY <1>1, <2>1, TotalOfBounded
  <2> QED
    BY <1>1, <2>2, <2>3, <2>4, <2>5, <2>6
<1>10. steps.tool + Total(g, Runner) <= N * (m + 1)
  BY <1>2 DEF Shared
<1>11. \/ steps'.tool + h[w] <= steps.tool + g[w]
       \/ steps'.tool + h[w] <= m + 1
       \/ h[w] = 0 /\ steps'.tool = steps.tool
  BY <1>2, <1>3
<1>12. (N - 1) * (m + 1) + (m + 1) = N * (m + 1) /\ (N - 1) * (m + 1) \in Nat /\ N * (m + 1) \in Nat
  BY <1>1
<1>13. PICK a, b : a = (N - 1) * (m + 1) /\ b = N * (m + 1)
  OBVIOUS
<1>14. g[w] \in Nat /\ h[w] \in Nat
  BY <1>4, <1>6
<1> HIDE DEF N, R
<1>15. steps'.tool + Total(h, Runner) <= b
  BY <1>8, <1>9, <1>10, <1>11, <1>12, <1>13, <1>14
<1> QED
  BY <1>3, <1>13, <1>15 DEF Shared, N

(* Every step of Run, of the answers and of the handlers keeps the bound.  *)
LEMMA BudgetStep ==
    ASSUME "unreadable" \notin Faults
    PROVE  TypeOK /\ TypeOK' /\ BudgetInv /\ [Next]_vars => BudgetInv'
<1> SUFFICES ASSUME TypeOK, TypeOK', BudgetInv, [Next]_vars,
                    NEW budget \in loadTaskBudget, budget.tool > 0
             PROVE  Shared(budget.tool)'
  BY DEF BudgetInv, loadTaskBudget, loadProjectBudgetForTask, Unreadable
<1> DEFINE m == budget.tool
<1>1. m \in Nat /\ Shared(m) /\ loadTaskBudget = {budget}
  BY GateAssumption DEF BudgetInv, loadTaskBudget, loadProjectBudgetForTask, Unreadable
<1>2. PICK limit \in Nat : limit = m
  BY <1>1
<1>3. Shared(limit)
  BY <1>1, <1>2
<1> SUFFICES Shared(limit)'
  BY <1>2
<1> HIDE DEF m
<1>t. pc \in [Runner -> Steps] /\ local \in [Runner -> Local] /\ steps \in [tool : Nat, shell : Nat]
  BY TypeForm
<1>u. \A w \in Runner : local[w].used.tool \in Nat
  BY <1>t DEF Local
<1>4. ASSUME UNCHANGED <<steps, pc, local>> PROVE Shared(limit)'
  BY <1>3, <1>4 DEF Shared, Left
<1>5. ASSUME NEW w \in Runner, RunStep(w) PROVE Shared(limit)'
  <2>1. \A v \in Runner \ {w} : pc'[v] = pc[v] /\ local'[v] = local[v]
    BY <1>5, <1>t DEF RunStep, Admit, LoadRun, loadAgentRun, loadTask, loadWorkspace, nextModelAction, runToolStep,
          FinalResponse, AskHuman, NoAction, authorizeTool, consumeApprovedAuthority, executeTool,
          requestCapabilityApproval, requestModelApproval, Ask, pauseRun, failRun, runFinalChecks,
          updateRunCompletion, Leave, CrashRunner, Goto, Remember
  <2>2. ASSUME UNCHANGED steps, pc'[w] \notin {"model", "authorize", "consume", "execute"} PROVE Shared(limit)'
    <3>1. Left(limit)'[w] = 0
      BY <2>2 DEF Left
    <3> QED
      BY <1>3, <2>1, <2>2, <3>1, OneSpends
  <2>3. ASSUME UNCHANGED steps, local'[w].used = local[w].used,
               pc[w] \in {"authorize", "consume", "execute"}, pc'[w] \in {"authorize", "consume", "execute"}
        PROVE  Shared(limit)'
    <3>1. Left(limit)'[w] = Left(limit)[w]
      BY <2>3 DEF Left
    <3>2. Left(limit)[w] \in Nat /\ steps.tool \in Nat
      BY <1>t, LeftType
    <3>3. steps'.tool + Left(limit)'[w] <= steps.tool + Left(limit)[w]
      BY <2>3, <3>1, <3>2
    <3> QED
      BY <1>3, <2>1, <3>3, OneSpends
  <2>4. CASE Admit(w)
    BY <1>t, <1>4, <2>2, <2>4 DEF Admit, Goto
  <2>5. CASE LoadRun(w)
    <3>1. CASE pc'[w] = "model"
      <4>1. local'[w].used = steps /\ steps' = steps
        BY <1>t, <2>5, <3>1 DEF LoadRun, loadAgentRun, loadTask, loadWorkspace, Goto, Remember, loadRunHistory,
              seedRunState, Unreadable, Idle
      <4>2. Left(limit)'[w] = Over(limit + 1 - steps.tool)
        BY <3>1, <4>1 DEF Left
      <4>3. steps.tool \in Nat
        BY <1>t
      <4>4. CASE steps.tool <= limit
        <5>1. steps'.tool + Left(limit)'[w] <= limit + 1
          BY <4>1, <4>2, <4>3, <4>4 DEF Over
        <5> QED
          BY <1>3, <2>1, <5>1, OneSpends
      <4>5. CASE ~(steps.tool <= limit)
        <5>1. Left(limit)'[w] = 0
          BY <4>2, <4>3, <4>5 DEF Over
        <5> QED
          BY <1>3, <2>1, <4>1, <5>1, OneSpends
      <4> QED
        BY <4>4, <4>5
    <3>2. CASE pc'[w] # "model"
      <4>1. pc'[w] \in {"idle", "fail"} /\ UNCHANGED steps
        BY <1>t, <2>5, <3>2 DEF LoadRun, loadAgentRun, loadTask, loadWorkspace, Goto
      <4> QED
        BY <2>2, <4>1
    <3> QED
      BY <3>1, <3>2
  <2>6. CASE nextModelAction(w)
    <3>1. CASE pc'[w] # "authorize"
      <4>1. pc'[w] \in {"final", "fail", "ask"} /\ UNCHANGED steps
        BY <1>t, <2>6, <3>1 DEF nextModelAction, NoAction, runToolStep, FinalResponse, AskHuman, Goto
      <4> QED
        BY <2>2, <4>1
    <3>2. CASE pc'[w] = "authorize"
      <4>1. PICK models, c : /\ pc[w] = "model" /\ CheckRun(budget, local[w].used, models) /\ runToolStep(w, c)
        BY <1>t, <1>1, <2>6, <3>2 DEF nextModelAction, NoAction, FinalResponse, AskHuman, Goto, checkBudget
      <4>2. local[w].used.tool <= limit
        BY <1>2, <4>1 DEF CheckRun, m
      <4>3. local'[w].used = local[w].used /\ (steps' = steps \/ steps'.tool = steps.tool + 1)
        BY <1>t, <4>1 DEF runToolStep, Remember, Count, Local
      <4>4. PICK u \in Nat : u = local[w].used.tool
        BY <1>u
      <4>5. Left(limit)[w] = Over(limit + 1 - u) /\ Left(limit)'[w] = Over(limit - u)
        BY <3>2, <4>1, <4>3, <4>4 DEF Left
      <4>6. Left(limit)[w] = limit + 1 - u /\ Left(limit)'[w] = limit - u
        BY <4>2, <4>4, <4>5 DEF Over
      <4>7. steps.tool \in Nat
        BY <1>t
      <4>8. steps'.tool + Left(limit)'[w] <= steps.tool + Left(limit)[w]
        BY <4>3, <4>6, <4>7
      <4> QED
        BY <1>3, <2>1, <4>8, OneSpends
    <3> QED
      BY <3>1, <3>2
  <2>7. CASE authorizeTool(w)
    <3>1. /\ pc[w] = "authorize" /\ UNCHANGED steps /\ local'[w].used = local[w].used
          /\ pc'[w] \in {"fail", "execute", "consume"}
      BY <1>t, <2>7 DEF authorizeTool, Goto, Remember, Local
    <3> QED
      BY <2>2, <2>3, <3>1
  <2>8. CASE consumeApprovedAuthority(w)
    <3>1. /\ pc[w] = "consume" /\ UNCHANGED steps /\ local'[w].used = local[w].used
          /\ pc'[w] \in {"fail", "execute", "ask", "consume"}
      <4>1. \A l \in Local : \A p, c :
               /\ [l EXCEPT !.paid = p, !.candidates = c].used = l.used
               /\ [l EXCEPT !.candidates = c].used = l.used
        BY DEF Local
      <4>2. local[w] \in Local
        BY <1>t
      <4>3. PICK l \in Local : l = local[w]
        BY <4>2
      <4>4. \/ local' = local
            \/ \E p, c : local' = [local EXCEPT ![w] = [l EXCEPT !.paid = p, !.candidates = c]]
            \/ \E c : local' = [local EXCEPT ![w] = [l EXCEPT !.candidates = c]]
        BY <2>8, <4>3 DEF consumeApprovedAuthority, Remember
      <4>5. local'[w].used = local[w].used
        <5>1. ASSUME NEW x, local' = [local EXCEPT ![w] = x] PROVE local'[w] = x
          BY <1>t, <5>1
        <5>2. ASSUME NEW p, NEW c, local' = [local EXCEPT ![w] = [l EXCEPT !.paid = p, !.candidates = c]]
              PROVE  local'[w].used = local[w].used
          <6>1. local'[w] = [l EXCEPT !.paid = p, !.candidates = c]
            BY <5>1, <5>2
          <6>2. [l EXCEPT !.paid = p, !.candidates = c].used = l.used
            BY <4>1
          <6> QED
            BY <4>3, <6>1, <6>2, Zenon
        <5>3. ASSUME NEW c, local' = [local EXCEPT ![w] = [l EXCEPT !.candidates = c]]
              PROVE  local'[w].used = local[w].used
          <6>1. local'[w] = [l EXCEPT !.candidates = c]
            BY <5>1, <5>3
          <6>2. [l EXCEPT !.candidates = c].used = l.used
            BY <4>1
          <6> QED
            BY <4>3, <6>1, <6>2, Zenon
        <5> QED
          BY <4>4, <5>2, <5>3, Zenon
      <4> QED
        BY <1>t, <2>8, <4>5 DEF consumeApprovedAuthority, Goto
    <3> QED
      BY <2>2, <2>3, <3>1
  <2>9. CASE executeTool(w)
    <3>1. /\ pc[w] = "execute" /\ UNCHANGED steps /\ pc'[w] \in {"model", "fail"}
          /\ local'[w].used = Count(local[w].used, local[w].call[1])
      BY <1>t, <2>9 DEF executeTool, Goto, Remember, Idle
    <3>2. CASE pc'[w] = "model"
      <4>1. PICK u \in Nat : u = local[w].used.tool
        BY <1>u
      <4>2. local'[w].used.tool = u + 1
        BY <3>1, <4>1 DEF Count
      <4>3. Left(limit)[w] = Over(limit - u) /\ Left(limit)'[w] = Over(limit + 1 - (u + 1))
        BY <3>1, <3>2, <4>1, <4>2 DEF Left
      <4>4. Left(limit)'[w] = Left(limit)[w]
        BY <4>3 DEF Over
      <4>5. steps.tool \in Nat /\ Left(limit)[w] \in Nat
        BY <1>t, LeftType
      <4>6. steps'.tool + Left(limit)'[w] <= steps.tool + Left(limit)[w]
        BY <3>1, <4>4, <4>5
      <4> QED
        BY <1>3, <2>1, <4>6, OneSpends
    <3> QED
      BY <2>2, <3>1, <3>2
  <2>10. CASE requestCapabilityApproval(w) \/ requestModelApproval(w)
    BY <1>t, <2>2, <2>10 DEF requestCapabilityApproval, requestModelApproval, Ask, Goto
  <2>11. CASE pauseRun(w) \/ failRun(w) \/ updateRunCompletion(w) \/ CrashRunner(w) \/ runFinalChecks(w)
    BY <1>t, <2>2, <2>11 DEF pauseRun, failRun, updateRunCompletion, Leave, CrashRunner, runFinalChecks, Goto
  <2> QED
    BY <1>5, <2>4, <2>5, <2>6, <2>7, <2>8, <2>9, <2>10, <2>11 DEF RunStep
<1>6. ASSUME NEW a \in DOMAIN approvals, AnswerStep(a) PROVE Shared(limit)'
  BY <1>4, <1>6 DEF AnswerStep, RespondApproval, handleCommandEvent, ServiceReads, HandleApprovalApproved, HandleApprovalRejected
<1>7. ASSUME NEW r \in {"approved", "rejected"}, ServiceResponds(r) PROVE Shared(limit)'
  BY <1>4, <1>7 DEF ServiceResponds
<1>8. CASE CancelAgentRun \/ EditWorkspace \/ UNCHANGED vars
  BY <1>4, <1>8 DEF CancelAgentRun, EditWorkspace, vars
<1> QED
  BY <1>5, <1>6, <1>7, <1>8 DEF Next

(* seedRunState and checkBudget: whenever the budget and the record can be *)
(* read, a run has at most limit + 1 tool calls on record for each runner  *)
(* that may be at it at a time, however many executions it has and however *)
(* often runners crash or take it over from one another.                   *)
THEOREM ToolBudgetIsHeld ==
    ASSUME "unreadable" \notin Faults PROVE Spec => []ToolBudgetHeld
<1> USE GateAssumption
<1>1. Init => BudgetInv
  <2> SUFFICES ASSUME Init, NEW m \in Nat PROVE Shared(m)
    BY LimitType DEF BudgetInv
  <2>1. \A v \in Runner : Left(m)[v] = 0
    BY DEF Init, Left
  <2> DEFINE g == Left(m)
  <2>2. \A v \in Runner : g[v] \in 0..0 /\ g[v] \in Nat
    BY <2>1
  <2> HIDE DEF g
  <2>3. Total(g, Runner) <= Cardinality(Runner) * 0 /\ Total(g, Runner) \in Nat
    BY <2>2, TotalOfBounded, TotalNat
  <2>4. Cardinality(Runner) \in Nat /\ Cardinality(Runner) * (m + 1) \in Nat
    BY FS_CardinalityType
  <2>5. steps.tool = 0
    BY DEF Init, NoUse
  <2> QED
    BY <2>3, <2>4, <2>5 DEF Shared, g
<1>2. TypeOK /\ TypeOK' /\ BudgetInv /\ [Next]_vars => BudgetInv'
  BY BudgetStep
<1>3. TypeOK /\ BudgetInv => ToolBudgetHeld
  <2> SUFFICES ASSUME TypeOK, BudgetInv, NEW budget \in loadTaskBudget, budget.tool > 0
               PROVE  steps.tool <= Cardinality(Runner) * (budget.tool + 1)
    BY DEF ToolBudgetHeld
  <2>1. budget.tool \in Nat
    BY LimitType
  <2>2. PICK m \in Nat : m = budget.tool
    BY <2>1
  <2> DEFINE g == Left(m)
  <2>3. \A v \in Runner : g[v] \in Nat
    BY LeftType
  <2>4. steps.tool + Total(g, Runner) <= Cardinality(Runner) * (m + 1)
    BY <2>2 DEF BudgetInv, Shared
  <2> HIDE DEF g
  <2>5. Total(g, Runner) \in Nat /\ Cardinality(Runner) * (m + 1) \in Nat /\ steps.tool \in Nat
    BY <2>3, TotalNat, FS_CardinalityType DEF TypeOK
  <2> QED
    BY <2>2, <2>4, <2>5
<1> QED
  BY <1>1, <1>2, <1>3, GateTypes, PTL DEF Spec

=============================================================================
