-------------------------- MODULE AdmissionProofs --------------------------
(* Proofs about Admission, for every set of workers, runs and tasks.       *)
EXTENDS Admission, ManifestProofs, FiniteSetTheorems, TLAPS

(* Types.  A worker that is not idle has a run.                            *)
THEOREM AdmissionTypes == Spec => []TypeOK
<1> USE RunAssumption
<1>1. Init => TypeOK
  BY DEF Init, TypeOK, RunStatuses, Steps
<1>2. TypeOK /\ [Next]_vars => TypeOK'
  <2> SUFFICES ASSUME TypeOK, [Next]_vars PROVE TypeOK'
    OBVIOUS
  <2>0. \A w \in Worker : pc[w] # "idle" => job[w] \in Run
    BY DEF TypeOK
  <2> USE <2>0 DEF TypeOK, RunStatuses, Steps, Goto, Write
  <2>1. ASSUME NEW w \in Worker, AdmitStep(w) PROVE TypeOK'
    <3>1. CASE Load(w)
      BY <3>1 DEF Load, LoadOutcome
    <3>2. CASE claimRun(w)
      BY <3>2 DEF claimRun
    <3>3. CASE CheckRunStart(w)
      BY <3>3 DEF CheckRunStart
    <3>4. CASE Decide(w)
      BY <3>4 DEF Decide, DecideOutcome
    <3>5. CASE ReleaseRun(w)
      BY <3>5 DEF ReleaseRun
    <3>6. CASE Ack(w)
      BY <3>6 DEF Ack
    <3>7. CASE Nak(w)
      BY <3>7 DEF Nak
    <3> QED
      BY <2>1, <3>1, <3>2, <3>3, <3>4, <3>5, <3>6, <3>7 DEF AdmitStep
  <2>2. ASSUME NEW w \in Worker, ExecuteStep(w) PROVE TypeOK'
    <3>1. CASE StartRun(w)
      BY <3>1 DEF StartRun
    <3>2. CASE StartFails(w)
      BY <3>2 DEF StartFails
    <3>3. CASE EndRun(w)
      BY <3>3 DEF EndRun
    <3>4. CASE RunTurn(w)
      BY <3>4 DEF RunTurn
    <3>5. CASE markStarted(w)
      BY <3>5 DEF markStarted
    <3>6. CASE Suspend(w)
      BY <3>6 DEF Suspend
    <3>7. CASE PauseEarly(w)
      BY <3>7 DEF PauseEarly
    <3>8. CASE markStartedLate(w)
      BY <3>8 DEF markStartedLate
    <3> QED
      BY <2>2, <3>1, <3>2, <3>3, <3>4, <3>5, <3>6, <3>7, <3>8 DEF ExecuteStep
  <2>3. ASSUME NEW w \in Worker, DatabaseError(w) \/ TimeOut(w) \/ Crash(w) PROVE TypeOK'
    <3>1. CASE DatabaseError(w)
      BY <3>1 DEF DatabaseError
    <3>2. CASE TimeOut(w)
      BY <3>2 DEF TimeOut
    <3>3. CASE Crash(w)
      BY <3>3 DEF Crash
    <3> QED
      BY <2>3, <3>1, <3>2, <3>3
  <2>4. ASSUME NEW w \in Worker, NEW r \in Run, Deliver(w, r) \/ Supervise(w, r) PROVE TypeOK'
    <3>1. CASE Deliver(w, r)
      BY <3>1 DEF Deliver
    <3>2. CASE Supervise(w, r)
      BY <3>2 DEF Supervise
    <3> QED
      BY <2>4, <3>1, <3>2
  <2>5. ASSUME NEW r \in Run, RunStep(r) PROVE TypeOK'
    <3>1. CASE Redeliver(r)
      BY <3>1 DEF Redeliver
    <3>2. CASE DirectResume(r)
      BY <3>2 DEF DirectResume
    <3>3. CASE Resume(r)
      BY <3>3 DEF Resume
    <3>4. CASE Cancel(r)
      BY <3>4 DEF Cancel
    <3>5. CASE FinishTask(r)
      BY <3>5 DEF FinishTask
    <3>6. CASE Expire(r)
      BY <3>6 DEF Expire
    <3> QED
      BY <2>5, <3>1, <3>2, <3>3, <3>4, <3>5, <3>6 DEF RunStep
  <2>6. CASE UNCHANGED vars
    BY <2>6 DEF vars
  <2> QED
    BY <2>1, <2>2, <2>3, <2>4, <2>5, <2>6 DEF Next
<1> QED
  BY <1>1, <1>2, PTL DEF Spec

-----------------------------------------------------------------------------
(* The claim protocol.  It has no owner column, so it rests on this: a run *)
(* that a worker holds, or whose agent is at work in the background, is    *)
(* never in a status another worker can claim.                             *)

\* One worker process, as the durable subscription allows today.
Sole == \A v, w \in Worker : v = w

(* When that can be promised: one worker, or several of which none outlasts*)
(* a claim and no run of the built-in runner is paused.  Runs of external  *)
(* agents may be paused, suspended, resumed and timed out.                 *)
Separate == Sole \/ (Pausable \subseteq External /\ "slow" \notin Faults)

(* A run with an agent in the background is in no status that a worker     *)
(* could claim; the others are in the status their handler has left them.  *)
AgentInv ==
    /\ \A w \in Worker : background[w] \subseteq External
    /\ \A w \in Worker : \A r \in background[w] : status[r] \notin {"queued", "admitting"}
    /\ \A v, w \in Worker : background[v] \cap background[w] # {} => v = w
    /\ \A w \in Worker : pc[w] \in {"budget", "decide", "granted", "launched", "deny", "abort"} =>
          status[job[w]] = "admitting"
    /\ \A w \in Worker : pc[w] \in {"launched", "preempted"} => job[w] \in External
    /\ \A w \in Worker : pc[w] = "preempted" => status[job[w]] = "paused"
    /\ \A w \in Worker : pc[w] = "executing" => status[job[w]] \in {"running", "cancelled"}
    /\ \A v, w \in Worker : pc[w] \in {"preempted", "executing"} => job[w] \notin background[v]
    /\ Pausable \subseteq External =>
          /\ \A r \in Run \ External : status[r] # "paused"
          /\ \A w \in Worker : pc[w] = "release" => status[job[w]] # "queued"
    /\ "slow" \notin Faults => \A w \in Worker : pc[w] \in Holding => job[w] \notin stale
    /\ ClaimExclusive

(* A run that can be claimed is in nobody's hands, and has no agent.       *)
LEMMA ClaimableHasNoAgent ==
    ASSUME TypeOK, AgentInv, Separate, NEW w \in Worker, pc[w] = "claim", Claimable(job[w])
    PROVE  \A v \in Worker : (pc[v] \in Holding => job[v] # job[w]) /\ job[w] \notin background[v]
  BY DEF TypeOK, AgentInv, Separate, Sole, Claimable, Holding

(* Every step of every actor keeps the agents apart.                       *)
LEMMA AgentInvInductive ==
    ASSUME Separate, TypeOK, AgentInv, [Next]_vars
    PROVE  AgentInv'
<1>0. \A w \in Worker : pc[w] # "idle" => job[w] \in Run
  BY DEF TypeOK
<1> USE <1>0 DEF TypeOK, AgentInv, ClaimExclusive, Holding, Goto, Write
<1>1. ASSUME NEW w \in Worker, AdmitStep(w) PROVE AgentInv'
  <2>1. CASE Load(w)
    BY <2>1 DEF Load, LoadOutcome
  <2>2. CASE claimRun(w)
    BY <2>2, ClaimableHasNoAgent DEF claimRun
  <2>3. CASE CheckRunStart(w)
    BY <2>3 DEF CheckRunStart
  <2>4. CASE Decide(w)
    BY <2>4 DEF Decide, DecideOutcome
  <2>5. CASE ReleaseRun(w)
    BY <2>5 DEF ReleaseRun
  <2>6. CASE Ack(w)
    BY <2>6 DEF Ack
  <2>7. CASE Nak(w)
    BY <2>7 DEF Nak
  <2> QED
    BY <1>1, <2>1, <2>2, <2>3, <2>4, <2>5, <2>6, <2>7 DEF AdmitStep
<1>2. ASSUME NEW w \in Worker, ExecuteStep(w) PROVE AgentInv'
  <2>1. CASE StartRun(w)
    BY <2>1 DEF StartRun
  <2>2. CASE StartFails(w)
    BY <2>2 DEF StartFails
  <2>3. CASE EndRun(w)
    BY <2>3 DEF EndRun
  <2>4. CASE RunTurn(w)
    BY <2>4 DEF RunTurn
  <2>5. CASE markStarted(w)
    BY <2>5 DEF markStarted
  <2>6. CASE Suspend(w)
    BY <2>6 DEF Suspend
  <2>7. CASE PauseEarly(w)
    BY <2>7 DEF PauseEarly
  <2>8. CASE markStartedLate(w)
    BY <2>8 DEF markStartedLate
  <2> QED
    BY <1>2, <2>1, <2>2, <2>3, <2>4, <2>5, <2>6, <2>7, <2>8 DEF ExecuteStep
<1>3. ASSUME NEW w \in Worker, DatabaseError(w) \/ TimeOut(w) \/ Crash(w) PROVE AgentInv'
  <2>1. CASE DatabaseError(w)
    BY <2>1 DEF DatabaseError
  <2>2. CASE TimeOut(w)
    BY <2>2 DEF TimeOut
  <2>3. CASE Crash(w)
    BY <2>3 DEF Crash
  <2> QED
    BY <1>3, <2>1, <2>2, <2>3
<1>4. ASSUME NEW w \in Worker, NEW r \in Run, Deliver(w, r) \/ Supervise(w, r) PROVE AgentInv'
  <2>1. CASE Deliver(w, r)
    BY <2>1 DEF Deliver
  <2>2. CASE Supervise(w, r)
    BY <2>2 DEF Supervise
  <2> QED
    BY <1>4, <2>1, <2>2
<1>5. ASSUME NEW r \in Run, RunStep(r) PROVE AgentInv'
  <2>1. CASE Redeliver(r)
    BY <2>1 DEF Redeliver
  <2>2. CASE DirectResume(r)
    BY <2>2 DEF DirectResume
  <2>3. CASE Resume(r)
    BY <2>3 DEF Resume
  <2>4. CASE Cancel(r)
    BY <2>4 DEF Cancel
  <2>5. CASE FinishTask(r)
    BY <2>5 DEF FinishTask
  <2>6. CASE Expire(r)
    BY <2>6 DEF Expire, HoldsClaim
  <2> QED
    BY <1>5, <2>1, <2>2, <2>3, <2>4, <2>5, <2>6 DEF RunStep
<1>6. CASE UNCHANGED vars
  BY <1>6 DEF vars
<1> QED
  BY <1>1, <1>2, <1>3, <1>4, <1>5, <1>6 DEF Next

(* The agents are kept apart in every reachable state.                     *)
THEOREM AgentsKeptApart == ASSUME Separate PROVE Spec => []AgentInv
<1>1. Init => AgentInv
  BY DEF Init, AgentInv, ClaimExclusive, Holding
<1>2. TypeOK /\ AgentInv /\ [Next]_vars => AgentInv'
  BY AgentInvInductive
<1> QED
  BY <1>1, <1>2, AdmissionTypes, PTL DEF Spec

(* No run is in the hands of two workers past its claim, whatever is       *)
(* redelivered, denied, suspended or restarted (claimRun, ReleaseRun): for *)
(* one worker and every kind of run, and for several under the conditions  *)
(* of Separate.                                                            *)
THEOREM ClaimsAreExclusive == ASSUME Separate PROVE Spec => []ClaimExclusive
<1>1. AgentInv => ClaimExclusive
  BY DEF AgentInv
<1> QED
  BY <1>1, AgentsKeptApart, PTL

(* A set without two elements has at most one.                             *)
LEMMA AtMostOne ==
    ASSUME NEW S, \A x, y \in S : x = y
    PROVE  Cardinality(S) \in {0, 1} /\ (Cardinality(S) = 1 => S # {})
<1>1. CASE S = {}
  BY <1>1, FS_EmptySet
<1>2. CASE S # {}
  <2>1. PICK x : S = {x}
    BY <1>2
  <2>2. Cardinality({x}) = 1
    BY FS_Singleton
  <2> QED
    BY <1>2, <2>1, <2>2
<1> QED
  BY <1>1, <1>2

(* No two agents work on a run, whatever is redelivered, timed out,        *)
(* suspended or resumed (supervisor.go:101-156): for one worker and every  *)
(* kind of run, and for several under the conditions of Separate.          *)
THEOREM OneAgentAtWork == ASSUME Separate PROVE Spec => []OneAgentPerRun
<1>1. TypeOK /\ AgentInv => OneAgentPerRun
  <2> SUFFICES ASSUME TypeOK, AgentInv, NEW r \in Run
               PROVE  Cardinality({w \in Worker : r \in background[w]})
                        + Cardinality({w \in Worker : job[w] = r /\ pc[w] \in {"launched", "preempted", "executing"}}) <= 1
    BY DEF OneAgentPerRun
  <2> DEFINE B == {w \in Worker : r \in background[w]}
             H == {w \in Worker : job[w] = r /\ pc[w] \in {"launched", "preempted", "executing"}}
  <2>1. \A x, y \in B : x = y
    BY DEF AgentInv
  <2>2. \A x, y \in H : x = y
    BY DEF AgentInv, ClaimExclusive, Holding
  <2>3. B = {} \/ H = {}
    BY DEF AgentInv
  <2> HIDE DEF B, H
  <2>4. Cardinality(B) \in {0, 1} /\ (Cardinality(B) = 1 => B # {})
    BY <2>1, AtMostOne
  <2>5. Cardinality(H) \in {0, 1} /\ (Cardinality(H) = 1 => H # {})
    BY <2>2, AtMostOne
  <2>6. Cardinality(B) + Cardinality(H) <= 1
    BY <2>3, <2>4, <2>5
  <2> QED
    BY <2>6 DEF B, H
<1> QED
  BY <1>1, AgentsKeptApart, AdmissionTypes, PTL

-----------------------------------------------------------------------------
(* The counts.  They are kept if no run goes on unasked: a run that is set *)
(* running again beside its handler (DirectResume, markStartedLate) passes *)
(* neither the budget nor the scheduler.  Only external agents that ask    *)
(* for approvals do that; those that run their turn to its end do not.     *)
Deployment == Separate /\ External \cap Pausable = {}

ClaimInv ==
    /\ AgentInv
    /\ \A w \in Worker : pc[w] # "preempted"
    /\ \A w \in Worker : \A r \in background[w] : status[r] # "paused"

(* No step of a deployment lets a run go on unasked.                       *)
LEMMA ClaimInvInductive ==
    ASSUME Deployment, TypeOK, ClaimInv, [Next]_vars
    PROVE  ClaimInv'
<1>1. AgentInv'
  BY AgentInvInductive DEF Deployment, ClaimInv
<1>2. /\ \A w \in Worker : pc'[w] # "preempted"
      /\ \A w \in Worker : \A r \in background'[w] : status'[r] # "paused"
  <2> USE DEF Deployment, ClaimInv, AgentInv, TypeOK, Goto, Write
  <2>0. \A w \in Worker : pc[w] # "idle" => job[w] \in Run
    OBVIOUS
  <2>1. ASSUME NEW w \in Worker, AdmitStep(w)
        PROVE  /\ \A v \in Worker : pc'[v] # "preempted"
               /\ \A v \in Worker : \A r \in background'[v] : status'[r] # "paused"
    BY <2>0, <2>1 DEF AdmitStep, Load, LoadOutcome, claimRun, CheckRunStart, Decide, DecideOutcome,
                      ReleaseRun, Ack, Nak
  <2>2. ASSUME NEW w \in Worker, ExecuteStep(w)
        PROVE  /\ \A v \in Worker : pc'[v] # "preempted"
               /\ \A v \in Worker : \A r \in background'[v] : status'[r] # "paused"
    BY <2>0, <2>2 DEF ExecuteStep, StartRun, StartFails, EndRun, RunTurn, markStarted, Suspend, PauseEarly,
                      markStartedLate
  <2>3. ASSUME NEW w \in Worker, DatabaseError(w) \/ TimeOut(w) \/ Crash(w)
        PROVE  /\ \A v \in Worker : pc'[v] # "preempted"
               /\ \A v \in Worker : \A r \in background'[v] : status'[r] # "paused"
    BY <2>0, <2>3 DEF DatabaseError, TimeOut, Crash
  <2>4. ASSUME NEW w \in Worker, NEW r \in Run, Deliver(w, r) \/ Supervise(w, r)
        PROVE  /\ \A v \in Worker : pc'[v] # "preempted"
               /\ \A v \in Worker : \A q \in background'[v] : status'[q] # "paused"
    BY <2>0, <2>4 DEF Deliver, Supervise
  <2>5. ASSUME NEW r \in Run, RunStep(r)
        PROVE  /\ \A v \in Worker : pc'[v] # "preempted"
               /\ \A v \in Worker : \A q \in background'[v] : status'[q] # "paused"
    BY <2>0, <2>5 DEF RunStep, Redeliver, DirectResume, Resume, Cancel, FinishTask, Expire
  <2>6. CASE UNCHANGED vars
    BY <2>6 DEF vars
  <2> QED
    BY <2>1, <2>2, <2>3, <2>4, <2>5, <2>6 DEF Next
<1> QED
  BY <1>1, <1>2 DEF ClaimInv

(* The claim protocol and what the counts need are invariants of every     *)
(* deployment (claimRun, supervise).                                       *)
THEOREM ClaimProtocol == ASSUME Deployment PROVE Spec => []ClaimInv
<1>1. Init => ClaimInv
  BY DEF Init, ClaimInv, AgentInv, ClaimExclusive, Holding
<1>2. TypeOK /\ ClaimInv /\ [Next]_vars => ClaimInv'
  BY ClaimInvInductive
<1> QED
  BY <1>1, <1>2, AdmissionTypes, PTL DEF Spec

-----------------------------------------------------------------------------
(* The budget.  A run that has passed it is admitting or running, so the   *)
(* count the next candidate is judged by includes it.                      *)
LEMMA StartedAreCounted ==
    ASSUME TypeOK, ClaimInv
    PROVE  Started \subseteq AdmissionRuns
  BY DEF TypeOK, ClaimInv, AgentInv, Started, AdmissionRuns

(* No step but CheckRunStart adds a run to those that have passed the      *)
(* budget.                                                                 *)
LEMMA StartedGrows ==
    ASSUME Deployment, TypeOK, ClaimInv, [Next]_vars
    PROVE  \/ Started' \subseteq Started
           \/ \E w \in Worker : /\ CheckRunStart(w) /\ ~OverConcurrent
                               /\ Started' \subseteq Started \cup {job[w]}
                               /\ job[w] \in AdmissionRuns
<1>0. \A w \in Worker : pc[w] # "idle" => job[w] \in Run
  BY DEF TypeOK
<1> USE <1>0 DEF TypeOK, Started, Goto, Write
<1>1. ASSUME NEW w \in Worker, CheckRunStart(w), ~OverConcurrent
      PROVE  Started' \subseteq Started \cup {job[w]} /\ job[w] \in AdmissionRuns
  BY <1>1 DEF CheckRunStart, ClaimInv, AgentInv, AdmissionRuns
<1>2. ASSUME NEW w \in Worker, CheckRunStart(w), OverConcurrent PROVE Started' \subseteq Started
  BY <1>2 DEF CheckRunStart
<1>3. ASSUME NEW w \in Worker, AdmitStep(w), ~CheckRunStart(w) PROVE Started' \subseteq Started
  <2>1. CASE Load(w)
    BY <2>1 DEF Load, LoadOutcome
  <2>2. CASE claimRun(w)
    BY <2>2 DEF claimRun
  <2>3. CASE Decide(w)
    BY <2>3 DEF Decide, DecideOutcome
  <2>4. CASE ReleaseRun(w)
    BY <2>4 DEF ReleaseRun
  <2>5. CASE Ack(w)
    BY <2>5 DEF Ack
  <2>6. CASE Nak(w)
    BY <2>6 DEF Nak
  <2> QED
    BY <1>3, <2>1, <2>2, <2>3, <2>4, <2>5, <2>6 DEF AdmitStep
<1>4. ASSUME NEW w \in Worker, ExecuteStep(w) PROVE Started' \subseteq Started
  <2>1. CASE StartRun(w)
    BY <2>1 DEF StartRun
  <2>2. CASE StartFails(w)
    BY <2>2 DEF StartFails, ClaimInv, AgentInv, Deployment
  <2>3. CASE EndRun(w)
    BY <2>3 DEF EndRun
  <2>4. CASE RunTurn(w) \/ markStarted(w) \/ Suspend(w) \/ PauseEarly(w) \/ markStartedLate(w)
    BY <2>4 DEF RunTurn, markStarted, Suspend, PauseEarly, markStartedLate, ClaimInv, AgentInv, Deployment
  <2> QED
    BY <1>4, <2>1, <2>2, <2>3, <2>4 DEF ExecuteStep
<1>5. ASSUME NEW w \in Worker, DatabaseError(w) \/ TimeOut(w) \/ Crash(w)
      PROVE  Started' \subseteq Started
  BY <1>5 DEF DatabaseError, TimeOut, Crash
<1>6. ASSUME NEW w \in Worker, NEW r \in Run, Deliver(w, r) \/ Supervise(w, r)
      PROVE  Started' \subseteq Started
  BY <1>6 DEF Deliver, Supervise, ClaimInv, AgentInv
<1>7. ASSUME NEW r \in Run, RunStep(r) PROVE Started' \subseteq Started
  BY <1>7 DEF RunStep, Redeliver, DirectResume, Resume, Cancel, FinishTask, Expire, ClaimInv, AgentInv
<1>8. CASE UNCHANGED vars
  BY <1>8 DEF vars
<1> QED
  BY <1>1, <1>2, <1>3, <1>4, <1>5, <1>6, <1>7, <1>8 DEF Next

(* MaxConcurrent bounds the runs that have passed the budget, although the *)
(* count and the claim are two statements: CheckRunStart fails closed.     *)
THEOREM ConcurrencyIsBounded == ASSUME Deployment PROVE Spec => []ConcurrencyBounded
<1> USE RunAssumption, CapacityAssumption
<1>1. Init => ConcurrencyBounded
  <2> SUFFICES ASSUME Init PROVE Started = {}
    BY FS_EmptySet DEF ConcurrencyBounded
  <2> QED
    BY DEF Init, Started
<1>2. TypeOK /\ ClaimInv /\ ClaimInv' /\ TypeOK' /\ ConcurrencyBounded /\ [Next]_vars => ConcurrencyBounded'
  <2> SUFFICES ASSUME TypeOK, ClaimInv, ConcurrencyBounded, [Next]_vars, MaxConcurrent > 0
               PROVE  Cardinality(Started') <= MaxConcurrent
    BY DEF ConcurrencyBounded
  <2>1. IsFiniteSet(AdmissionRuns) /\ IsFiniteSet(Started)
    BY FS_Subset DEF AdmissionRuns, Started
  <2>2. CASE Started' \subseteq Started
    BY <2>1, <2>2, FS_Subset, FS_CardinalityType DEF ConcurrencyBounded
  <2>3. ASSUME NEW w \in Worker, ~OverConcurrent, job[w] \in AdmissionRuns,
               Started' \subseteq Started \cup {job[w]}
        PROVE  Cardinality(Started') <= MaxConcurrent
    <3>1. Started' \subseteq AdmissionRuns
      BY <2>3, StartedAreCounted
    <3>2. Cardinality(AdmissionRuns) <= MaxConcurrent
      BY <2>1, <2>3, FS_CardinalityType DEF OverConcurrent
    <3>3. Cardinality(Started') <= Cardinality(AdmissionRuns)
      BY <2>1, <3>1, FS_Subset
    <3> QED
      BY <2>1, <3>1, <3>2, <3>3, FS_Subset, FS_CardinalityType
  <2> QED
    BY <2>2, <2>3, StartedGrows
<1> QED
  BY <1>1, <1>2, AdmissionTypes, ClaimProtocol, PTL DEF Spec

-----------------------------------------------------------------------------
(* Ownership.  An admitted run is admitting or running, so the claims the  *)
(* next candidate is compared with include it.                             *)
LEMMA AdmittedAreClaims ==
    ASSUME TypeOK, ClaimInv
    PROVE  Admitted \subseteq AdmissionRuns
  BY DEF TypeOK, ClaimInv, AgentInv, Admitted, AdmissionRuns

\* A step that admits at most the run of w, and for a reason.
Admits(w) ==
    /\ job[w] \in Run
    /\ Admitted' \subseteq Admitted \cup {job[w]}
    /\ HasConfig(job[w]) => DecideOutcome(job[w]) = "granted"

(* A run is admitted by CheckRunStart, if its task has no configuration,   *)
(* or by Decide; by no other step.                                         *)
LEMMA AdmittedGrows ==
    ASSUME Deployment, TypeOK, ClaimInv, [Next]_vars
    PROVE  \/ Admitted' \subseteq Admitted
           \/ \E w \in Worker : Admits(w)
<1>0. \A w \in Worker : pc[w] # "idle" => job[w] \in Run
  BY DEF TypeOK
<1> USE <1>0 DEF TypeOK, Admitted, Goto, Write
<1>1. ASSUME NEW w \in Worker, CheckRunStart(w)
      PROVE  Admitted' \subseteq Admitted \/ Admits(w)
  BY <1>1 DEF CheckRunStart, Admits
<1>2. ASSUME NEW w \in Worker, Decide(w)
      PROVE  Admitted' \subseteq Admitted \/ Admits(w)
  <2>1. DecideOutcome(job[w]) \in {"granted", "deny", "abort"}
    BY DEF DecideOutcome
  <2> QED
    BY <1>2, <2>1 DEF Decide, Admits
<1>3. ASSUME NEW w \in Worker, AdmitStep(w), ~CheckRunStart(w), ~Decide(w)
      PROVE  Admitted' \subseteq Admitted
  <2>1. CASE Load(w)
    BY <2>1 DEF Load, LoadOutcome
  <2>2. CASE claimRun(w)
    BY <2>2 DEF claimRun
  <2>3. CASE ReleaseRun(w)
    BY <2>3 DEF ReleaseRun
  <2>4. CASE Ack(w)
    BY <2>4 DEF Ack
  <2>5. CASE Nak(w)
    BY <2>5 DEF Nak
  <2> QED
    BY <1>3, <2>1, <2>2, <2>3, <2>4, <2>5 DEF AdmitStep
<1>4. ASSUME NEW w \in Worker, ExecuteStep(w) PROVE Admitted' \subseteq Admitted
  <2>1. CASE StartRun(w)
    BY <2>1 DEF StartRun
  <2>2. CASE StartFails(w)
    BY <2>2 DEF StartFails, ClaimInv, AgentInv, Deployment
  <2>3. CASE EndRun(w)
    BY <2>3 DEF EndRun
  <2>4. CASE RunTurn(w) \/ markStarted(w) \/ Suspend(w) \/ PauseEarly(w) \/ markStartedLate(w)
    BY <2>4 DEF RunTurn, markStarted, Suspend, PauseEarly, markStartedLate, ClaimInv, AgentInv, Deployment
  <2> QED
    BY <1>4, <2>1, <2>2, <2>3, <2>4 DEF ExecuteStep
<1>5. ASSUME NEW w \in Worker, DatabaseError(w) \/ TimeOut(w) \/ Crash(w)
      PROVE  Admitted' \subseteq Admitted
  BY <1>5 DEF DatabaseError, TimeOut, Crash
<1>6. ASSUME NEW w \in Worker, NEW r \in Run, Deliver(w, r) \/ Supervise(w, r)
      PROVE  Admitted' \subseteq Admitted
  BY <1>6 DEF Deliver, Supervise, ClaimInv, AgentInv
<1>7. ASSUME NEW r \in Run, RunStep(r) PROVE Admitted' \subseteq Admitted
  BY <1>7 DEF RunStep, Redeliver, DirectResume, Resume, Cancel, FinishTask, Expire, ClaimInv, AgentInv
<1>8. CASE UNCHANGED vars
  BY <1>8 DEF vars
<1> QED
  BY <1>1, <1>2, <1>3, <1>4, <1>5, <1>6, <1>7, <1>8 DEF Next

\* Two runs that must not own overlapping paths.
Rivals(q, r) ==
    /\ HasConfig(q) /\ HasConfig(r)
    /\ TaskOf[q] # TaskOf[r] /\ RepoOf[TaskOf[q]] = RepoOf[TaskOf[r]]

(* A candidate the scheduler finds ready conflicts with no rival claim, in *)
(* either order of the comparison.                                         *)
LEMMA GrantedIsDisjoint ==
    ASSUME NEW r \in Run, DecideOutcome(r) = "granted", NEW q \in AdmissionRuns, Rivals(q, r)
    PROVE  /\ <<TaskOf[q], TaskOf[r]>> \notin Overlapping
           /\ <<TaskOf[r], TaskOf[q]>> \notin Overlapping
<1>1. ~InvalidManifest(r) /\ Ready(r)
  BY DEF DecideOutcome
<1>2. q \in RunningClaims(r)
  BY DEF RunningClaims, Rivals
<1>3. <<TaskOf[r], TaskOf[q]>> \notin Overlapping
  BY <1>1, <1>2 DEF Ready, ClaimConflict
<1>4. Fits(Capacity, ConfigOf(q)) /\ Fits(Capacity, ConfigOf(r))
  BY <1>1, <1>2 DEF InvalidManifest, Fitting, ConfigOf
<1>5. /\ ConfigOf(q).owns # {} /\ ConfigOf(r).owns # {}
      /\ \A p \in ConfigOf(q).owns \cup ConfigOf(r).owns : normalizeOwnership(p) # Refused
  BY <1>4 DEF Fits
<1>6. ~OwnershipConflict(ConfigOf(r).owns, ConfigOf(q).owns)
  BY <1>3 DEF Overlapping, Rivals, HasConfig, ConfigOf
<1>7. ~OwnershipConflict(ConfigOf(q).owns, ConfigOf(r).owns)
  BY <1>5, <1>6, ConflictSymmetric
<1>8. <<TaskOf[q], TaskOf[r]>> \notin Overlapping
  BY <1>7 DEF Overlapping, ConfigOf
<1> QED
  BY <1>3, <1>8

(* Admitted runs of different scheduled tasks of a repository own disjoint *)
(* paths, for every number of workers, runs and tasks and whatever they    *)
(* declare.                                                                *)
THEOREM OwnershipIsDisjoint == ASSUME Deployment PROVE Spec => []OwnershipDisjoint
<1>1. Init => OwnershipDisjoint
  <2> SUFFICES ASSUME Init PROVE Admitted = {}
    BY DEF OwnershipDisjoint
  <2> QED
    BY DEF Init, Admitted
<1>2. TypeOK /\ ClaimInv /\ OwnershipDisjoint /\ [Next]_vars => OwnershipDisjoint'
  <2> SUFFICES ASSUME TypeOK, ClaimInv, OwnershipDisjoint, [Next]_vars,
                      NEW q \in Admitted', NEW r \in Admitted', Rivals(q, r)
               PROVE  <<TaskOf[q], TaskOf[r]>> \notin Overlapping
    BY DEF OwnershipDisjoint, Rivals
  <2>1. \A p, s \in Admitted : Rivals(p, s) => <<TaskOf[p], TaskOf[s]>> \notin Overlapping
    BY DEF OwnershipDisjoint, Rivals
  <2>2. Admitted \subseteq AdmissionRuns /\ q # r
    BY AdmittedAreClaims DEF Rivals
  <2>3. CASE Admitted' \subseteq Admitted
    BY <2>1, <2>3
  <2>4. CASE ~(Admitted' \subseteq Admitted)
    <3>0. PICK w \in Worker : Admits(w)
      BY <2>4, AdmittedGrows
    <3>1. CASE q \in Admitted /\ r \in Admitted
      BY <2>1, <3>1
    <3>2. CASE q \in Admitted /\ r = job[w]
      BY <2>2, <3>0, <3>2, GrantedIsDisjoint DEF Rivals, Admits
    <3>3. CASE q = job[w] /\ r \in Admitted
      <4>1. Rivals(r, q)
        BY DEF Rivals
      <4> QED
        BY <2>2, <3>0, <3>3, <4>1, GrantedIsDisjoint DEF Rivals, Admits
    <3> QED
      BY <2>2, <3>0, <3>1, <3>2, <3>3 DEF Admits
  <2> QED
    BY <2>3, <2>4
<1> QED
  BY <1>1, <1>2, AdmissionTypes, ClaimProtocol, PTL DEF Spec

-----------------------------------------------------------------------------
(* Messages.  A run that is being admitted has one that nobody is about to *)
(* acknowledge.                                                            *)
At(r)     == {w \in Worker : job[w] = r}
Acking(r) == {w \in Worker : job[w] = r /\ pc[w] = "ack"}

RecoverInv ==
    \A r \in Run : /\ Cardinality(At(r)) <= trig[r]
                   /\ status[r] = "admitting" => Cardinality(Acking(r)) < trig[r]

(* Workers are finitely many.                                              *)
LEMMA WorkersAreFinite ==
    ASSUME NEW S, S \subseteq Worker PROVE IsFiniteSet(S) /\ Cardinality(S) \in Nat
  BY RunAssumption, FS_Subset, FS_CardinalityType

(* What a run keeps when no worker comes to it or acknowledges its message.*)
KeepsMessages(r) ==
    /\ At(r)' \subseteq At(r)
    /\ trig'[r] \in Int /\ trig'[r] >= trig[r]
    /\ status'[r] = "admitting" => status[r] = "admitting" /\ Acking(r)' \subseteq Acking(r)

(* A run that keeps its messages can still be recovered.                   *)
LEMMA KeptIsRecoverable ==
    ASSUME TypeOK, RecoverInv, NEW r \in Run, KeepsMessages(r)
    PROVE  Cardinality(At(r)') <= trig'[r] /\ (status'[r] = "admitting" => Cardinality(Acking(r)') < trig'[r])
<1>1. At(r) \subseteq Worker /\ Acking(r) \subseteq Worker /\ At(r)' \subseteq Worker /\ Acking(r)' \subseteq Worker
  BY DEF At, Acking
<1>2. /\ IsFiniteSet(At(r)) /\ Cardinality(At(r)) \in Nat /\ IsFiniteSet(Acking(r)) /\ Cardinality(Acking(r)) \in Nat
      /\ Cardinality(At(r)') \in Nat /\ Cardinality(Acking(r)') \in Nat
  BY <1>1, WorkersAreFinite
<1>3. Cardinality(At(r)') <= Cardinality(At(r))
  BY <1>2, FS_Subset DEF KeepsMessages
<1>4. trig[r] \in Int
  BY DEF TypeOK
<1>5. Cardinality(At(r)') <= trig'[r]
  BY <1>2, <1>3, <1>4 DEF KeepsMessages, RecoverInv
<1>6. ASSUME status'[r] = "admitting" PROVE Cardinality(Acking(r)') < trig'[r]
  <2>1. Cardinality(Acking(r)') <= Cardinality(Acking(r))
    BY <1>2, <1>6, FS_Subset DEF KeepsMessages
  <2>2. Cardinality(Acking(r)) < trig[r]
    BY <1>6 DEF KeepsMessages, RecoverInv
  <2> QED
    BY <1>2, <1>4, <2>1, <2>2 DEF KeepsMessages
<1> QED
  BY <1>5, <1>6

(* A claim, a delivery and an acknowledgement count right; every other step*)
(* leaves the messages where they are.                                     *)
LEMMA RecoverInvInductive ==
    ASSUME "error" \notin Faults, TypeOK, RecoverInv, [Next]_vars
    PROVE  RecoverInv'
<1>0. \A w \in Worker : pc[w] # "idle" => job[w] \in Run
  BY DEF TypeOK
<1>k. ASSUME \A r \in Run : KeepsMessages(r) PROVE RecoverInv'
  BY <1>k, KeptIsRecoverable DEF RecoverInv
<1>t. /\ status \in [Run -> RunStatuses] /\ trig \in [Run -> Int] /\ pc \in [Worker -> Steps]
      /\ job \in [Worker -> Run \cup {NoRun}]
  BY DEF TypeOK
<1>f. \A r \in Run : /\ IsFiniteSet(At(r)) /\ Cardinality(At(r)) \in Nat
                     /\ IsFiniteSet(Acking(r)) /\ Cardinality(Acking(r)) \in Nat
  BY WorkersAreFinite DEF At, Acking
<1> USE DEF Goto, Write
<1>1. ASSUME NEW w \in Worker, claimRun(w) PROVE RecoverInv'
  <2>1. CASE ~Claimable(job[w])
    <3>1. \A r \in Run : KeepsMessages(r)
      BY <1>1, <2>1, <1>t DEF claimRun, KeepsMessages, At, Acking
    <3> QED
      BY <3>1, <1>k
  <2>2. CASE Claimable(job[w])
    <3>0. PICK q \in Run : job[w] = q /\ pc[w] = "claim"
      BY <1>0, <1>1 DEF claimRun
    <3>1. \A r \in Run : r # q => KeepsMessages(r)
      BY <1>1, <2>2, <3>0, <1>t DEF claimRun, KeepsMessages, At, Acking
    <3>2. At(q)' = At(q) /\ Acking(q)' = Acking(q) /\ trig' = trig
      BY <1>1, <2>2, <3>0, <1>t DEF claimRun, At, Acking
    <3>3. Acking(q) \cup {w} \subseteq At(q) /\ w \notin Acking(q)
      BY <3>0 DEF At, Acking
    <3>4. Cardinality(Acking(q) \cup {w}) = Cardinality(Acking(q)) + 1
      BY <1>f, <3>0, <3>3, FS_AddElement
    <3>5. Cardinality(Acking(q) \cup {w}) <= Cardinality(At(q))
      BY <1>f, <3>0, <3>3, FS_Subset
    <3> QED
      <4> SUFFICES ASSUME NEW r \in Run
                   PROVE  Cardinality(At(r)') <= trig'[r] /\ (status'[r] = "admitting" => Cardinality(Acking(r)') < trig'[r])
        BY DEF RecoverInv
      <4>1. CASE r # q
        BY <3>1, <4>1, KeptIsRecoverable
      <4>2. CASE r = q
        <5>1. Cardinality(At(r)) <= trig[r] /\ trig[r] \in Int
          BY <1>t DEF RecoverInv
        <5>2. Cardinality(Acking(r)) + 1 <= Cardinality(At(r))
          BY <3>4, <3>5, <4>2
        <5>3. Cardinality(Acking(r)) < trig[r]
          BY <1>f, <5>1, <5>2
        <5> QED
          BY <3>2, <4>2, <5>1, <5>3
      <4> QED
        BY <4>1, <4>2
  <2> QED
    BY <2>1, <2>2
<1>2. ASSUME NEW w \in Worker, Ack(w) PROVE RecoverInv'
  <2>0. PICK q \in Run : job[w] = q /\ pc[w] = "ack"
    BY <1>0, <1>2 DEF Ack
  <2>1. /\ UNCHANGED status /\ trig' = [trig EXCEPT ![q] = @ - 1] /\ job' = [job EXCEPT ![w] = NoRun]
        /\ pc' = [pc EXCEPT ![w] = "idle"]
    BY <1>2, <2>0 DEF Ack
  <2>2. \A r \in Run : r # q => KeepsMessages(r)
    <3>1. q # NoRun
      BY RunAssumption
    <3>2. \A r \in Run : r # q => At(r)' \subseteq At(r) /\ Acking(r)' \subseteq Acking(r)
      BY <2>1, <1>t, RunAssumption DEF At, Acking
    <3>3. \A r \in Run : r # q => trig'[r] = trig[r] /\ trig[r] \in Int
      BY <2>1, <1>t
    <3> QED
      BY <2>1, <3>2, <3>3 DEF KeepsMessages
  <2>3. At(q)' = At(q) \ {w} /\ Acking(q)' = Acking(q) \ {w}
    BY <2>0, <2>1, <1>t, RunAssumption DEF At, Acking
  <2>4. w \in At(q) /\ w \in Acking(q)
    BY <2>0 DEF At, Acking
  <2>5. Cardinality(At(q) \ {w}) = Cardinality(At(q)) - 1 /\ Cardinality(Acking(q) \ {w}) = Cardinality(Acking(q)) - 1
    BY <1>f, <2>4, FS_RemoveElement
  <2>6. trig'[q] = trig[q] - 1 /\ trig[q] \in Int
    BY <2>1, <1>t
  <2>7. /\ Cardinality(At(q)') <= trig'[q]
        /\ status'[q] = "admitting" => Cardinality(Acking(q)') < trig'[q]
    BY <1>f, <2>1, <2>3, <2>5, <2>6 DEF RecoverInv
  <2> QED
    <3> SUFFICES ASSUME NEW r \in Run
                 PROVE  Cardinality(At(r)') <= trig'[r] /\ (status'[r] = "admitting" => Cardinality(Acking(r)') < trig'[r])
      BY DEF RecoverInv
    <3>1. CASE r # q
      BY <2>2, <3>1, KeptIsRecoverable
    <3>2. CASE r = q
      BY <2>7, <3>2
    <3> QED
      BY <3>1, <3>2
<1>3. ASSUME NEW w \in Worker, NEW q \in Run, Deliver(w, q) PROVE RecoverInv'
  <2>1. /\ UNCHANGED <<status, trig>> /\ job' = [job EXCEPT ![w] = q] /\ pc' = [pc EXCEPT ![w] = "load"]
        /\ pc[w] = "idle" /\ Cardinality(At(q)) < trig[q]
    BY <1>3 DEF Deliver, At
  <2>2. \A r \in Run : Acking(r)' \subseteq Acking(r)
    BY <2>1, <1>t DEF Acking
  <2>3. \A r \in Run : r # q => KeepsMessages(r)
    BY <2>1, <2>2, <1>t DEF KeepsMessages, At
  <2>4. At(q)' \subseteq At(q) \cup {w}
    BY <2>1, <1>t DEF At
  <2>5. Cardinality(At(q)') <= trig'[q]
    <3>1. IsFiniteSet(At(q) \cup {w}) /\ Cardinality(At(q) \cup {w}) <= Cardinality(At(q)) + 1
      <4>1. /\ IsFiniteSet(At(q) \cup {w})
            /\ Cardinality(At(q) \cup {w}) = IF w \in At(q) THEN Cardinality(At(q)) ELSE Cardinality(At(q)) + 1
        BY <1>f, FS_AddElement
      <4> QED
        BY <1>f, <4>1
    <3>2. Cardinality(At(q)') <= Cardinality(At(q) \cup {w}) /\ IsFiniteSet(At(q)')
      BY <2>4, <3>1, FS_Subset
    <3>3. Cardinality(At(q)') \in Nat /\ Cardinality(At(q) \cup {w}) \in Nat
      BY <3>1, <3>2, FS_CardinalityType
    <3> QED
      BY <1>f, <1>t, <2>1, <3>1, <3>2, <3>3
  <2>6. status'[q] = "admitting" => Cardinality(Acking(q)') < trig'[q]
    <3>1. Cardinality(Acking(q)') <= Cardinality(Acking(q)) /\ Cardinality(Acking(q)') \in Nat
      BY <1>f, <2>2, FS_Subset, FS_CardinalityType
    <3> QED
      BY <1>f, <1>t, <2>1, <3>1 DEF RecoverInv
  <2> QED
    <3> SUFFICES ASSUME NEW r \in Run
                 PROVE  Cardinality(At(r)') <= trig'[r] /\ (status'[r] = "admitting" => Cardinality(Acking(r)') < trig'[r])
      BY DEF RecoverInv
    <3>1. CASE r # q
      BY <2>3, <3>1, KeptIsRecoverable
    <3>2. CASE r = q
      BY <2>5, <2>6, <3>2
    <3> QED
      BY <3>1, <3>2
<1>4. ASSUME NEW w \in Worker, Load(w) \/ CheckRunStart(w) \/ Decide(w) \/ ReleaseRun(w) \/ Nak(w) PROVE RecoverInv'
  <2>0. job[w] \in Run
    BY <1>0, <1>4 DEF Load, CheckRunStart, Decide, ReleaseRun, Nak
  <2>1. CASE Load(w)
    <3>1. \A r \in Run : KeepsMessages(r)
      BY <2>0, <2>1, <1>t DEF Load, LoadOutcome, KeepsMessages, At, Acking
    <3> QED
      BY <3>1, <1>k
  <2>2. CASE CheckRunStart(w)
    <3>1. \A r \in Run : KeepsMessages(r)
      BY <2>2, <1>t DEF CheckRunStart, KeepsMessages, At, Acking
    <3> QED
      BY <3>1, <1>k
  <2>3. CASE Decide(w)
    <3>1. DecideOutcome(job[w]) # "ack"
      BY DEF DecideOutcome
    <3>2. \A r \in Run : KeepsMessages(r)
      BY <2>3, <3>1, <1>t DEF Decide, KeepsMessages, At, Acking
    <3> QED
      BY <3>2, <1>k
  <2>4. CASE ReleaseRun(w)
    <3>1. \A r \in Run : KeepsMessages(r)
      BY <2>0, <2>4, <1>t DEF ReleaseRun, KeepsMessages, At, Acking
    <3> QED
      BY <3>1, <1>k
  <2>5. CASE Nak(w)
    <3>1. \A r \in Run : KeepsMessages(r)
      BY <2>5, <1>t, RunAssumption DEF Nak, KeepsMessages, At, Acking
    <3> QED
      BY <3>1, <1>k
  <2> QED
    BY <1>4, <2>1, <2>2, <2>3, <2>4, <2>5
<1>5. ASSUME NEW w \in Worker, ExecuteStep(w) PROVE RecoverInv'
  <2>1. /\ UNCHANGED <<trig, job>> /\ job[w] \in Run
        /\ \E step \in {"executing", "launched", "preempted", "release"} : pc' = [pc EXCEPT ![w] = step]
        /\ UNCHANGED status \/ \E s \in RunStatuses \ {"admitting"} : status' = [status EXCEPT ![job[w]] = s]
    BY <1>5, <1>0 DEF ExecuteStep, StartRun, StartFails, EndRun, RunTurn, markStarted, Suspend, PauseEarly,
       markStartedLate, RunStatuses
  <2>2. \A r \in Run : KeepsMessages(r)
    BY <2>1, <1>t DEF KeepsMessages, At, Acking
  <2> QED
    BY <2>2, <1>k
<1>6. ASSUME NEW w \in Worker, TimeOut(w) \/ Crash(w) PROVE RecoverInv'
  <2>1. \A r \in Run : KeepsMessages(r)
    BY <1>6, <1>t, RunAssumption DEF TimeOut, Crash, KeepsMessages, At, Acking
  <2> QED
    BY <2>1, <1>k
<1>7. ASSUME NEW w \in Worker, NEW q \in Run, Supervise(w, q) PROVE RecoverInv'
  <2>1. \A r \in Run : KeepsMessages(r)
    BY <1>7, <1>t DEF Supervise, KeepsMessages, At, Acking
  <2> QED
    BY <2>1, <1>k
<1>8. ASSUME NEW q \in Run, RunStep(q) PROVE RecoverInv'
  <2>1. /\ UNCHANGED <<pc, job>>
        /\ UNCHANGED trig \/ trig' = [trig EXCEPT ![q] = @ + 1]
        /\ UNCHANGED status \/ \E s \in RunStatuses \ {"admitting"} : status' = [status EXCEPT ![q] = s]
    BY <1>8 DEF RunStep, Redeliver, DirectResume, Resume, Cancel, FinishTask, Expire, RunStatuses
  <2>2. \A r \in Run : KeepsMessages(r)
    BY <2>1, <1>t DEF KeepsMessages, At, Acking
  <2> QED
    BY <2>2, <1>k
<1>9. CASE UNCHANGED vars
  <2>1. \A r \in Run : KeepsMessages(r)
    BY <1>9, <1>t DEF vars, KeepsMessages, At, Acking
  <2> QED
    BY <2>1, <1>k
<1> QED
  BY <1>1, <1>2, <1>3, <1>4, <1>5, <1>6, <1>7, <1>8, <1>9 DEF Next, AdmitStep, DatabaseError

(* A claim is never orphaned: wherever workers crash, however messages are *)
(* redelivered and whoever takes a claim over, a run that is being admitted*)
(* has a message, as long as no statement fails.                           *)
THEOREM ClaimsAreRecoverable == ASSUME "error" \notin Faults PROVE Spec => []ClaimRecoverable
<1>1. Init => RecoverInv
  <2> SUFFICES ASSUME Init PROVE RecoverInv
    OBVIOUS
  <2>1. \A r \in Run : At(r) = {}
    BY RunAssumption DEF Init, At
  <2> QED
    BY <2>1, FS_EmptySet DEF Init, RecoverInv
<1>2. TypeOK /\ RecoverInv /\ [Next]_vars => RecoverInv'
  BY RecoverInvInductive
<1>3. TypeOK /\ RecoverInv => ClaimRecoverable
  <2> SUFFICES ASSUME TypeOK, RecoverInv, NEW r \in Run, status[r] = "admitting" PROVE trig[r] > 0
    BY DEF ClaimRecoverable
  <2>1. Cardinality(Acking(r)) \in Nat
    BY WorkersAreFinite DEF Acking
  <2>2. Cardinality(Acking(r)) < trig[r] /\ trig[r] \in Int
    BY DEF RecoverInv, TypeOK
  <2> QED
    BY <2>1, <2>2
<1> QED
  BY <1>1, <1>2, <1>3, AdmissionTypes, PTL DEF Spec

-----------------------------------------------------------------------------
(* Capacity.  What the scheduler admits fits beside the claims that it was *)
(* shown, and they include every admitted run.                             *)

(* A set of tasks that Validate would accept one by one and that share the *)
(* capacity.                                                               *)
WithinCapacity(S) ==
    /\ IsFiniteSet(S) /\ S \subseteq Fitting
    /\ Cardinality(S) <= MaxParallel
    /\ Total(TaskCPU, S) <= Cpu
    /\ Total(TaskMemory, S) <= Memory

(* Of every repository, the admitted tasks are one: what is admitted has   *)
(* passed Validate, so that a release never adds to what the others use.   *)
CapacityInv == \A repo \in { RepoOf[t] : t \in Scheduled } : WithinCapacity(AdmittedTasks(repo))

(* What fits asks for a positive number of both resources.                 *)
LEMMA FittingAsks ==
    ASSUME NEW t \in Fitting
    PROVE  /\ t \in Scheduled
           /\ TaskCPU[t] = Config[t].cpu /\ TaskMemory[t] = Config[t].memory
           /\ TaskCPU[t] \in Nat /\ TaskMemory[t] \in Nat
<1>1. t \in Scheduled /\ Config[t].cpu > 0 /\ Config[t].memory > 0
  BY DEF Fitting, Fits
<1>2. Config[t].cpu \in Int /\ Config[t].memory \in Int
  BY <1>1, CapacityAssumption
<1> QED
  BY <1>1, <1>2 DEF TaskCPU, TaskMemory

(* Giving a claim back frees what it used.                                 *)
LEMMA FewerFit ==
    ASSUME NEW S, WithinCapacity(S), NEW T, T \subseteq S
    PROVE  WithinCapacity(T)
<1> USE CapacityAssumption
<1>1. IsFiniteSet(T) /\ Cardinality(T) <= Cardinality(S) /\ T \subseteq Fitting
  BY FS_Subset DEF WithinCapacity
<1>2. Cardinality(T) \in Nat /\ Cardinality(S) \in Nat
  BY <1>1, FS_CardinalityType DEF WithinCapacity
<1>3. \A t \in S : TaskCPU[t] \in Nat /\ TaskMemory[t] \in Nat
  BY FittingAsks DEF WithinCapacity
<1>4. \A t \in T : TaskCPU[t] \in Nat /\ TaskMemory[t] \in Nat
  BY <1>3
<1>5. IsFiniteSet(S)
  BY DEF WithinCapacity
<1>6. Total(TaskCPU, T) <= Total(TaskCPU, S) /\ Total(TaskMemory, T) <= Total(TaskMemory, S)
  BY <1>3, <1>5, TotalOfPart
<1>7. /\ Total(TaskCPU, T) \in Nat /\ Total(TaskCPU, S) \in Nat
      /\ Total(TaskMemory, T) \in Nat /\ Total(TaskMemory, S) \in Nat
  BY <1>1, <1>3, <1>4, <1>5, TotalNat
<1> QED
  BY <1>1, <1>2, <1>6, <1>7 DEF WithinCapacity

(* A set whose members are all named by those of a finite set is no larger.*)
LEMMA NamedByAreNoMore ==
    ASSUME NEW C, IsFiniteSet(C), NEW f, f \in [C -> Task], NEW T, T \subseteq { f[q] : q \in C }
    PROVE  IsFiniteSet(T) /\ Cardinality(T) <= Cardinality(C)
<1> DEFINE U == { f[q] : q \in C }
<1>1. f \in Surjection(C, U)
  BY DEF Surjection
<1> HIDE DEF U
<1>2. IsFiniteSet(U) /\ Cardinality(U) <= Cardinality(C)
  BY <1>1, FS_Surjection
<1>3. T \subseteq U
  BY DEF U
<1>4. IsFiniteSet(T) /\ Cardinality(T) <= Cardinality(U)
  BY <1>2, <1>3, FS_Subset
<1>5. Cardinality(T) \in Nat /\ Cardinality(U) \in Nat /\ Cardinality(C) \in Nat
  BY <1>2, <1>4, FS_CardinalityType
<1> QED
  BY <1>2, <1>4, <1>5

(* The tasks admitted beside a granted run's are those of claims that the  *)
(* scheduler counted.                                                      *)
LEMMA OthersWereCounted ==
    ASSUME TypeOK, ClaimInv, NEW r \in Run, HasConfig(r)
    PROVE  AdmittedTasks(RepoOf[TaskOf[r]]) \ {TaskOf[r]} \subseteq { TaskOf[q] : q \in RunningClaims(r) }
<1> SUFFICES ASSUME NEW t \in AdmittedTasks(RepoOf[TaskOf[r]]), t # TaskOf[r]
             PROVE  \E q \in RunningClaims(r) : TaskOf[q] = t
  OBVIOUS
<1>1. PICK q \in Admitted : TaskOf[q] = t
  BY DEF AdmittedTasks
<1>2. RepoOf[t] = RepoOf[TaskOf[r]]
  BY DEF AdmittedTasks
<1> QED
  BY <1>1, <1>2, AdmittedAreClaims DEF RunningClaims

(* A granted run's task fits beside the other admitted ones.               *)
LEMMA GrantedFits ==
    ASSUME TypeOK, ClaimInv, NEW r \in Run, HasConfig(r), DecideOutcome(r) = "granted"
    PROVE  WithinCapacity((AdmittedTasks(RepoOf[TaskOf[r]]) \ {TaskOf[r]}) \cup {TaskOf[r]})
<1> USE RunAssumption, CapacityAssumption
<1> DEFINE C == RunningClaims(r)
           x == TaskOf[r]
           O == AdmittedTasks(RepoOf[x]) \ {x}
<1>1. /\ Cardinality(C) < MaxParallel
      /\ Total(CPUOf, C) + Config[x].cpu <= Cpu
      /\ Total(MemoryOf, C) + Config[x].memory <= Memory
      /\ ~InvalidManifest(r)
  BY DEF DecideOutcome, Ready, ConfigOf
<1>2. x \in Fitting /\ \A q \in C : TaskOf[q] \in Fitting
  BY <1>1 DEF InvalidManifest
<1>3. C \subseteq Run
  BY DEF RunningClaims, AdmissionRuns
<1>4. IsFiniteSet(C) /\ Cardinality(C) \in Nat
  BY <1>3, FS_Subset, FS_CardinalityType
<1>5. O \subseteq { TaskOf[q] : q \in C }
  BY OthersWereCounted
<1>6. O \subseteq Fitting /\ x \notin O
  BY <1>2, <1>5
<1>7. \A q \in C : /\ CPUOf[q] = TaskCPU[TaskOf[q]] /\ MemoryOf[q] = TaskMemory[TaskOf[q]]
                   /\ CPUOf[q] \in Nat /\ MemoryOf[q] \in Nat
  <2> SUFFICES ASSUME NEW q \in C
               PROVE  /\ CPUOf[q] = TaskCPU[TaskOf[q]] /\ MemoryOf[q] = TaskMemory[TaskOf[q]]
                      /\ CPUOf[q] \in Nat /\ MemoryOf[q] \in Nat
    OBVIOUS
  <2>1. TaskOf[q] \in Fitting
    BY <1>2
  <2>2. CPUOf[q] = Config[TaskOf[q]].cpu /\ MemoryOf[q] = Config[TaskOf[q]].memory
    BY <1>3, <2>1, FittingAsks DEF CPUOf, MemoryOf, ConfigOf, HasConfig
  <2> QED
    BY <2>1, <2>2, FittingAsks
<1> HIDE DEF C, O, x
<1>8. IsFiniteSet(O) /\ Cardinality(O) <= Cardinality(C)
  <2> DEFINE f == [q \in C |-> TaskOf[q]]
  <2>1. f \in [C -> Task] /\ O \subseteq { f[q] : q \in C }
    BY <1>3, <1>5
  <2> HIDE DEF f
  <2> QED
    BY <1>4, <2>1, NamedByAreNoMore
<1>9. Total(TaskCPU, O) <= Total(CPUOf, C) /\ Total(TaskMemory, O) <= Total(MemoryOf, C)
  <2>1. \A t \in O : \E q \in C : TaskOf[q] = t /\ CPUOf[q] = TaskCPU[t]
    BY <1>5, <1>7
  <2>2. \A t \in O : \E q \in C : TaskOf[q] = t /\ MemoryOf[q] = TaskMemory[t]
    BY <1>5, <1>7
  <2>3. Total(TaskCPU, O) <= Total(CPUOf, C)
    BY <1>4, <1>7, <2>1, TotalOfNamed
  <2>4. Total(TaskMemory, O) <= Total(MemoryOf, C)
    BY <1>4, <1>7, <2>2, TotalOfNamed
  <2> QED
    BY <2>3, <2>4
<1>10. /\ Total(TaskCPU, O \cup {x}) = Total(TaskCPU, O) + TaskCPU[x]
       /\ Total(TaskMemory, O \cup {x}) = Total(TaskMemory, O) + TaskMemory[x]
  <2>1. \A t \in O \cup {x} : TaskCPU[t] \in Nat /\ TaskMemory[t] \in Nat
    BY <1>2, <1>6, FittingAsks
  <2> QED
    BY <1>6, <1>8, <2>1, TotalAdds
<1>11. TaskCPU[x] = Config[x].cpu /\ TaskMemory[x] = Config[x].memory /\ Config[x].cpu \in Nat /\ Config[x].memory \in Nat
  BY <1>2, FittingAsks
<1>12. /\ Total(TaskCPU, O) \in Nat /\ Total(CPUOf, C) \in Nat
       /\ Total(TaskMemory, O) \in Nat /\ Total(MemoryOf, C) \in Nat
  <2>1. \A t \in O : TaskCPU[t] \in Nat /\ TaskMemory[t] \in Nat
    BY <1>6, FittingAsks
  <2> QED
    BY <1>4, <1>7, <1>8, <2>1, TotalNat
<1>13. Total(TaskCPU, O \cup {x}) <= Cpu /\ Total(TaskMemory, O \cup {x}) <= Memory
  BY <1>1, <1>9, <1>10, <1>11, <1>12
<1>14. /\ IsFiniteSet(O \cup {x})
       /\ Cardinality(O \cup {x}) = Cardinality(O) + 1
       /\ Cardinality(O) \in Nat
  BY <1>6, <1>8, FS_AddElement, FS_CardinalityType
<1>15. Cardinality(O \cup {x}) <= MaxParallel
  BY <1>1, <1>4, <1>8, <1>14
<1>16. O \cup {x} \subseteq Fitting
  BY <1>2, <1>6
<1>17. WithinCapacity(O \cup {x})
  BY <1>13, <1>14, <1>15, <1>16 DEF WithinCapacity
<1> QED
  BY <1>17 DEF O, x

(* MaxParallel, Cpu and Memory bound the scheduled tasks of each           *)
(* repository that are admitted, for every number of workers and whatever  *)
(* they claim, deny and release while one of them decides (AdmitRun,       *)
(* loadRunningClaims).                                                     *)
THEOREM CapacityIsBounded == ASSUME Deployment PROVE Spec => []CapacityBounded
<1> USE RunAssumption, CapacityAssumption
<1>1. Init => CapacityInv
  <2> SUFFICES ASSUME Init, NEW repo PROVE WithinCapacity(AdmittedTasks(repo))
    BY DEF CapacityInv
  <2>1. AdmittedTasks(repo) = {}
    BY DEF Init, AdmittedTasks, Admitted
  <2> QED
    BY <2>1, FS_EmptySet, TotalOfNone DEF WithinCapacity
<1>2. TypeOK /\ ClaimInv /\ CapacityInv /\ [Next]_vars => CapacityInv'
  <2> SUFFICES ASSUME TypeOK, ClaimInv, CapacityInv, [Next]_vars, NEW repo \in { RepoOf[t] : t \in Scheduled }
               PROVE  WithinCapacity(AdmittedTasks(repo)')
    BY DEF CapacityInv, WithinCapacity
  <2>0. WithinCapacity(AdmittedTasks(repo))
    BY DEF CapacityInv
  <2>1. ASSUME AdmittedTasks(repo)' \subseteq AdmittedTasks(repo) PROVE WithinCapacity(AdmittedTasks(repo)')
    BY <2>0, <2>1, FewerFit
  <2>2. CASE Admitted' \subseteq Admitted
    BY <2>1, <2>2 DEF AdmittedTasks
  <2>3. ASSUME NEW r \in Run, Admitted' \subseteq Admitted \cup {r}, HasConfig(r) => DecideOutcome(r) = "granted"
        PROVE  WithinCapacity(AdmittedTasks(repo)')
    <3>1. CASE ~(HasConfig(r) /\ RepoOf[TaskOf[r]] = repo)
      BY <2>1, <2>3, <3>1 DEF AdmittedTasks, HasConfig
    <3>2. CASE HasConfig(r) /\ RepoOf[TaskOf[r]] = repo
      <4>1. WithinCapacity((AdmittedTasks(repo) \ {TaskOf[r]}) \cup {TaskOf[r]})
        BY <2>3, <3>2, GrantedFits
      <4>2. AdmittedTasks(repo)' \subseteq (AdmittedTasks(repo) \ {TaskOf[r]}) \cup {TaskOf[r]}
        BY <2>3 DEF AdmittedTasks
      <4> QED
        BY <4>1, <4>2, FewerFit
    <3> QED
      BY <3>1, <3>2
  <2>4. ASSUME NEW w \in Worker, Admits(w) PROVE WithinCapacity(AdmittedTasks(repo)')
    <3>1. PICK r \in Run : job[w] = r
      BY <2>4 DEF Admits
    <3> QED
      BY <2>3, <2>4, <3>1 DEF Admits
  <2> QED
    BY <2>2, <2>4, AdmittedGrows
<1>3. CapacityInv => CapacityBounded
  BY DEF CapacityInv, WithinCapacity, CapacityBounded
<1> QED
  BY <1>1, <1>2, <1>3, AdmissionTypes, ClaimProtocol, PTL DEF Spec

=============================================================================
