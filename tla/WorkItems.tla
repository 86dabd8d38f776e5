----------------------------- MODULE WorkItems -----------------------------
(***************************************************************************)
(* The work items of a repository: claims with a lease, the gates of       *)
(* devplane.yaml, and the verifier, which runs the gates in the workspace  *)
(* and stores evidence that is bound to one commit.                        *)
(*                                                                         *)
(* Agents go on editing and committing in the workspace while it is        *)
(* verified, and so may a gate's command.  Nobody discards changes         *)
(* meanwhile: a change that is made and undone between two looks is not    *)
(* seen by anything in the verifier.                                       *)
(***************************************************************************)
EXTENDS Naturals, Sequences, FiniteSets

CONSTANTS
    Holder,      \* those who claim the work item
    MaxHead,     \* bound on the commits
    MaxLease,    \* bound on time
    MaxVerifies  \* bound on verifications

ASSUME WorkItemsAssumption == IsFiniteSet(Holder) /\ {MaxHead, MaxLease, MaxVerifies} \subseteq Nat

VARIABLES
    item,      \* the work item that is stored
    evidence,  \* the evidence that is stored: by commit, the gates
    head,      \* the commit of the workspace
    dirty,     \* it has changes that are not committed
    claims,    \* a claimant: what it read
    verifier,  \* Verify
    now,
    verifies

workVars == <<item, evidence, head, dirty, claims, verifier, now, verifies>>

(* The gates a profile of devplane.yaml is for, and those of people.       *)
Profiles    == {"test", "lint"}
HumanGates  == {"independent_review", "human_approval"}

Unused == [pc |-> "idle"]

-----------------------------------------------------------------------------
(* Claims.                                                                 *)

HasActiveLease(w, t) == w.by # "nobody" /\ t < w.until

ClaimableAt(w, t) == w.state = "ready" \/ (w.state = "claimed" /\ ~HasActiveLease(w, t))

GetWorkItem(c) ==
    /\ claims[c] = <<>> /\ claims' = [claims EXCEPT ![c] = <<item>>]
    /\ UNCHANGED <<item, evidence, head, dirty, verifier, now, verifies>>

(* Claim is of what was read; PutWorkItem overwrites what is there by now. *)
Claim(c) ==
    /\ claims[c] # <<>> /\ claims' = [claims EXCEPT ![c] = <<>>]
    /\ item' = IF ClaimableAt(Head(claims[c]), now)
               THEN [Head(claims[c]) EXCEPT !.state = "claimed", !.by = c, !.until = now + 1] ELSE item
    /\ UNCHANGED <<evidence, head, dirty, verifier, now, verifies>>

Elapse ==
    /\ now < MaxLease /\ now' = now + 1
    /\ UNCHANGED <<item, evidence, head, dirty, claims, verifier, verifies>>

-----------------------------------------------------------------------------
(* The workspace.                                                          *)

Edit ==
    /\ ~dirty /\ dirty' = TRUE
    /\ UNCHANGED <<item, evidence, head, claims, verifier, now, verifies>>

CommitWork ==
    /\ head < MaxHead /\ head' = head + 1 /\ dirty' = FALSE
    /\ UNCHANGED <<item, evidence, claims, verifier, now, verifies>>

-----------------------------------------------------------------------------
(* Verify.                                                                 *)

Goes(pc) == verifier' = [verifier EXCEPT !.pc = pc]

(* A rule of devplane.yaml asks for gates if a path was changed that it    *)
(* matches.                                                                *)
RequiredGatesForPaths == {{}, {"lint"}, {"human_approval"}, {"lint", "independent_review"}}

(* The gates of the work item and those of the rules: the ones to run, one *)
(* after the other, and the ones that people answer.                       *)
resolveGates(required) ==
    [run     |-> IF "test" \in required
                 THEN IF "lint" \in required THEN <<"test", "lint">> ELSE <<"test">>
                 ELSE IF "lint" \in required THEN <<"lint">> ELSE <<>>,
     pending |-> required \cap HumanGates]

(* The work item is valid, devplane.yaml is read, and its gates are known. *)
Verify(candidate) ==
    /\ verifier = Unused /\ verifies < MaxVerifies /\ verifies' = verifies + 1
    /\ candidate <= head
    /\ \E rules \in RequiredGatesForPaths :
          LET gates == resolveGates(item.gates \cup rules) IN
          verifier' = [pc |-> "check", item |-> item, candidate |-> candidate, done |-> <<>>,
                       left |-> gates.run, pending |-> gates.pending]
    /\ UNCHANGED <<item, evidence, head, dirty, claims, now>>

assertHead  == head = verifier.candidate
assertClean == ~dirty

(* What was found is not the candidate, or a command or statement failed.  *)
Rejected ==
    /\ verifier' = Unused
    /\ UNCHANGED <<item, evidence, head, dirty, claims, now, verifies>>

(* Before the first gate.                                                  *)
CheckBefore ==
    /\ verifier.pc = "check"
    /\ \/ assertHead /\ Goes("clean") /\ UNCHANGED <<item, evidence, head, dirty, claims, now, verifies>>
       \/ Rejected

CheckClean ==
    /\ verifier.pc = "clean"
    /\ \/ assertClean /\ Goes(IF verifier.left = <<>> THEN "persist" ELSE "gate")
          /\ UNCHANGED <<item, evidence, head, dirty, claims, now, verifies>>
       \/ Rejected

(* A gate's command: it passes or fails, on what it finds, and may leave   *)
(* changes behind.                                                         *)
Gate ==
    /\ verifier.pc = "gate"
    /\ \E passed \in BOOLEAN :
          verifier' = [verifier EXCEPT !.pc = "head", !.left = Tail(@),
             !.done = Append(@, [name |-> Head(verifier.left), passed |-> passed,
                                 on |-> <<head, dirty>>])]
    /\ dirty' \in {dirty, TRUE}
    /\ UNCHANGED <<item, evidence, head, claims, now, verifies>>

CheckHead ==
    /\ verifier.pc = "head"
    /\ \/ assertHead /\ Goes("after") /\ UNCHANGED <<item, evidence, head, dirty, claims, now, verifies>>
       \/ Rejected

\* Slip: the tree is not looked at after a gate.
leftCleanOrNot == TRUE

(* assertClean after a gate.                                               *)
leftClean == assertClean

(* A gate that failed is the last.                                         *)
CheckAfter ==
    /\ verifier.pc = "after"
    /\ \/ /\ leftClean
          /\ Goes(IF ~verifier.done[Len(verifier.done)].passed \/ verifier.left = <<>> THEN "persist" ELSE "gate")
          /\ UNCHANGED <<item, evidence, head, dirty, claims, now, verifies>>
       \/ Rejected

GateFailed == \E n \in DOMAIN verifier.done : ~verifier.done[n].passed

(* PutEvidenceBundle overwrites what there was for the commit.             *)
PutEvidenceBundle ==
    /\ verifier.pc = "persist"
    /\ \/ /\ evidence' = IF verifier.done = <<>> THEN evidence
                         ELSE [evidence EXCEPT ![verifier.candidate] = verifier.done]
          /\ (IF GateFailed THEN verifier' = Unused ELSE Goes("item"))
          /\ UNCHANGED <<item, head, dirty, claims, now, verifies>>
       \/ Rejected

(* Gates that only a person can pass keep the item under review.           *)
nextState == IF verifier.pending = {} THEN "ready_to_land" ELSE "reviewing"

(* The work item that was read is put back, over what is there by now.     *)
PutWorkItem ==
    /\ verifier.pc = "item"
    /\ \/ /\ item' = [verifier.item EXCEPT !.state = nextState, !.by = "nobody", !.until = 0]
          /\ verifier' = Unused
          /\ UNCHANGED <<evidence, head, dirty, claims, now, verifies>>
       \/ Rejected

-----------------------------------------------------------------------------
WorkInit ==
    /\ \E gates \in {{}, {"test"}, {"test", "human_approval"}} :
          item = [state |-> "ready", by |-> "nobody", until |-> 0, gates |-> gates]
    /\ evidence = [h \in 0..MaxHead |-> <<>>] /\ head = 0 /\ dirty \in BOOLEAN
    /\ claims = [c \in Holder |-> <<>>] /\ verifier = Unused /\ now = 0 /\ verifies = 0

WorkNext ==
    \/ (\E c \in Holder : GetWorkItem(c) \/ Claim(c)) \/ Elapse \/ Edit \/ CommitWork
    \/ (\E candidate \in 0..MaxHead : Verify(candidate)) \/ CheckBefore \/ CheckClean
    \/ Gate \/ CheckHead \/ CheckAfter \/ PutEvidenceBundle \/ PutWorkItem

-----------------------------------------------------------------------------
(* Properties.                                                             *)

WorkTypeOK ==
    /\ item.state \in {"ready", "claimed", "reviewing", "ready_to_land"}
    /\ item.by \in Holder \cup {"nobody"} /\ head \in 0..MaxHead /\ dirty \in BOOLEAN
    /\ \A h \in 0..MaxHead, n \in 1..2 : n \in DOMAIN evidence[h] => evidence[h][n].name \in Profiles
    /\ verifier.pc \in {"idle", "check", "clean", "gate", "head", "after", "persist", "item"}

(* What is stored as evidence about a commit was found by gates that ran   *)
(* on that commit, and without further changes as long as the commit is    *)
(* the last one, although the workspace is being worked in and the gates   *)
(* may change it (Verify, assertHead, assertClean).  Changes that are      *)
(* committed between the two looks after the last gate are seen by neither,*)
(* so that the evidence about a commit that was left behind may be of more.*)
EvidenceOfCommit ==
    \A h \in 0..MaxHead : \A n \in DOMAIN evidence[h] :
        LET on == evidence[h][n].on IN on[1] = h /\ (on[2] => head > h)

=============================================================================
