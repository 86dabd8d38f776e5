----------------------------- MODULE Scheduler -----------------------------
(***************************************************************************)
(* packages/scheduler: which tasks of a manifest may start now (Next), and *)
(* the waves a whole manifest runs in (PlanWaves).                         *)
(*                                                                         *)
(* The selection loop of Next is modelled one manifest entry per step: an  *)
(* entry is passed over, admitted, or ends the loop.  Next is called once  *)
(* with any task state (the admission controller, NextWork), or over and   *)
(* over by PlanWaves, which marks every admitted task successful before it *)
(* calls Next again.                                                       *)
(***************************************************************************)
EXTENDS Manifest

CONSTANTS TaskID,      \* task identifiers
          Manifests,   \* the manifests the scheduler is called with
          Calls,       \* the calls made: a caller, "once" (Next) or "plan" (PlanWaves), and a manifest
          Files        \* the changed files whose owners NoSharedFile compares

(* A text cut at its slashes has at least one segment.                     *)
Path == Seq(STRING) \ {<<>>}

(* CPU shares are float64 in the code; they are counted in a small unit.   *)
TaskRecord == [id : TaskID, owns : SUBSET Path, depends_on : SUBSET TaskID,
               cpu : Int, memory : Int]

ASSUME CallsAssumption == Calls \subseteq {"once", "plan"} \X Manifests

ASSUME ManifestsAssumption ==
    \A m \in Manifests :
        /\ m.max_parallel \in Int /\ m.cpu \in Int /\ m.memory \in Int
        /\ m.tasks \in Seq(TaskRecord)

ASSUME FilesAssumption == Files \subseteq Path

Statuses == {"pending", "running", "success", "failed", "skipped"}

VARIABLES
    manifest,   \* the argument of Next and PlanWaves
    state,      \* scheduler.State: the status of every task of the manifest
    caller,     \* who called Next: "once", or "plan" (PlanWaves)
    pc,         \* "start", "tally", "select", "return", "done", "invalid", "deadlock"
    next,       \* the entry of manifest.Tasks the loop looks at
    ready,      \* decision.Ready, as the set of admitted entries
    skipped,    \* decision.Skipped, as the set of skipped entries
    used,       \* resources of the running and the admitted entries
    waves       \* what PlanWaves has returned so far: a sequence of sets of entries

vars == <<manifest, state, caller, pc, next, ready, skipped, used, waves>>

-----------------------------------------------------------------------------
(* Next.                                                                   *)

Task(k)     == manifest.tasks[k]
statusOf(k) == state[Task(k).id]

Running == { k \in Entries(manifest) : statusOf(k) = "running" }
Pending == { k \in Entries(manifest) : statusOf(k) = "pending" }

dependencyFailed(k) ==
    \E id \in Task(k).depends_on : state[id] \in {"failed", "skipped"}

dependenciesSucceeded(k) ==
    \A id \in Task(k).depends_on : state[id] = "success"

Selected == Running \cup ready

\* Slip: the entries admitted by this call are not compared.
conflictsRunning(k, S) == \E o \in S \cap Running : OwnershipConflict(Task(k).owns, Task(o).owns)

conflictsAny(k, S) == \E o \in S : OwnershipConflict(Task(k).owns, Task(o).owns)

\* Resources of a set of entries.
CPUOf(S)    == Total([k \in Entries(manifest) |-> Task(k).cpu], S)
MemoryOf(S) == Total([k \in Entries(manifest) |-> Task(k).memory], S)

(* The loop reaches the capacity tests for this entry.                     *)
Eligible(k) ==
    /\ k \in Pending
    /\ k \notin skipped
    /\ dependenciesSucceeded(k)

Full == Cardinality(Running) + Cardinality(ready) >= manifest.max_parallel

\* Slip: memory is not looked at.
OvercommitsCPU(k) == used.cpu + Task(k).cpu > manifest.cpu

Overcommits(k) ==
    \/ used.cpu + Task(k).cpu > manifest.cpu
    \/ used.memory + Task(k).memory > manifest.memory

(* Next validates its manifest before anything else.                       *)
Begin ==
    /\ pc = "start"
    /\ IF Validate(manifest)
       THEN /\ pc' = "tally"
            /\ next' = 1
            /\ ready' = {}
            /\ skipped' = {}
            /\ used' = [cpu |-> 0, memory |-> 0]
       ELSE /\ pc' = "invalid"
            /\ UNCHANGED <<next, ready, skipped, used>>
    /\ UNCHANGED <<manifest, state, caller, waves>>

Charge(k) == used' = [cpu    |-> used.cpu + Task(k).cpu,
                      memory |-> used.memory + Task(k).memory]

(* The loop that adds up what runs.                                        *)
Tally ==
    /\ pc = "tally" /\ next \in Entries(manifest)
    /\ IF next \in Running THEN Charge(next) ELSE UNCHANGED used
    /\ next' = next + 1
    /\ UNCHANGED <<manifest, state, caller, pc, ready, skipped, waves>>

(* The loop that skips the pending entries with a failed or skipped        *)
(* dependency; it depends on nothing it changes.                           *)
MarkSkipped ==
    /\ pc = "tally" /\ next \notin Entries(manifest)
    /\ skipped' = { k \in Pending : dependencyFailed(k) }
    /\ pc' = "select"
    /\ next' = 1
    /\ UNCHANGED <<manifest, state, caller, ready, used, waves>>

AtEntry == pc = "select" /\ next \in Entries(manifest)

(* continue: the entry is not a candidate, does not fit or collides.       *)
PassOver ==
    /\ AtEntry
    /\ \/ ~Eligible(next)
       \/ ~Full /\ (Overcommits(next) \/ conflictsAny(next, Selected))
    /\ next' = next + 1
    /\ UNCHANGED <<manifest, state, caller, pc, ready, skipped, used, waves>>

Admit ==
    /\ AtEntry
    /\ Eligible(next)
    /\ ~Full
    /\ ~Overcommits(next)
    /\ ~conflictsAny(next, Selected)
    /\ ready' = ready \cup {next}
    /\ Charge(next)
    /\ next' = next + 1
    /\ UNCHANGED <<manifest, state, caller, pc, skipped, waves>>

(* The end of the loop: every entry was looked at, or max_parallel breaks. *)
Return ==
    /\ pc = "select"
    /\ next \in Entries(manifest) => Eligible(next) /\ Full
    /\ pc' = "return"
    /\ UNCHANGED <<manifest, state, caller, next, ready, skipped, used, waves>>

-----------------------------------------------------------------------------
(* The callers.                                                            *)

(* AdmitRun and NextWork take the decision as it is.                       *)
UseDecision ==
    /\ pc = "return" /\ caller = "once"
    /\ pc' = "done"
    /\ UNCHANGED <<manifest, state, caller, next, ready, skipped, used, waves>>

(* State after PlanWaves has recorded a decision.                          *)
Recorded ==
    [id \in IDs(manifest) |->
        IF      \E k \in skipped : Task(k).id = id THEN "skipped"
        ELSE IF \E k \in ready   : Task(k).id = id THEN "success"
        ELSE state[id]]

(* One iteration of PlanWaves.  The loop ends when nothing remains, and    *)
(* reports a deadlock when something remains and nothing is ready.         *)
RecordWave ==
    /\ pc = "return" /\ caller = "plan"
    /\ state' = Recorded
    /\ waves' = IF ready = {} THEN waves ELSE Append(waves, ready)
    /\ pc' = IF      Pending \ (skipped \cup ready) = {} THEN "done"
             ELSE IF ready = {} THEN "deadlock"
             ELSE "start"
    /\ UNCHANGED <<manifest, caller, next, ready, skipped, used>>

-----------------------------------------------------------------------------
(* PlanWaves starts with every task pending.                               *)
Init ==
    /\ \E c \in Calls : caller = c[1] /\ manifest = c[2]
    /\ state \in [IDs(manifest) -> IF caller = "plan" THEN {"pending"} ELSE Statuses]
    /\ pc = "start"
    /\ next = 1
    /\ ready = {}
    /\ skipped = {}
    /\ used = [cpu |-> 0, memory |-> 0]
    /\ waves = <<>>

Next == Begin \/ Tally \/ MarkSkipped \/ PassOver \/ Admit \/ Return \/ UseDecision \/ RecordWave

Spec == Init /\ [][Next]_vars

(* The scheduler is a pure function: a call that has started runs on.      *)
FairSpec == Spec /\ WF_vars(Next)

-----------------------------------------------------------------------------
(* Properties.                                                             *)

(* Every variable has its type: Next and Plan decide about entries of the  *)
(* manifest, and a state is recorded for each of its IDs.                   *)
TypeOK ==
    /\ manifest \in Manifests
    /\ caller \in {"once", "plan"}
    /\ state \in [IDs(manifest) -> Statuses]
    /\ pc \in {"start", "tally", "select", "return", "done", "invalid", "deadlock"}
    /\ next \in Nat \ {0}
    /\ ready \subseteq Entries(manifest)
    /\ skipped \subseteq Entries(manifest)
    /\ used \in [cpu : Int, memory : Int]
    /\ waves \in Seq(SUBSET Entries(manifest))

Deciding == pc \in {"select", "return", "done"}

(* No entry that Next admits owns a path overlapping another admitted or   *)
(* running entry: the loop compares a candidate with everything selected   *)
(* before it, and the comparison must not depend on the order.             *)
OwnershipExclusive ==
    Deciding /\ caller = "once" =>
        \A k \in ready : \A o \in Selected \ {k} :
            ~OwnershipConflict(Task(o).owns, Task(k).owns)

(* A manifest that Validate accepts owns paths inside the repository, and  *)
(* no file is covered, by the repository protocol's own matcher            *)
(* (pathMatches), by two tasks that Next lets run together: what           *)
(* normalizeOwnership takes off a pattern may lose precision but never an  *)
(* overlap, and never hides that a path escapes.  Patterns that hide a     *)
(* glob are the exception: "a/**/" and "a/b" do not collide, and both      *)
(* cover the file "a/b".                                                   *)
NoSharedFile ==
    Deciding /\ caller = "once" =>
        /\ \A k \in Entries(manifest) : \A p \in Task(k).owns :
                StaysInside(DropLast(DropLast(DropHere(p), Stars), Star))
        /\ \A k \in ready : \A o \in Selected \ {k} :
                \A p \in Task(k).owns, q \in Task(o).owns, f \in Files :
                    GlobsShow(p) /\ GlobsShow(q) => ~(pathMatches(p, f) /\ pathMatches(q, f))

(* Next never makes the running and admitted entries exceed max_parallel:  *)
(* if they do, the running ones alone did and nothing was admitted.        *)
WithinParallel ==
    Deciding /\ caller = "once" /\ ready # {} =>
        Cardinality(Selected) <= manifest.max_parallel

(* Likewise for cpu and memory.  The sums are taken over the entries, not  *)
(* over the counters the loop maintains.                                   *)
WithinLimits ==
    /\ WithinParallel
    /\ Deciding /\ caller = "once" /\ ready # {} =>
            /\ CPUOf(Selected) <= manifest.cpu
            /\ MemoryOf(Selected) <= manifest.memory

(* Only a pending entry whose every dependency succeeded is admitted, and  *)
(* none that is skipped.                                                   *)
DependenciesRespected ==
    Deciding /\ caller = "once" =>
        \A k \in ready : /\ k \in Pending \ skipped
                         /\ \A j \in Entries(manifest) :
                                DependsOn(manifest, k, j) => statusOf(j) = "success"

(* PlanWaves never reports "scheduler deadlocked despite a valid           *)
(* dependency graph" (scheduler.go:239).                                   *)
NeverDeadlocks == pc # "deadlock"

(* The waves of a finished plan: each entry in exactly one wave, no two    *)
(* entries of one wave in conflict, every dependency in an earlier wave,   *)
(* no wave above the capacity.                                             *)
PlanIsSchedule ==
    pc = "done" /\ caller = "plan" =>
        /\ \A k \in Entries(manifest) : Cardinality({w \in DOMAIN waves : k \in waves[w]}) = 1
        /\ \A w \in DOMAIN waves :
              /\ Cardinality(waves[w]) <= manifest.max_parallel
              /\ CPUOf(waves[w]) <= manifest.cpu
              /\ MemoryOf(waves[w]) <= manifest.memory
              /\ \A j, k \in waves[w] :
                    j # k => ~OwnershipConflict(Task(j).owns, Task(k).owns)
              /\ \A k \in waves[w], j \in Entries(manifest) :
                    DependsOn(manifest, k, j) => \E v \in 1..(w - 1) : j \in waves[v]

(* Every call returns: Next after at most one pass over the manifest,      *)
(* PlanWaves after finitely many calls.                                    *)
Terminates == <>(pc \in {"done", "invalid"})

=============================================================================
