------------------------------ MODULE Manifest ------------------------------
(***************************************************************************)
(* scheduler.Manifest and Validate.  A manifest is a record                *)
(* [max_parallel, cpu, memory, tasks], tasks a sequence of records         *)
(* [id, owns, depends_on, cpu, memory].                                    *)
(***************************************************************************)
EXTENDS Ownership

Entries(m) == DOMAIN m.tasks
IDs(m)     == { m.tasks[k].id : k \in Entries(m) }

UniqueIDs(m) == \A j, k \in Entries(m) : m.tasks[j].id = m.tasks[k].id => j = k

DependsOn(m, j, k) == m.tasks[k].id \in m.tasks[j].depends_on

\* Slip: only a task that depends on itself is a cycle.
NoSelfDependency(m) == \A k \in Entries(m) : ~DependsOn(m, k, k)

(* What the depth-first visit decides: every set of entries has one that   *)
(* depends on none of the set.                                             *)
Acyclic(m) ==
    \A S \in SUBSET Entries(m) :
        S # {} => \E j \in S : \A k \in S : ~DependsOn(m, j, k)

(* What the members of S ask for together, of[x] each.                     *)
Total(of, S) == MapThenSumSet(LAMBDA x : of[x], S)

Fits(m, task) ==
    /\ task.cpu > 0 /\ task.memory > 0
    /\ task.cpu <= m.cpu /\ task.memory <= m.memory
    /\ task.owns # {}
    /\ \A p \in task.owns : normalizeOwnership(p) # Refused

Validate(m) ==
    /\ m.max_parallel > 0 /\ m.cpu > 0 /\ m.memory > 0
    /\ Entries(m) # {}
    /\ UniqueIDs(m)
    /\ \A k \in Entries(m) : /\ Fits(m, m.tasks[k])
                             /\ m.tasks[k].depends_on \subseteq IDs(m)
    /\ Acyclic(m)

=============================================================================
