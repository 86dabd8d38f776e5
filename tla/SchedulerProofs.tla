-------------------------- MODULE SchedulerProofs --------------------------
(* Proofs about Scheduler, for every set of manifests.                     *)
EXTENDS Scheduler, ManifestProofs, FiniteSetTheorems, TLAPS

(* A manifest the scheduler is called with has the shape of the Go type.   *)
LEMMA ManifestShape ==
    ASSUME NEW m \in Manifests
    PROVE  /\ Entries(m) = 1..Len(m.tasks)
           /\ Len(m.tasks) \in Nat
           /\ IsFiniteSet(Entries(m))
           /\ m.max_parallel \in Int /\ m.cpu \in Int /\ m.memory \in Int
           /\ \A k \in Entries(m) : /\ m.tasks[k] \in TaskRecord
                                    /\ m.tasks[k].id \in IDs(m)
                                    /\ m.tasks[k].cpu \in Int
                                    /\ m.tasks[k].memory \in Int
<1>1. m.tasks \in Seq(TaskRecord) /\ m.max_parallel \in Int /\ m.cpu \in Int /\ m.memory \in Int
  BY ManifestsAssumption
<1>2. Entries(m) = 1..Len(m.tasks) /\ Len(m.tasks) \in Nat
  BY <1>1 DEF Entries
<1>3. IsFiniteSet(Entries(m))
  BY <1>2, FS_Interval
<1>4. \A k \in Entries(m) : m.tasks[k] \in TaskRecord
  BY <1>1, <1>2
<1>5. \A k \in Entries(m) : m.tasks[k].cpu \in Int /\ m.tasks[k].memory \in Int
  BY <1>4 DEF TaskRecord
<1>6. \A k \in Entries(m) : m.tasks[k].id \in IDs(m)
  BY DEF IDs
<1> QED
  BY <1>1, <1>2, <1>3, <1>4, <1>5, <1>6

(* Types: the eight actions keep every variable of Scheduler in its domain.*)
THEOREM TypeCorrect == Spec => []TypeOK
<1>1. Init => TypeOK
  BY CallsAssumption DEF Init, TypeOK, Statuses
<1>2. TypeOK /\ [Next]_vars => TypeOK'
  <2> SUFFICES ASSUME TypeOK, [Next]_vars PROVE TypeOK'
    OBVIOUS
  <2>0. /\ Entries(manifest) = 1..Len(manifest.tasks)
        /\ \A k \in Entries(manifest) : Task(k).cpu \in Int /\ Task(k).memory \in Int
    BY ManifestShape DEF TypeOK, Task
  <2>1. CASE Begin
    BY <2>1 DEF Begin, TypeOK
  <2>2. CASE PassOver
    BY <2>2 DEF PassOver, TypeOK
  <2>3. CASE Admit
    BY <2>0, <2>3 DEF Admit, AtEntry, Charge, TypeOK
  <2>4. CASE Return
    BY <2>4 DEF Return, TypeOK
  <2>5. CASE UseDecision
    BY <2>5 DEF UseDecision, TypeOK
  <2>6. CASE RecordWave
    <3>1. state' \in [IDs(manifest) -> Statuses]
      BY <2>6 DEF RecordWave, Recorded, TypeOK, Statuses
    <3>2. waves' \in Seq(SUBSET Entries(manifest))
      BY <2>6 DEF RecordWave, TypeOK
    <3>3. pc' \in {"done", "deadlock", "start"}
      BY <2>6 DEF RecordWave
    <3> QED
      BY <2>6, <3>1, <3>2, <3>3 DEF RecordWave, TypeOK
  <2>7. CASE Tally
    BY <2>0, <2>7 DEF Tally, Charge, TypeOK
  <2>8. CASE MarkSkipped
    BY <2>8 DEF MarkSkipped, Pending, TypeOK
  <2>9. CASE UNCHANGED vars
    BY <2>9 DEF vars, TypeOK
  <2> QED
    BY <2>1, <2>2, <2>3, <2>4, <2>5, <2>6, <2>7, <2>8, <2>9 DEF Next
<1> QED
  BY <1>1, <1>2, PTL DEF Spec

-----------------------------------------------------------------------------
(* The manifest has been validated and the decision is still about the     *)
(* current state.                                                          *)
Current == pc \in {"tally", "select", "return"} \/ (pc = "done" /\ caller = "once")

(* The strengthening.  Validation must be remembered, because symmetry of  *)
(* the conflict test rests on it, and so must the emptiness of ready while *)
(* the running entries are added up.                                       *)
SelectInv ==
    Current =>
        /\ Validate(manifest)
        /\ pc = "tally" => ready = {}
        /\ \A k \in ready : k \in Pending \ skipped /\ dependenciesSucceeded(k)
        /\ \A k \in ready : \A o \in Selected \ {k} :
              ~OwnershipConflict(Task(o).owns, Task(k).owns)
        /\ ready # {} => Cardinality(Running) + Cardinality(ready) <= manifest.max_parallel

(* A step that leaves the manifest and the state alone leaves alone what   *)
(* is computed from them.                                                  *)
LEMMA SameState ==
    ASSUME UNCHANGED <<manifest, state>>
    PROVE  /\ Running' = Running
           /\ Pending' = Pending
           /\ \A k : Task(k)' = Task(k)
           /\ \A k : dependenciesSucceeded(k)' = dependenciesSucceeded(k)
  BY DEF Running, Pending, Task, statusOf, dependenciesSucceeded

(* Every step of Next and PlanWaves keeps SelectInv; Admit is the one that *)
(* has to work for it.                                                     *)
LEMMA SelectInvInductive == TypeOK /\ SelectInv /\ [Next]_vars => SelectInv'
<1> SUFFICES ASSUME TypeOK, SelectInv, [Next]_vars, Current'
             PROVE  /\ Validate(manifest)'
                    /\ (pc = "tally" => ready = {})'
                    /\ (\A k \in ready : k \in Pending \ skipped /\ dependenciesSucceeded(k))'
                    /\ (\A k \in ready : \A o \in Selected \ {k} :
                          ~OwnershipConflict(Task(o).owns, Task(k).owns))'
                    /\ (ready # {} => Cardinality(Running) + Cardinality(ready)
                                        <= manifest.max_parallel)'
  BY DEF SelectInv
<1>1. CASE Begin
  BY <1>1 DEF Begin, Current
<1>2. CASE Tally
  BY <1>2, SameState DEF Tally, Current, SelectInv, Selected
<1>3. CASE MarkSkipped
  BY <1>3, SameState DEF MarkSkipped, Current, SelectInv, Selected
<1>4. CASE PassOver
  BY <1>4, SameState DEF PassOver, AtEntry, Current, SelectInv, Selected
<1>5. CASE Admit
  <2> USE <1>5
  <2>1. /\ next \in Entries(manifest) /\ pc = "select" /\ pc' = pc
        /\ ready' = ready \cup {next}
        /\ skipped' = skipped
        /\ Running' = Running /\ Pending' = Pending
        /\ \A k : Task(k)' = Task(k)
        /\ \A k : dependenciesSucceeded(k)' = dependenciesSucceeded(k)
        /\ manifest' = manifest
    BY SameState DEF Admit, AtEntry
  <2>2. Current /\ Validate(manifest)
    BY <2>1 DEF Current, SelectInv
  <2>3. (\A k \in ready : k \in Pending \ skipped /\ dependenciesSucceeded(k))'
    BY <2>1, <2>2 DEF Admit, Eligible, SelectInv
  <2>4. (\A k \in ready : \A o \in Selected \ {k} :
           ~OwnershipConflict(Task(o).owns, Task(k).owns))'
    <3>1. \A o \in Selected : ~OwnershipConflict(Task(next).owns, Task(o).owns)
      BY DEF Admit, conflictsAny
    <3>2. \A k \in Entries(manifest) :
             Task(k).owns # {} /\ \A p \in Task(k).owns : normalizeOwnership(p) # Refused
      BY <2>2 DEF Validate, Fits, Task
    <3>3. \A o \in Selected : o \in Entries(manifest)
      BY DEF Selected, Running, TypeOK
    <3>4. \A o \in Selected : ~OwnershipConflict(Task(o).owns, Task(next).owns)
      <4> SUFFICES ASSUME NEW o \in Selected, OwnershipConflict(Task(o).owns, Task(next).owns)
                   PROVE  FALSE
        OBVIOUS
      <4>1. Task(o).owns # {} /\ Task(next).owns # {}
        BY <2>1, <3>2, <3>3
      <4>2. \A p \in Task(o).owns \cup Task(next).owns : normalizeOwnership(p) # Refused
        BY <2>1, <3>2, <3>3
      <4>3. OwnershipConflict(Task(next).owns, Task(o).owns)
        BY <4>1, <4>2, ConflictSymmetric
      <4> QED
        BY <3>1, <4>3
    <3>5. Selected' = Selected \cup {next}
      BY <2>1 DEF Selected
    <3>6. \A k \in ready : \A o \in Selected \ {k} :
             ~OwnershipConflict(Task(o).owns, Task(k).owns)
      BY <2>2 DEF SelectInv
    <3>7. \A k \in ready \cup {next} : \A o \in (Selected \cup {next}) \ {k} :
             ~OwnershipConflict(Task(o).owns, Task(k).owns)
      <4> SUFFICES ASSUME NEW k \in ready \cup {next},
                          NEW o \in (Selected \cup {next}) \ {k}
                   PROVE  ~OwnershipConflict(Task(o).owns, Task(k).owns)
        OBVIOUS
      <4>1. ready \subseteq Selected
        BY DEF Selected
      <4>2. CASE k = next
        BY <4>2, <3>4
      <4>3. CASE k # next /\ o = next
        BY <4>1, <4>3, <3>1
      <4>4. CASE k # next /\ o # next
        BY <4>4, <3>6
      <4> QED
        BY <4>2, <4>3, <4>4
    <3> QED
      BY <2>1, <3>5, <3>7
  <2>5. (Cardinality(Running) + Cardinality(ready) <= manifest.max_parallel)'
    <3>1. IsFiniteSet(Entries(manifest)) /\ manifest.max_parallel \in Int
      BY ManifestShape DEF TypeOK
    <3>2. IsFiniteSet(Running) /\ IsFiniteSet(ready)
      BY <3>1, FS_Subset DEF Running, TypeOK
    <3>3. Cardinality(Running) \in Nat /\ Cardinality(ready) \in Nat
      BY <3>2, FS_CardinalityType
    <3>4. /\ Cardinality(ready \cup {next}) <= Cardinality(ready) + 1
          /\ Cardinality(ready \cup {next}) \in Nat
      <4>1. Cardinality(ready \cup {next})
               = IF next \in ready THEN Cardinality(ready) ELSE Cardinality(ready) + 1
        BY <3>2, FS_AddElement
      <4> QED
        BY <3>3, <4>1
    <3>5. ~(Cardinality(Running) + Cardinality(ready) >= manifest.max_parallel)
      BY DEF Admit, Full
    <3> QED
      BY <2>1, <3>1, <3>3, <3>4, <3>5
  <2> QED
    BY <2>1, <2>2, <2>3, <2>4, <2>5
<1>6. CASE Return
  BY <1>6, SameState DEF Return, Current, SelectInv, Selected
<1>7. CASE UseDecision
  BY <1>7, SameState DEF UseDecision, Current, SelectInv, Selected
<1>8. CASE RecordWave
  BY <1>8 DEF RecordWave, Current
<1>9. CASE UNCHANGED vars
  BY <1>9, SameState DEF vars, Current, SelectInv, Selected
<1> QED
  BY <1>1, <1>2, <1>3, <1>4, <1>5, <1>6, <1>7, <1>8, <1>9 DEF Next

(* The decision is right while it is being made: SelectInv holds in every  *)
(* reachable state of the selection loop.                                  *)
THEOREM SelectInvariant == Spec => []SelectInv
<1>1. Init => SelectInv
  BY DEF Init, SelectInv, Current
<1> QED
  BY <1>1, TypeCorrect, SelectInvInductive, PTL DEF Spec

(* No two entries of a decision, and no entry and a running one, own       *)
(* overlapping paths, whatever the manifest and the state Next is given.   *)
THEOREM OwnershipIsExclusive == Spec => []OwnershipExclusive
<1>1. SelectInv => OwnershipExclusive
  BY DEF SelectInv, Current, OwnershipExclusive, Deciding
<1> QED
  BY <1>1, SelectInvariant, PTL

(* A claim of a manifest that Validate accepts.                            *)
LEMMA ValidClaim ==
    ASSUME NEW m \in Manifests, Validate(m), NEW k \in Entries(m), NEW p \in m.tasks[k].owns
    PROVE  p \in Seq(STRING) /\ p # <<>> /\ normalizeOwnership(p) # Refused
<1>1. m.tasks[k] \in TaskRecord
  BY ManifestShape
<1>2. p \in Path
  BY <1>1 DEF TaskRecord
<1>3. normalizeOwnership(p) # Refused
  BY Zenon DEF Validate, Fits
<1> QED
  BY <1>2, <1>3 DEF Path

(* A file that two claims cover makes them collide.                        *)
LEMMA CoveredCollide ==
    ASSUME NEW L, NEW R, NEW p \in L, NEW q \in R, NEW f \in Path,
           p \in Path, GlobsShow(p), normalizeOwnership(p) # Refused, pathMatches(p, f),
           q \in Path, GlobsShow(q), normalizeOwnership(q) # Refused, pathMatches(q, f)
    PROVE  OwnershipConflict(L, R)
<1>1. /\ p \in Seq(STRING) /\ p # <<>> /\ q \in Seq(STRING) /\ q # <<>>
      /\ f \in Seq(STRING) /\ f # <<>>
  BY DEF Path
<1>2. /\ normalizeOwnership(p) \in Seq(STRING) /\ normalizeRepositoryPath(f) \in Seq(STRING)
      /\ IsPrefix(normalizeOwnership(p), normalizeRepositoryPath(f))
  BY <1>1, CoveredIsBelow
<1>3. /\ normalizeOwnership(q) \in Seq(STRING)
      /\ IsPrefix(normalizeOwnership(q), normalizeRepositoryPath(f))
  BY <1>1, CoveredIsBelow
<1>4. \/ IsPrefix(normalizeOwnership(p), normalizeOwnership(q))
      \/ IsPrefix(normalizeOwnership(q), normalizeOwnership(p))
  BY <1>2, <1>3, PrefixesMeet
<1> QED
  BY <1>4, Zenon DEF OwnershipConflict, Overlap

(* Whatever a manifest writes for a path, what Validate accepts stays in   *)
(* the repository, and no file is covered by two tasks that Next lets run  *)
(* together: a pattern covers nothing outside the directory that           *)
(* normalizeOwnership makes of it, and two directories above one file      *)
(* collide.                                                                *)
THEOREM NoFileIsShared == Spec => []NoSharedFile
<1>1. TypeOK /\ SelectInv => NoSharedFile
  <2> SUFFICES ASSUME TypeOK, SelectInv, Deciding, caller = "once"
               PROVE  /\ \A k \in Entries(manifest) : \A p \in Task(k).owns :
                            StaysInside(DropLast(DropLast(DropHere(p), Stars), Star))
                      /\ \A k \in ready : \A o \in Selected \ {k} :
                            \A p \in Task(k).owns, q \in Task(o).owns, f \in Files :
                                GlobsShow(p) /\ GlobsShow(q) => ~(pathMatches(p, f) /\ pathMatches(q, f))
    BY Zenon DEF NoSharedFile
  <2>1. Current
    BY DEF Deciding, Current
  <2>2. Validate(manifest) /\ manifest \in Manifests
    BY <2>1 DEF SelectInv, TypeOK
  <2>3. \A k \in Entries(manifest) : \A p \in Task(k).owns :
            p \in Seq(STRING) /\ p # <<>> /\ normalizeOwnership(p) # Refused
    BY <2>2, ValidClaim, Zenon DEF Task
  <2>4. ASSUME NEW k \in Entries(manifest), NEW p \in Task(k).owns
        PROVE  StaysInside(DropLast(DropLast(DropHere(p), Stars), Star))
    <3> DEFINE u == DropLast(DropLast(DropHere(p), Stars), Star)
    <3>1. p \in Seq(STRING) /\ p # <<>> /\ normalizeOwnership(p) # Refused
      BY <2>3
    <3>2. u \in Seq(STRING) /\ Clean(u) # <<>> /\ Head(Clean(u)) # Up
      BY <3>1, OwnershipIs, Zenon
    <3> HIDE DEF u
    <3>3. StaysInside(u)
      BY <3>2, CleanStaysInside
    <3> QED
      BY <3>3 DEF u
  <2>5. ASSUME NEW k \in ready, NEW o \in Selected \ {k},
               NEW p \in Task(k).owns, NEW q \in Task(o).owns, NEW f \in Files,
               GlobsShow(p), GlobsShow(q), pathMatches(p, f), pathMatches(q, f)
        PROVE  FALSE
    <3>1. k \in Entries(manifest) /\ o \in Entries(manifest)
      BY DEF TypeOK, Selected, Running
    <3>2. /\ p \in Path /\ normalizeOwnership(p) # Refused
          /\ q \in Path /\ normalizeOwnership(q) # Refused
      BY <2>3, <3>1 DEF Path
    <3>3. f \in Path
      BY FilesAssumption
    <3>4. OwnershipConflict(Task(o).owns, Task(k).owns)
      BY <2>5, <3>2, <3>3, CoveredCollide
    <3>5. ~OwnershipConflict(Task(o).owns, Task(k).owns)
      BY <2>1, Zenon DEF SelectInv
    <3> QED
      BY <3>4, <3>5
  <2> QED
    BY <2>4, <2>5, Zenon
<1> QED
  BY <1>1, TypeCorrect, SelectInvariant, PTL

(* max_parallel bounds the running and the admitted entries together.      *)
THEOREM ParallelIsBounded == Spec => []WithinParallel
<1>1. TypeOK /\ SelectInv => WithinParallel
  <2> SUFFICES ASSUME TypeOK, SelectInv, Deciding, caller = "once", ready # {}
               PROVE  Cardinality(Selected) <= manifest.max_parallel
    BY DEF WithinParallel
  <2>1. Cardinality(Running) + Cardinality(ready) <= manifest.max_parallel
    BY DEF SelectInv, Current, Deciding
  <2>2. IsFiniteSet(Running) /\ IsFiniteSet(ready) /\ manifest.max_parallel \in Int
    BY ManifestShape, FS_Subset DEF Running, TypeOK
  <2>3. Cardinality(Selected) = Cardinality(Running) + Cardinality(ready)
                                   - Cardinality(Running \cap ready)
    BY <2>2, FS_Union DEF Selected
  <2>4. /\ Cardinality(Running) \in Nat /\ Cardinality(ready) \in Nat
        /\ Cardinality(Running \cap ready) \in Nat
    BY <2>2, FS_CardinalityType, FS_Intersection
  <2> QED
    BY <2>1, <2>2, <2>3, <2>4
<1> QED
  BY <1>1, TypeCorrect, SelectInvariant, PTL

-----------------------------------------------------------------------------
(* Resources.  The counters the loop keeps are the sums over the entries   *)
(* it has counted, each counted once: used covers the running entries that *)
(* the first loop has passed, then all of them and what was admitted.      *)
Counted == IF pc = "tally" THEN { k \in Running : k < next } ELSE Selected

ChargeInv ==
    Current =>
        /\ used.cpu = CPUOf(Counted) /\ used.memory = MemoryOf(Counted)
        /\ pc = "select" => \A k \in ready : k < next
        /\ ready # {} => used.cpu <= manifest.cpu /\ used.memory <= manifest.memory

(* What entries of a valid manifest ask for adds up.                       *)
LEMMA ResourcesAdd ==
    ASSUME TypeOK, Validate(manifest), NEW S, S \subseteq Entries(manifest)
    PROVE  /\ IsFiniteSet(S)
           /\ CPUOf(S) \in Nat /\ MemoryOf(S) \in Nat
           /\ CPUOf({}) = 0 /\ MemoryOf({}) = 0
           /\ \A k \in Entries(manifest) \ S :
                 /\ CPUOf(S \cup {k}) = CPUOf(S) + Task(k).cpu
                 /\ MemoryOf(S \cup {k}) = MemoryOf(S) + Task(k).memory
<1> DEFINE c == [k \in Entries(manifest) |-> Task(k).cpu]
           m == [k \in Entries(manifest) |-> Task(k).memory]
<1>1. \A k \in Entries(manifest) : Task(k).cpu \in Nat /\ Task(k).memory \in Nat
  <2> SUFFICES ASSUME NEW k \in Entries(manifest) PROVE Task(k).cpu \in Nat /\ Task(k).memory \in Nat
    OBVIOUS
  <2>1. Task(k).cpu > 0 /\ Task(k).memory > 0
    BY DEF Validate, Fits, Task
  <2>2. Task(k).cpu \in Int /\ Task(k).memory \in Int
    BY ManifestShape DEF TypeOK, Task
  <2> QED
    BY <2>1, <2>2
<1>2. \A k \in Entries(manifest) : /\ c[k] \in Nat /\ m[k] \in Nat
                                   /\ c[k] = Task(k).cpu /\ m[k] = Task(k).memory
  BY <1>1
<1>3. IsFiniteSet(S)
  BY ManifestShape, FS_Subset DEF TypeOK
<1>4. \A R : CPUOf(R) = Total(c, R) /\ MemoryOf(R) = Total(m, R)
  BY DEF CPUOf, MemoryOf
<1> HIDE DEF c, m
<1>5. \A x \in S : c[x] \in Nat /\ m[x] \in Nat
  BY <1>2
<1>6. Total(c, S) \in Nat /\ Total(m, S) \in Nat
  BY <1>3, <1>5, TotalNat
<1>7. ASSUME NEW k \in Entries(manifest) \ S
      PROVE  Total(c, S \cup {k}) = Total(c, S) + c[k] /\ Total(m, S \cup {k}) = Total(m, S) + m[k]
  BY <1>2, <1>3, <1>5, TotalAdds
<1> QED
  BY <1>2, <1>3, <1>4, <1>6, <1>7, TotalOfNone

(* Sums over the same entries of the same manifest are the same.           *)
LEMMA SameResources ==
    ASSUME UNCHANGED <<manifest, state>>
    PROVE  \A S : CPUOf(S)' = CPUOf(S) /\ MemoryOf(S)' = MemoryOf(S)
  BY DEF CPUOf, MemoryOf, Task

(* Every step of Next keeps the counters true to the entries.              *)
LEMMA ChargeInvInductive == TypeOK /\ SelectInv /\ ChargeInv /\ [Next]_vars => ChargeInv'
<1> SUFFICES ASSUME TypeOK, SelectInv, ChargeInv, [Next]_vars, Current' PROVE ChargeInv'
  BY DEF ChargeInv
<1> DEFINE Keeps == UNCHANGED <<manifest, state>>
<1>0. Running \subseteq Entries(manifest) /\ ready \subseteq Entries(manifest) /\ next \in Nat \ {0}
  BY DEF Running, TypeOK
<1>1. CASE Begin
  <2>1. /\ pc' = "tally" /\ next' = 1 /\ ready' = {} /\ used' = [cpu |-> 0, memory |-> 0]
        /\ Validate(manifest) /\ UNCHANGED <<manifest, state>>
    BY <1>1 DEF Begin, Current
  <2>2. Running' = Running /\ (\A S : CPUOf(S)' = CPUOf(S) /\ MemoryOf(S)' = MemoryOf(S))
    BY <2>1, SameState, SameResources
  <2>3. \A k \in Running : ~(k < 1)
    BY ManifestShape DEF Running, TypeOK
  <2>4. Counted' = {}
    BY <2>1, <2>2, <2>3 DEF Counted
  <2>5. CPUOf({}) = 0 /\ MemoryOf({}) = 0
    BY <2>1, ResourcesAdd
  <2> QED
    BY <2>1, <2>2, <2>4, <2>5 DEF ChargeInv
<1>2. CASE Tally
  <2>1. /\ pc = "tally" /\ pc' = "tally" /\ next \in Entries(manifest) /\ next' = next + 1
        /\ UNCHANGED <<manifest, state, ready>> /\ Current /\ ready = {} /\ Validate(manifest)
    BY <1>2 DEF Tally, Current, SelectInv
  <2>2. Running' = Running /\ (\A S : CPUOf(S)' = CPUOf(S) /\ MemoryOf(S)' = MemoryOf(S))
    BY <2>1, SameState, SameResources
  <2>3. Counted \subseteq Entries(manifest)
    BY <1>0, <2>1 DEF Counted
  <2>4. used.cpu = CPUOf(Counted) /\ used.memory = MemoryOf(Counted)
    BY <2>1 DEF ChargeInv
  <2>5. \A k \in Running : k < next + 1 <=> k < next \/ k = next
    BY <1>0, ManifestShape DEF TypeOK
  <2>6. CASE next \in Running
    <3>1. used' = [cpu |-> used.cpu + Task(next).cpu, memory |-> used.memory + Task(next).memory]
      BY <1>2, <2>6 DEF Tally, Charge
    <3>2. Counted' = Counted \cup {next} /\ next \notin Counted
      <4>1. Counted = { k \in Running : k < next } /\ Counted' = { k \in Running : k < next + 1 }
        BY <2>1, <2>2 DEF Counted
      <4>2. ~(next < next)
        BY <1>0
      <4> QED
        BY <2>5, <2>6, <4>1, <4>2
    <3>3. /\ CPUOf(Counted \cup {next}) = CPUOf(Counted) + Task(next).cpu
          /\ MemoryOf(Counted \cup {next}) = MemoryOf(Counted) + Task(next).memory
      BY <2>1, <2>3, <3>2, ResourcesAdd
    <3>4. used'.cpu = CPUOf(Counted') /\ used'.memory = MemoryOf(Counted')
      BY <2>4, <3>1, <3>2, <3>3
    <3>5. CPUOf(Counted)' = CPUOf(Counted') /\ MemoryOf(Counted)' = MemoryOf(Counted')
      BY <2>1 DEF CPUOf, MemoryOf, Task
    <3> QED
      BY <2>1, <3>4, <3>5 DEF ChargeInv
  <2>7. CASE next \notin Running
    <3>1. used' = used
      BY <1>2, <2>7 DEF Tally
    <3>2. Counted' = Counted
      BY <2>1, <2>2, <2>5, <2>7 DEF Counted
    <3>3. CPUOf(Counted)' = CPUOf(Counted') /\ MemoryOf(Counted)' = MemoryOf(Counted')
      BY <2>1 DEF CPUOf, MemoryOf, Task
    <3> QED
      BY <2>1, <2>4, <3>1, <3>2, <3>3 DEF ChargeInv
  <2> QED
    BY <2>6, <2>7
<1>3. CASE MarkSkipped
  <2>1. /\ pc = "tally" /\ pc' = "select" /\ next \notin Entries(manifest)
        /\ UNCHANGED <<manifest, state, ready, used>> /\ Current /\ ready = {}
    BY <1>3 DEF MarkSkipped, Current, SelectInv
  <2>2. Running' = Running
    BY <2>1, SameState
  <2>3. \A k \in Running : k < next
    BY <1>0, <2>1, ManifestShape DEF TypeOK
  <2>4. Counted' = Counted
    BY <2>1, <2>2, <2>3 DEF Counted, Selected
  <2>5. CPUOf(Counted)' = CPUOf(Counted') /\ MemoryOf(Counted)' = MemoryOf(Counted')
    BY <2>1 DEF CPUOf, MemoryOf, Task
  <2> QED
    BY <2>1, <2>4, <2>5 DEF ChargeInv
<1>4. CASE Admit
  <2>1. /\ pc = "select" /\ pc' = "select" /\ next \in Entries(manifest) /\ next' = next + 1
        /\ ready' = ready \cup {next} /\ UNCHANGED <<manifest, state>> /\ Current
        /\ used' = [cpu |-> used.cpu + Task(next).cpu, memory |-> used.memory + Task(next).memory]
        /\ next \in Pending /\ ~Overcommits(next)
    BY <1>4 DEF Admit, AtEntry, Charge, Eligible, Current
  <2>2. Validate(manifest) /\ Running' = Running
    BY <2>1, SameState DEF SelectInv
  <2>3. /\ used.cpu = CPUOf(Selected) /\ used.memory = MemoryOf(Selected)
        /\ \A k \in ready : k < next
    BY <2>1 DEF ChargeInv, Counted
  <2>4. Selected \subseteq Entries(manifest) /\ next \notin Selected
    <3>1. next \notin Running
      BY <2>1 DEF Pending, Running
    <3>2. next \notin ready
      BY <1>0, <2>3
    <3> QED
      BY <1>0, <3>1, <3>2 DEF Selected
  <2>5. Counted' = Selected \cup {next}
    BY <2>1, <2>2 DEF Counted, Selected
  <2>6. /\ CPUOf(Selected \cup {next}) = CPUOf(Selected) + Task(next).cpu
        /\ MemoryOf(Selected \cup {next}) = MemoryOf(Selected) + Task(next).memory
    BY <2>1, <2>2, <2>4, ResourcesAdd
  <2>7. CPUOf(Counted)' = CPUOf(Counted') /\ MemoryOf(Counted)' = MemoryOf(Counted')
    BY <2>1 DEF CPUOf, MemoryOf, Task
  <2>8. used'.cpu <= manifest.cpu /\ used'.memory <= manifest.memory
    <3>1. /\ used.cpu \in Int /\ used.memory \in Int /\ manifest.cpu \in Int /\ manifest.memory \in Int
          /\ Task(next).cpu \in Int /\ Task(next).memory \in Int
      BY <2>1, ManifestShape DEF TypeOK, Task
    <3> QED
      BY <2>1, <3>1 DEF Overcommits
  <2>9. \A k \in ready' : k < next'
    BY <1>0, <2>1, <2>3, ManifestShape DEF TypeOK
  <2> QED
    BY <2>1, <2>3, <2>5, <2>6, <2>7, <2>8, <2>9 DEF ChargeInv
<1>5. ASSUME UNCHANGED <<manifest, state, ready, used>>, Current,
             pc \in {"select", "return", "done"}, pc' \in {"select", "return", "done"},
             pc' = "select" => pc = "select" /\ next' \in {next, next + 1}
      PROVE  ChargeInv'
  <2>1. Running' = Running
    BY <1>5, SameState
  <2>2. Counted' = Counted
    BY <1>5, <2>1 DEF Counted, Selected
  <2>3. CPUOf(Counted)' = CPUOf(Counted') /\ MemoryOf(Counted)' = MemoryOf(Counted')
    BY <1>5 DEF CPUOf, MemoryOf, Task
  <2>4. pc' = "select" => \A k \in ready : k < next'
    <3> SUFFICES ASSUME pc' = "select", NEW k \in ready PROVE k < next'
      OBVIOUS
    <3>1. k < next
      BY <1>5 DEF ChargeInv
    <3> QED
      BY <1>0, <1>5, <3>1, ManifestShape DEF TypeOK
  <2> QED
    BY <1>5, <2>2, <2>3, <2>4 DEF ChargeInv
<1>6. CASE PassOver
  BY <1>5, <1>6 DEF PassOver, AtEntry, Current
<1>7. CASE Return
  BY <1>5, <1>7 DEF Return, Current
<1>8. CASE UseDecision
  BY <1>5, <1>8 DEF UseDecision, Current
<1>9. CASE RecordWave
  BY <1>9 DEF RecordWave, Current
<1>10. CASE UNCHANGED vars
  BY <1>10, SameState DEF vars, ChargeInv, Counted, Selected, Current, CPUOf, MemoryOf, Task
<1> QED
  BY <1>1, <1>2, <1>3, <1>4, <1>6, <1>7, <1>8, <1>9, <1>10 DEF Next

(* The counters are true in every reachable state of the loop.             *)
THEOREM ChargeInvariant == Spec => []ChargeInv
<1>1. Init => ChargeInv
  BY DEF Init, ChargeInv, Current
<1> QED
  BY <1>1, TypeCorrect, SelectInvariant, ChargeInvInductive, PTL DEF Spec

(* max_parallel, cpu and memory bound the running and the admitted entries *)
(* together, whatever the running ones are and however they got there.     *)
THEOREM LimitsAreKept == Spec => []WithinLimits
<1>1. ChargeInv /\ WithinParallel => WithinLimits
  BY DEF ChargeInv, WithinLimits, Counted, Current, Deciding
<1> QED
  BY <1>1, ChargeInvariant, ParallelIsBounded, PTL

(* A decision never starts a task ahead of one it depends on.              *)
THEOREM DependenciesAreRespected == Spec => []DependenciesRespected
<1>1. SelectInv => DependenciesRespected
  <2> SUFFICES ASSUME SelectInv, Deciding, caller = "once", NEW k \in ready
               PROVE  /\ k \in Pending \ skipped
                      /\ \A j \in Entries(manifest) :
                            DependsOn(manifest, k, j) => statusOf(j) = "success"
    BY DEF DependenciesRespected
  <2>1. k \in Pending \ skipped /\ dependenciesSucceeded(k)
    BY DEF SelectInv, Current, Deciding
  <2> QED
    BY <2>1 DEF dependenciesSucceeded, DependsOn, statusOf, Task
<1> QED
  BY <1>1, SelectInvariant, PTL

-----------------------------------------------------------------------------
(* PlanWaves.  While it runs, nothing is running or failed, so the first   *)
(* pending entry whose dependencies succeeded meets no obstacle: if the    *)
(* loop has admitted nothing, it has met no such entry.                    *)
PlanInv ==
    caller = "plan" =>
        /\ NeverDeadlocks
        /\ pc \in {"start", "tally", "select", "return"} =>
              /\ state \in [IDs(manifest) -> {"pending", "success"}]
              /\ Entries(manifest) # {} => Pending # {}
        /\ pc \in {"tally", "select", "return"} /\ ready = {} =>
              used = [cpu |-> 0, memory |-> 0]
        /\ pc \in {"select", "return"} => skipped = {}
        /\ pc = "select" /\ ready = {} =>
              \A k \in Entries(manifest) : k < next => ~Eligible(k)
        /\ pc = "return" /\ ready = {} =>
              \A k \in Entries(manifest) : ~Eligible(k)

(* While PlanWaves runs, no entry is running and no dependency has failed. *)
LEMMA PlanQuiet ==
    ASSUME TypeOK, state \in [IDs(manifest) -> {"pending", "success"}], Validate(manifest)
    PROVE  /\ Running = {}
           /\ { k \in Pending : dependencyFailed(k) } = {}
<1>1. Running = {}
  BY ManifestShape DEF TypeOK, Running, statusOf, Task
<1>2. \A k \in Entries(manifest) : Task(k).depends_on \subseteq IDs(manifest)
  BY DEF Validate, Task
<1>3. { k \in Pending : dependencyFailed(k) } = {}
  BY <1>2 DEF Pending, dependencyFailed
<1> QED
  BY <1>1, <1>3

(* The heart of it: the pending entries are a nonempty set, so one depends *)
(* on none of them; all it depends on has succeeded and it is eligible.    *)
LEMMA SomeEligible ==
    ASSUME TypeOK, Validate(manifest), skipped = {}, Pending # {},
           state \in [IDs(manifest) -> {"pending", "success"}]
    PROVE  \E k \in Entries(manifest) : Eligible(k)
<1>1. Pending \in SUBSET Entries(manifest)
  BY DEF Pending
<1>2. PICK j \in Pending : \A k \in Pending : ~DependsOn(manifest, j, k)
  BY <1>1 DEF Validate, Acyclic
<1>3. \A id \in Task(j).depends_on : state[id] = "success"
  <2> SUFFICES ASSUME NEW id \in Task(j).depends_on PROVE state[id] = "success"
    OBVIOUS
  <2>1. id \in IDs(manifest)
    BY <1>1 DEF Validate, Task
  <2>2. PICK k \in Entries(manifest) : manifest.tasks[k].id = id
    BY <2>1 DEF IDs
  <2>3. k \notin Pending
    BY <1>2, <2>2 DEF DependsOn, Task
  <2> QED
    BY <2>1, <2>2, <2>3 DEF Pending, statusOf, Task
<1> QED
  BY <1>1, <1>2, <1>3 DEF Eligible, dependenciesSucceeded

(* Every step of PlanWaves keeps PlanInv.                                  *)
LEMMA PlanInvInductive == TypeOK /\ SelectInv /\ PlanInv /\ [Next]_vars => PlanInv'
<1> SUFFICES ASSUME TypeOK, SelectInv, PlanInv, [Next]_vars, caller' = "plan"
             PROVE  PlanInv'
  BY DEF PlanInv
<1>0. caller = "plan"
  BY DEF Next, Begin, Tally, MarkSkipped, PassOver, Admit, Return, UseDecision, RecordWave, vars
<1> USE <1>0
<1>1. CASE Begin
  BY <1>1, SameState DEF Begin, PlanInv, NeverDeadlocks
<1>2. CASE Tally
  <2>1. Validate(manifest) /\ ready = {} /\ state \in [IDs(manifest) -> {"pending", "success"}]
    BY <1>2 DEF Tally, SelectInv, Current, PlanInv
  <2>2. used' = used
    BY <1>2, <2>1, PlanQuiet DEF Tally
  <2> QED
    BY <1>2, <2>1, <2>2, SameState DEF Tally, PlanInv, NeverDeadlocks
<1>3. CASE MarkSkipped
  <2>1. Validate(manifest) /\ state \in [IDs(manifest) -> {"pending", "success"}]
    BY <1>3 DEF MarkSkipped, SelectInv, Current, PlanInv
  <2>2. skipped' = {}
    BY <1>3, <2>1, PlanQuiet DEF MarkSkipped
  <2>3. next' = 1 /\ \A k \in Entries(manifest) : ~(k < 1)
    BY <1>3, ManifestShape DEF MarkSkipped, TypeOK
  <2> QED
    BY <1>3, <2>1, <2>2, <2>3, SameState DEF MarkSkipped, PlanInv, NeverDeadlocks
<1>4. CASE PassOver
  <2>1. /\ pc = "select" /\ next \in Entries(manifest) /\ next' = next + 1
        /\ UNCHANGED <<manifest, state, pc, ready, skipped, used>>
    BY <1>4 DEF PassOver, AtEntry
  <2>2. Validate(manifest) /\ state \in [IDs(manifest) -> {"pending", "success"}] /\ skipped = {}
    BY <2>1 DEF SelectInv, Current, PlanInv
  <2>3. ASSUME ready = {} PROVE ~Eligible(next)
    <3>1. used = [cpu |-> 0, memory |-> 0] /\ Running = {}
      BY <2>1, <2>2, <2>3, PlanQuiet DEF PlanInv
    <3>2. ~conflictsAny(next, Selected)
      BY <2>3, <3>1 DEF conflictsAny, Selected
    <3>3. ~Overcommits(next)
      <4>1. Task(next).cpu <= manifest.cpu /\ Task(next).memory <= manifest.memory
        BY <2>1, <2>2 DEF Validate, Fits, Task
      <4>2. Task(next).cpu \in Int /\ Task(next).memory \in Int
            /\ manifest.cpu \in Int /\ manifest.memory \in Int
        BY <2>1, ManifestShape DEF TypeOK, Task
      <4> QED
        BY <3>1, <4>1, <4>2 DEF Overcommits
    <3> QED
      BY <1>4, <3>2, <3>3 DEF PassOver
  <2>4. ASSUME ready = {}, NEW k \in Entries(manifest), k < next + 1 PROVE ~Eligible(k)
    <3>1. k \in Int /\ next \in Int
      BY ManifestShape DEF TypeOK
    <3>2. CASE k = next
      BY <2>3, <2>4, <3>2
    <3>3. CASE k < next
      BY <2>1, <2>4, <3>3 DEF PlanInv
    <3> QED
      BY <2>4, <3>1, <3>2, <3>3
  <2>5. \A k : Eligible(k)' = Eligible(k)
    BY <2>1, SameState DEF Eligible
  <2> QED
    BY <2>1, <2>4, <2>5, SameState DEF PlanInv, NeverDeadlocks
<1>5. CASE Admit
  BY <1>5, SameState DEF Admit, AtEntry, PlanInv, NeverDeadlocks
<1>6. CASE Return
  <2>1. /\ pc = "select" /\ pc' = "return"
        /\ UNCHANGED <<manifest, state, next, ready, skipped, used>>
    BY <1>6 DEF Return
  <2>2. Validate(manifest) /\ state \in [IDs(manifest) -> {"pending", "success"}]
    BY <2>1 DEF SelectInv, Current, PlanInv
  <2>3. ASSUME ready = {} PROVE ~Full
    <3>1. Cardinality(Running) = 0 /\ Cardinality(ready) = 0
      BY <2>2, <2>3, PlanQuiet, FS_EmptySet
    <3>2. manifest.max_parallel \in Int /\ manifest.max_parallel > 0
      BY <2>2, ManifestShape DEF TypeOK, Validate
    <3> QED
      BY <3>1, <3>2 DEF Full
  <2>4. ASSUME ready = {}, NEW k \in Entries(manifest) PROVE ~Eligible(k)
    <3>1. next \notin Entries(manifest)
      BY <1>6, <2>3, <2>4 DEF Return
    <3>2. k < next
      BY <3>1, ManifestShape DEF TypeOK
    <3> QED
      BY <2>1, <2>4, <3>2 DEF PlanInv
  <2>5. \A k : Eligible(k)' = Eligible(k)
    BY <2>1, SameState DEF Eligible
  <2> QED
    BY <2>1, <2>4, <2>5, SameState DEF PlanInv, NeverDeadlocks
<1>7. CASE UseDecision
  BY <1>7 DEF UseDecision
<1>8. CASE RecordWave
  <2>1. /\ pc = "return" /\ manifest' = manifest /\ state' = Recorded
        /\ Validate(manifest)
        /\ state \in [IDs(manifest) -> {"pending", "success"}]
        /\ skipped = {}
    BY <1>8 DEF RecordWave, SelectInv, Current, PlanInv
  <2>2. ready # {}
    <3> SUFFICES ASSUME ready = {} PROVE FALSE
      OBVIOUS
    <3>1. Pending # {}
      BY <2>1 DEF PlanInv, Validate
    <3> QED
      BY <2>1, <3>1, SomeEligible DEF PlanInv
  <2>3. pc' \in {"done", "start"}
    BY <1>8, <2>2 DEF RecordWave
  <2>4. state' \in [IDs(manifest) -> {"pending", "success"}]
    BY <2>1 DEF Recorded
  <2>5. ASSUME pc' = "start" PROVE Pending' # {}
    <3>1. PICK k \in Pending : k \notin ready
      BY <1>8, <2>1, <2>5 DEF RecordWave
    <3>2. k \in Entries(manifest) /\ Task(k).id \in IDs(manifest) /\ state[Task(k).id] = "pending"
      BY <3>1 DEF Pending, statusOf, IDs, Task
    <3>3. \A j \in ready : Task(j).id # Task(k).id
      BY <2>1, <3>1, <3>2 DEF Validate, UniqueIDs, Task, TypeOK
    <3>4. state'[Task(k).id] = "pending"
      BY <2>1, <3>2, <3>3 DEF Recorded
    <3> QED
      BY <2>1, <3>2, <3>4 DEF Pending, statusOf, Task
  <2> QED
    BY <2>1, <2>3, <2>4, <2>5 DEF PlanInv, NeverDeadlocks
<1>9. CASE UNCHANGED vars
  BY <1>9, SameState DEF vars, PlanInv, Eligible, NeverDeadlocks
<1> QED
  BY <1>1, <1>2, <1>3, <1>4, <1>5, <1>6, <1>7, <1>8, <1>9 DEF Next

(* What PlanWaves relies on in every reachable state.                      *)
THEOREM PlanInvariant == Spec => [](PlanInv /\ NeverDeadlocks)
<1>1. Init => PlanInv
  <2> SUFFICES ASSUME Init, caller = "plan" PROVE PlanInv
    BY DEF PlanInv
  <2>1. /\ manifest \in Manifests /\ pc = "start"
        /\ state \in [IDs(manifest) -> {"pending"}]
    BY CallsAssumption DEF Init
  <2>2. Pending = Entries(manifest)
    BY <2>1, ManifestShape DEF Pending, statusOf, Task
  <2> QED
    BY <2>1, <2>2 DEF PlanInv, NeverDeadlocks
<1>2. TypeOK /\ SelectInv /\ PlanInv /\ NeverDeadlocks /\ [Next]_vars
        => (PlanInv /\ NeverDeadlocks)'
  <2> SUFFICES ASSUME TypeOK, SelectInv, PlanInv, NeverDeadlocks, [Next]_vars
               PROVE  NeverDeadlocks'
    BY PlanInvInductive
  <2>1. CASE caller' = "plan"
    BY <2>1, PlanInvInductive DEF PlanInv
  <2>2. CASE caller' # "plan"
    BY <2>2 DEF NeverDeadlocks, Next, Begin, Tally, MarkSkipped, PassOver, Admit, Return,
                UseDecision, RecordWave, vars
  <2> QED
    BY <2>1, <2>2
<1>3. Init => NeverDeadlocks
  BY DEF Init, NeverDeadlocks
<1> QED
  BY <1>1, <1>2, <1>3, TypeCorrect, SelectInvariant, PTL DEF Spec

(* PlanWaves never reports a deadlock for a manifest Validate accepts.     *)
THEOREM PlanNeverDeadlocks == Spec => []NeverDeadlocks
  BY PlanInvariant, PTL

-----------------------------------------------------------------------------
(* The schedule.  What PlanWaves has returned so far is the first waves of *)
(* a schedule, and covers exactly the entries it has marked successful.    *)
Covered(k) == \E w \in DOMAIN waves : k \in waves[w]

WaveFits(S) ==
    /\ Cardinality(S) <= manifest.max_parallel
    /\ CPUOf(S) <= manifest.cpu
    /\ MemoryOf(S) <= manifest.memory
    /\ \A j, k \in S : j # k => ~OwnershipConflict(Task(j).owns, Task(k).owns)

WaveInv ==
    caller = "plan" /\ pc # "invalid" =>
        /\ \A v, w \in DOMAIN waves : v # w => waves[v] \cap waves[w] = {}
        /\ \A w \in DOMAIN waves :
              /\ WaveFits(waves[w])
              /\ \A k \in waves[w], j \in Entries(manifest) :
                    DependsOn(manifest, k, j) => \E v \in 1..(w - 1) : j \in waves[v]
        /\ pc # "done" => \A k \in Entries(manifest) : statusOf(k) = "success" <=> Covered(k)
        /\ pc = "done" => \A k \in Entries(manifest) : Covered(k)

(* A decision of Next that PlanWaves takes is a wave of its own.           *)
LEMMA DecisionIsWave ==
    ASSUME TypeOK, SelectInv, ChargeInv, PlanInv, caller = "plan", pc = "return"
    PROVE  /\ ready # {} /\ Running = {} /\ skipped = {} /\ Validate(manifest)
           /\ state \in [IDs(manifest) -> {"pending", "success"}]
           /\ WaveFits(ready)
           /\ \A k \in ready : k \in Pending /\ dependenciesSucceeded(k)
<1>1. /\ Validate(manifest) /\ state \in [IDs(manifest) -> {"pending", "success"}] /\ skipped = {}
      /\ Entries(manifest) # {} => Pending # {}
  BY DEF SelectInv, Current, PlanInv
<1>2. Running = {}
  BY <1>1, PlanQuiet
<1>3. ready # {}
  <2> SUFFICES ASSUME ready = {} PROVE FALSE
    OBVIOUS
  <2>1. Pending # {}
    BY <1>1 DEF Validate
  <2> QED
    BY <1>1, <2>1, SomeEligible DEF PlanInv
<1>4. \A k \in ready : k \in Pending /\ dependenciesSucceeded(k)
  BY DEF SelectInv, Current
<1>5. Selected = ready
  BY <1>2 DEF Selected
<1>6. Cardinality(ready) <= manifest.max_parallel
  <2>1. Cardinality(Running) + Cardinality(ready) <= manifest.max_parallel
    BY <1>3 DEF SelectInv, Current
  <2>2. IsFiniteSet(ready)
    BY ManifestShape, FS_Subset DEF TypeOK
  <2>3. Cardinality(ready) \in Nat /\ Cardinality(Running) = 0
    BY <1>2, <2>2, FS_CardinalityType, FS_EmptySet
  <2> QED
    BY <2>1, <2>3
<1>7. CPUOf(ready) <= manifest.cpu /\ MemoryOf(ready) <= manifest.memory
  BY <1>3, <1>5 DEF ChargeInv, Current, Counted
<1>8. \A j, k \in ready : j # k => ~OwnershipConflict(Task(j).owns, Task(k).owns)
  BY <1>5 DEF SelectInv, Current
<1> QED
  BY <1>1, <1>2, <1>3, <1>4, <1>6, <1>7, <1>8 DEF WaveFits

(* Every step of PlanWaves keeps WaveInv; RecordWave is the one that adds  *)
(* a wave.                                                                 *)
LEMMA WaveInvInductive ==
    TypeOK /\ SelectInv /\ ChargeInv /\ PlanInv /\ NeverDeadlocks /\ WaveInv /\ [Next]_vars => WaveInv'
<1> SUFFICES ASSUME TypeOK, SelectInv, ChargeInv, PlanInv, NeverDeadlocks, WaveInv, [Next]_vars,
                    caller' = "plan", pc' # "invalid"
             PROVE  WaveInv'
  BY DEF WaveInv
<1>0. caller = "plan" /\ manifest' = manifest
  BY DEF Next, Begin, Tally, MarkSkipped, PassOver, Admit, Return, UseDecision, RecordWave, vars
<1>1. ASSUME UNCHANGED <<state, waves>>, pc # "invalid", pc = "done" <=> pc' = "done" PROVE WaveInv'
  <2>1. /\ \A S : WaveFits(S)' = WaveFits(S)
        /\ \A k : Covered(k)' = Covered(k) /\ statusOf(k)' = statusOf(k)
    BY <1>0, <1>1 DEF WaveFits, CPUOf, MemoryOf, Task, Covered, statusOf
  <2>2. \A S : WaveFits(S) => WaveFits(S)'
    BY <2>1
  <2> QED
    BY <1>0, <1>1, <2>1, <2>2 DEF WaveInv
<1>2. CASE RecordWave
  <2>1. /\ pc = "return" /\ state' = Recorded /\ UNCHANGED <<ready, skipped>>
    BY <1>2 DEF RecordWave
  <2>2. /\ ready # {} /\ skipped = {} /\ Validate(manifest) /\ WaveFits(ready)
        /\ state \in [IDs(manifest) -> {"pending", "success"}]
        /\ \A k \in ready : k \in Pending /\ dependenciesSucceeded(k)
    BY <1>0, <2>1, DecisionIsWave
  <2>3. /\ waves' = Append(waves, ready) /\ pc' \in {"done", "start"}
        /\ pc' = "done" => Pending \subseteq ready
    BY <1>2, <2>2 DEF RecordWave
  <2> DEFINE n == Len(waves) + 1
  <2>4. /\ n \in Nat \ {0} /\ DOMAIN waves = 1..(n - 1) /\ DOMAIN waves' = 1..n
        /\ waves'[n] = ready /\ \A w \in 1..(n - 1) : waves'[w] = waves[w]
        /\ \A w \in 1..n : w \in 1..(n - 1) \/ w = n
    BY <2>3 DEF TypeOK
  <2> HIDE DEF n
  <2>5. /\ \A v, w \in 1..(n - 1) : v # w => waves[v] \cap waves[w] = {}
        /\ \A w \in 1..(n - 1) :
              /\ WaveFits(waves[w])
              /\ \A k \in waves[w], j \in Entries(manifest) :
                    DependsOn(manifest, k, j) => \E v \in 1..(w - 1) : j \in waves[v]
        /\ \A k \in Entries(manifest) : statusOf(k) = "success" <=> Covered(k)
    BY <1>0, <2>1, <2>4 DEF WaveInv
  <2>6. \A k \in ready : k \in Entries(manifest) /\ ~Covered(k)
    <3>1. \A k \in ready : k \in Entries(manifest) /\ statusOf(k) = "pending"
      BY <2>2 DEF Pending
    <3> QED
      BY <2>5, <3>1
  <2>7. \A w \in 1..(n - 1) : waves[w] \cap ready = {}
    BY <2>4, <2>6 DEF Covered
  <2>8. \A v, w \in DOMAIN waves' : v # w => waves'[v] \cap waves'[w] = {}
    <3> SUFFICES ASSUME NEW v \in 1..n, NEW w \in 1..n, v # w PROVE waves'[v] \cap waves'[w] = {}
      BY <2>4
    <3>1. CASE v \in 1..(n - 1) /\ w \in 1..(n - 1)
      BY <2>4, <2>5, <3>1
    <3>2. CASE v = n /\ w \in 1..(n - 1)
      BY <2>4, <2>7, <3>2
    <3>3. CASE v \in 1..(n - 1) /\ w = n
      BY <2>4, <2>7, <3>3
    <3> QED
      BY <2>4, <3>1, <3>2, <3>3
  <2>9. \A S : WaveFits(S) => WaveFits(S)'
    BY <1>0 DEF WaveFits, CPUOf, MemoryOf, Task
  <2>10. \A w \in DOMAIN waves' : WaveFits(waves[w])'
    <3> SUFFICES ASSUME NEW w \in 1..n PROVE WaveFits(waves[w])'
      BY <2>4
    <3>1. WaveFits(waves'[w])
      BY <2>2, <2>4, <2>5
    <3>2. PICK S : S = waves'[w]
      OBVIOUS
    <3>3. WaveFits(S)
      BY <3>1, <3>2
    <3>4. WaveFits(S)'
      BY <2>9, <3>3
    <3> QED
      BY <1>0, <3>2, <3>4 DEF WaveFits, CPUOf, MemoryOf, Task
  <2>11. \A w \in DOMAIN waves' : \A k \in waves'[w], j \in Entries(manifest) :
            DependsOn(manifest, k, j) => \E v \in 1..(w - 1) : j \in waves'[v]
    <3> SUFFICES ASSUME NEW w \in 1..n, NEW k \in waves'[w], NEW j \in Entries(manifest), DependsOn(manifest, k, j)
                 PROVE  \E v \in 1..(w - 1) : j \in waves'[v]
      BY <2>4
    <3>1. CASE w \in 1..(n - 1)
      <4>1. PICK v \in 1..(w - 1) : j \in waves[v]
        BY <2>4, <2>5, <3>1
      <4>2. v \in 1..(n - 1)
        BY <2>4, <3>1
      <4> QED
        BY <2>4, <4>1, <4>2
    <3>2. CASE w = n
      <4>1. k \in ready
        BY <2>4, <3>2
      <4>2. statusOf(j) = "success"
        BY <2>2, <4>1 DEF dependenciesSucceeded, DependsOn, statusOf, Task
      <4>3. PICK v \in 1..(n - 1) : j \in waves[v]
        BY <2>4, <2>5, <4>2 DEF Covered
      <4> QED
        BY <2>4, <3>2, <4>3
    <3> QED
      BY <2>4, <3>1, <3>2
  <2>12. \A k \in Entries(manifest) : Covered(k)' <=> Covered(k) \/ k \in ready
    <3>1. \A k : Covered(k)' <=> \E w \in DOMAIN waves' : k \in waves'[w]
      BY DEF Covered
    <3>2. \A k : Covered(k) <=> \E w \in 1..(n - 1) : k \in waves[w]
      BY <2>4 DEF Covered
    <3>3. n \in 1..n /\ \A w \in 1..(n - 1) : w \in 1..n
      BY <2>4
    <3> QED
      BY <2>4, <3>1, <3>2, <3>3
  <2>13. \A k \in Entries(manifest) : statusOf(k)' = IF k \in ready THEN "success" ELSE statusOf(k)
    <3> SUFFICES ASSUME NEW k \in Entries(manifest)
                 PROVE  statusOf(k)' = IF k \in ready THEN "success" ELSE statusOf(k)
      OBVIOUS
    <3>1. Task(k).id \in IDs(manifest) /\ Task(k)' = Task(k)
      BY <1>0 DEF IDs, Task
    <3>2. (\E j \in ready : Task(j).id = Task(k).id) <=> k \in ready
      BY <2>2, <2>6 DEF Validate, UniqueIDs, Task
    <3>3. Recorded[Task(k).id] = IF k \in ready THEN "success" ELSE state[Task(k).id]
      BY <2>2, <3>1, <3>2 DEF Recorded
    <3> QED
      BY <2>1, <3>1, <3>3 DEF statusOf
  <2>14. \A k \in Entries(manifest) : statusOf(k)' = "success" <=> Covered(k)'
    BY <2>5, <2>12, <2>13
  <2>15. pc' = "done" => \A k \in Entries(manifest) : Covered(k)'
    <3> SUFFICES ASSUME pc' = "done", NEW k \in Entries(manifest) PROVE Covered(k) \/ k \in ready
      BY <2>12
    <3>1. statusOf(k) \in {"pending", "success"}
      BY <2>2 DEF statusOf, IDs, Task
    <3> QED
      BY <2>3, <2>5, <3>1 DEF Pending
  <2>16. (\A k \in Entries(manifest) : statusOf(k) = "success" <=> Covered(k))'
    BY <1>0, <2>14
  <2>17. (pc = "done" => \A k \in Entries(manifest) : Covered(k))'
    BY <1>0, <2>15
  <2>18. (\A w \in DOMAIN waves : \A k \in waves[w], j \in Entries(manifest) :
            DependsOn(manifest, k, j) => \E v \in 1..(w - 1) : j \in waves[v])'
    BY <1>0, <2>11
  <2>19. (\A w \in DOMAIN waves : WaveFits(waves[w]))'
    BY <2>10
  <2>20. (\A v, w \in DOMAIN waves : v # w => waves[v] \cap waves[w] = {})'
    BY <2>8
  <2> HIDE DEF WaveFits, Covered, statusOf, DependsOn
  <2> QED
    BY <2>16, <2>17, <2>18, <2>19, <2>20 DEF WaveInv
<1>3. CASE Begin
  BY <1>1, <1>3 DEF Begin
<1>4. CASE Tally
  BY <1>1, <1>4 DEF Tally
<1>5. CASE MarkSkipped
  BY <1>1, <1>5 DEF MarkSkipped
<1>6. CASE PassOver
  BY <1>1, <1>6 DEF PassOver, AtEntry
<1>7. CASE Admit
  BY <1>1, <1>7 DEF Admit, AtEntry
<1>8. CASE Return
  BY <1>1, <1>8 DEF Return
<1>9. CASE UseDecision
  BY <1>0, <1>9 DEF UseDecision
<1>10. CASE UNCHANGED vars
  BY <1>1, <1>10 DEF vars
<1> QED
  BY <1>2, <1>3, <1>4, <1>5, <1>6, <1>7, <1>8, <1>9, <1>10 DEF Next

(* A finished plan is a schedule of its manifest, whatever the manifest:   *)
(* every entry in exactly one wave, after all that it depends on, in the   *)
(* company of entries it does not collide with, within the capacity.       *)
THEOREM PlansAreSchedules == Spec => []PlanIsSchedule
<1>1. Init => WaveInv
  <2> SUFFICES ASSUME Init, caller = "plan" PROVE WaveInv
    BY DEF WaveInv
  <2>1. /\ manifest \in Manifests /\ pc = "start" /\ waves = <<>> /\ DOMAIN waves = {}
        /\ state \in [IDs(manifest) -> {"pending"}]
    BY CallsAssumption DEF Init
  <2>2. \A k \in Entries(manifest) : statusOf(k) = "pending"
    BY <2>1 DEF statusOf, IDs, Task
  <2> QED
    BY <2>1, <2>2 DEF WaveInv, Covered
<1>2. TypeOK /\ WaveInv => PlanIsSchedule
  <2> SUFFICES ASSUME TypeOK, WaveInv, pc = "done", caller = "plan" PROVE PlanIsSchedule
    BY DEF PlanIsSchedule
  <2>1. ASSUME NEW k \in Entries(manifest) PROVE Cardinality({ w \in DOMAIN waves : k \in waves[w] }) = 1
    <3>1. PICK w \in DOMAIN waves : k \in waves[w]
      BY DEF WaveInv, Covered
    <3>2. { v \in DOMAIN waves : k \in waves[v] } = {w}
      BY <3>1 DEF WaveInv
    <3> QED
      BY <3>2, FS_Singleton
  <2> QED
    BY <2>1 DEF PlanIsSchedule, WaveInv, WaveFits
<1> QED
  BY <1>1, <1>2, TypeCorrect, SelectInvariant, ChargeInvariant, PlanInvariant, WaveInvInductive, PTL DEF Spec

-----------------------------------------------------------------------------
(* Termination.  That a call goes on is fairness; that it cannot go on for *)
(* ever is a safety property: every step uses up something finite.  Within *)
(* a call of Next that is the rest of the two passes over the manifest,    *)
(* and from one call of PlanWaves to its next the pending entries.         *)
StepsLeft ==
    IF      pc = "start"  THEN 2 * Len(manifest.tasks) + 5
    ELSE IF pc = "tally"  THEN 2 * Len(manifest.tasks) + 5 - next
    ELSE IF pc = "select" THEN Len(manifest.tasks) + 3 - next
    ELSE IF pc = "return" THEN 1
    ELSE 0

Descends ==
    \/ Pending' = Pending /\ StepsLeft' < StepsLeft
    \/ Pending' \subseteq Pending /\ Cardinality(Pending') < Cardinality(Pending)

(* The two loops stop one past the last entry.                             *)
NextInv == pc \in {"tally", "select"} => next <= Len(manifest.tasks) + 1

(* Tally, PassOver and Admit advance only from an entry of the manifest.   *)
LEMMA NextInvariant == Spec => []NextInv
<1>1. Init => NextInv
  BY DEF Init, NextInv
<1>2. TypeOK /\ NextInv /\ [Next]_vars => NextInv'
  <2> SUFFICES ASSUME TypeOK, NextInv, [Next]_vars PROVE NextInv'
    OBVIOUS
  <2>1. Len(manifest.tasks) \in Nat /\ Entries(manifest) = 1..Len(manifest.tasks) /\ next \in Nat
    BY ManifestShape DEF TypeOK
  <2>2. CASE Begin
    BY <2>1, <2>2 DEF Begin, NextInv
  <2>3. CASE Tally
    BY <2>1, <2>3 DEF Tally, NextInv
  <2>4. CASE MarkSkipped
    BY <2>1, <2>4 DEF MarkSkipped, NextInv
  <2>5. CASE PassOver
    BY <2>1, <2>5 DEF PassOver, AtEntry, NextInv
  <2>6. CASE Admit
    BY <2>1, <2>6 DEF Admit, AtEntry, NextInv
  <2>7. CASE Return
    BY <2>7 DEF Return, NextInv
  <2>8. CASE UseDecision
    BY <2>8 DEF UseDecision, NextInv
  <2>9. CASE RecordWave
    BY <2>9 DEF RecordWave, NextInv
  <2>10. CASE UNCHANGED vars
    BY <2>10 DEF vars, NextInv
  <2> QED
    BY <2>2, <2>3, <2>4, <2>5, <2>6, <2>7, <2>8, <2>9, <2>10 DEF Next
<1> QED
  BY <1>1, <1>2, TypeCorrect, PTL DEF Spec

(* What descends are natural numbers, so it cannot descend for ever.       *)
THEOREM StepsAreCounted == Spec => [](StepsLeft \in Nat /\ Cardinality(Pending) \in Nat)
<1>1. TypeOK /\ NextInv => StepsLeft \in Nat /\ Cardinality(Pending) \in Nat
  <2> SUFFICES ASSUME TypeOK, NextInv PROVE StepsLeft \in Nat /\ Cardinality(Pending) \in Nat
    OBVIOUS
  <2>1. Len(manifest.tasks) \in Nat /\ IsFiniteSet(Entries(manifest)) /\ next \in Nat
    BY ManifestShape DEF TypeOK
  <2>2. Cardinality(Pending) \in Nat
    BY <2>1, FS_Subset, FS_CardinalityType DEF Pending
  <2> QED
    BY <2>1, <2>2 DEF StepsLeft, NextInv
<1> QED
  BY <1>1, TypeCorrect, NextInvariant, PTL

(* No call of Next or PlanWaves can go round for ever: a step inside a     *)
(* call shortens what is left of it, and PlanWaves calls Next again only   *)
(* when the wave it has recorded left fewer entries pending.               *)
THEOREM CallsDescend == Spec => [][Descends]_vars
<1>1. TypeOK /\ SelectInv /\ NextInv /\ Next => Descends
  <2> SUFFICES ASSUME TypeOK, SelectInv, NextInv, Next PROVE Descends
    OBVIOUS
  <2>1. Len(manifest.tasks) \in Nat /\ Entries(manifest) = 1..Len(manifest.tasks) /\ next \in Nat
    BY ManifestShape DEF TypeOK
  <2>2. CASE Begin
    BY <2>1, <2>2, SameState DEF Begin, StepsLeft, Descends
  <2>3. CASE Tally
    BY <2>1, <2>3, SameState DEF Tally, StepsLeft, Descends
  <2>4. CASE MarkSkipped
    BY <2>1, <2>4, SameState DEF MarkSkipped, StepsLeft, NextInv, Descends
  <2>5. CASE PassOver
    BY <2>1, <2>5, SameState DEF PassOver, AtEntry, StepsLeft, Descends
  <2>6. CASE Admit
    BY <2>1, <2>6, SameState DEF Admit, AtEntry, StepsLeft, Descends
  <2>7. CASE Return
    BY <2>1, <2>7, SameState DEF Return, StepsLeft, NextInv, Descends
  <2>8. CASE UseDecision
    BY <2>8, SameState DEF UseDecision, StepsLeft, Descends
  <2>9. CASE RecordWave
    <3>1. /\ manifest' = manifest /\ state' = Recorded /\ pc = "return"
          /\ pc' \in {"done", "deadlock", "start"}
          /\ pc' = "done" <=> Pending \ (skipped \cup ready) = {}
          /\ ready = {} => pc' # "start"
      BY <2>9 DEF RecordWave
    <3>2. \A k \in ready : k \in Pending
      BY <3>1 DEF SelectInv, Current
    <3>3. \A k \in Entries(manifest) : Task(k).id \in IDs(manifest)
      BY DEF IDs, Task
    <3>4. Pending' \subseteq Pending
      <4> SUFFICES ASSUME NEW k \in Entries(manifest), Recorded[Task(k).id] = "pending"
                   PROVE  state[Task(k).id] = "pending"
        BY <3>1 DEF Pending, statusOf, Task
      <4> QED
        BY <3>3 DEF Recorded
    <3>5. \A k \in ready : k \notin Pending'
      <4> SUFFICES ASSUME NEW k \in ready PROVE Recorded[Task(k).id] # "pending"
        BY <3>1 DEF Pending, statusOf, Task
      <4>1. Task(k).id \in IDs(manifest)
        BY <3>2, <3>3 DEF Pending
      <4> QED
        BY <4>1 DEF Recorded
    <3>6. IsFiniteSet(Pending)
      <4>1. IsFiniteSet(Entries(manifest))
        BY ManifestShape DEF TypeOK
      <4> QED
        BY <4>1, FS_Subset DEF Pending
    <3>7. CASE ready = {}
      <4>1. pc' \in {"done", "deadlock"}
        BY <3>1, <3>7
      <4>2. StepsLeft' = 0 /\ StepsLeft = 1
        BY <3>1, <4>1 DEF StepsLeft
      <4>3. CASE Pending' = Pending
        BY <4>2, <4>3 DEF Descends
      <4>4. CASE Pending' # Pending
        <5>1. Cardinality(Pending') <= Cardinality(Pending) /\ Cardinality(Pending') # Cardinality(Pending)
          BY <3>4, <3>6, <4>4, FS_Subset
        <5>2. Cardinality(Pending') \in Nat /\ Cardinality(Pending) \in Nat
          BY <3>4, <3>6, FS_Subset, FS_CardinalityType
        <5> QED
          BY <3>4, <5>1, <5>2 DEF Descends
      <4> QED
        BY <4>3, <4>4
    <3>8. CASE ready # {}
      <4>1. Pending' # Pending
        BY <3>2, <3>5, <3>8
      <4>2. Cardinality(Pending') <= Cardinality(Pending) /\ Cardinality(Pending') # Cardinality(Pending)
        BY <3>4, <3>6, <4>1, FS_Subset
      <4>3. Cardinality(Pending') \in Nat /\ Cardinality(Pending) \in Nat
        BY <3>4, <3>6, FS_Subset, FS_CardinalityType
      <4> QED
        BY <3>4, <4>2, <4>3 DEF Descends
    <3> QED
      BY <3>7, <3>8
  <2> QED
    BY <2>2, <2>3, <2>4, <2>5, <2>6, <2>7, <2>8, <2>9 DEF Next
<1> QED
  BY <1>1, TypeCorrect, SelectInvariant, NextInvariant, PTL DEF Spec

=============================================================================
