--------------------------- MODULE DeliveryProofs ---------------------------
(***************************************************************************)
(* Proofs about the services around the runs, each by itself: they share no*)
(* state.                                                                  *)
(***************************************************************************)
EXTENDS Inventory, WorkItems, Secrets, Webhooks, Specs, Callbacks, Router, WellFoundedInduction, TLAPS

-----------------------------------------------------------------------------
(* The inventory.                                                          *)

InventorySpec == InventoryInit /\ [][InventoryNext]_inventoryVars

(* The time of telemetry is when it was sent, or a later one.              *)
Sent ==
    { t \in [time : 0..clock, sent : 0..clock, stamped : BOOLEAN] :
         t.sent <= t.time /\ (t.stamped => t.time = t.sent) }

Getting == [pc : {"get"}, frame : Frame, attempt : Nat, telemetry : Sent]

Putting == [pc : {"put"}, frame : Frame, attempt : Nat, telemetry : Sent, last : 0..bucket.rev,
            record : [updated : 0..clock, telemetry : Sent]]

FramesKnown ==
    frames \in [Frame -> [at : {"node", "stream", "pending", "done"}, sent : 0..clock,
                          stamped : BOOLEAN, deliveries : Nat]]

(* A record was made of telemetry that had been sent by then.              *)
RecordKnown ==
    /\ bucket \in [rev : Nat, updated : 0..clock, telemetry : Sent, corrupt : BOOLEAN]
    /\ bucket.telemetry.sent <= bucket.updated
    /\ bucket.corrupt => bucket.rev # 0

(* A goroutine that would win has telemetry of a time at which that of the *)
(* record had been sent.                                                   *)
WinnerFresh(j) ==
    j.pc = "put" => /\ j.record.telemetry.sent <= j.record.updated
                    /\ j.last = bucket.rev => j.record.telemetry.time >= bucket.telemetry.sent

Replaced ==
    bucket' # bucket => /\ bucket'.telemetry \in Sent'
                        /\ bucket'.telemetry.time >= bucket.telemetry.sent

InventoryInv ==
    /\ clock \in Nat
    /\ FramesKnown
    /\ RecordKnown
    /\ goroutines \in [Goroutine -> {Resting} \cup Getting \cup Putting]
    /\ \A g \in Goroutine : WinnerFresh(goroutines[g])

(* A goroutine's step leaves the others, and what it becomes is a job that *)
(* would not write older telemetry.                                        *)
LEMMA OneGoroutine ==
    ASSUME InventoryInv, UNCHANGED <<clock, bucket>>, NEW g \in Goroutine,
           NEW j \in {Resting} \cup Getting \cup Putting, WinnerFresh(j),
           goroutines' = [goroutines EXCEPT ![g] = j]
    PROVE  /\ goroutines' \in [Goroutine -> {Resting} \cup Getting' \cup Putting']
           /\ \A h \in Goroutine : WinnerFresh(goroutines[h])'
<1>1. goroutines \in [Goroutine -> {Resting} \cup Getting \cup Putting]
  BY DEF InventoryInv
<1>2. Getting' = Getting /\ Putting' = Putting
  BY DEF Getting, Putting, Sent
<1>3. \A h \in Goroutine : WinnerFresh(goroutines'[h])
  BY <1>1 DEF InventoryInv
<1>4. \A h \in Goroutine : WinnerFresh(goroutines[h])' <=> WinnerFresh(goroutines'[h])
  BY DEF WinnerFresh
<1> QED
  BY <1>1, <1>2, <1>3, <1>4

(* Every step of a goroutine, of the stream or of the clock keeps what is  *)
(* known of the records, and a record that is rewritten has telemetry of a *)
(* time at which the one before had been sent.                             *)
LEMMA InventoryStep == InventoryInv /\ [InventoryNext]_inventoryVars => InventoryInv' /\ Replaced
<1> SUFFICES ASSUME InventoryInv, [InventoryNext]_inventoryVars PROVE InventoryInv' /\ Replaced
  OBVIOUS
<1> DEFINE Jobs == {Resting} \cup Getting \cup Putting
           Kept == InventoryInv' /\ Replaced
<1>t. clock \in Nat /\ goroutines \in [Goroutine -> Jobs] /\ \A g \in Goroutine : WinnerFresh(goroutines[g])
  BY DEF InventoryInv
<1>f. FramesKnown
  BY DEF InventoryInv
<1>b. RecordKnown
  BY DEF InventoryInv
<1>r. Resting \in Jobs /\ WinnerFresh(Resting)
  BY DEF Resting, WinnerFresh
<1>0. UNCHANGED <<clock, bucket>> => Getting' = Getting /\ Putting' = Putting /\ RecordKnown' /\ Replaced
  BY <1>b DEF Getting, Putting, RecordKnown, Sent, Replaced
<1>o. ASSUME UNCHANGED <<clock, bucket>>, FramesKnown', NEW g \in Goroutine, NEW j \in Jobs, WinnerFresh(j),
             goroutines' = [goroutines EXCEPT ![g] = j]
      PROVE  Kept
  BY <1>o, <1>0, <1>t, OneGoroutine DEF InventoryInv
<1> HIDE DEF Jobs
<1>u. UNCHANGED <<clock, frames>> => FramesKnown'
  BY <1>f DEF FramesKnown
<1>1. ASSUME Tick PROVE Kept
  <2>1. clock' = clock + 1 /\ UNCHANGED <<frames, bucket, goroutines>>
    BY <1>1 DEF Tick
  <2>2. 0..clock \subseteq 0..clock' /\ clock' \in Nat
    BY <1>t, <2>1
  <2>s. Sent \subseteq Sent'
    BY <2>2 DEF Sent
  <2>3. FramesKnown' /\ RecordKnown' /\ Replaced
    BY <1>f, <1>b, <2>1, <2>2, <2>s DEF FramesKnown, RecordKnown, Replaced
  <2>4. Getting \subseteq Getting' /\ Putting \subseteq Putting'
    BY <2>1, <2>2, <2>s DEF Getting, Putting
  <2>5. \A g \in Goroutine : WinnerFresh(goroutines[g])'
    BY <1>t, <2>1 DEF WinnerFresh
  <2> QED
    BY <1>t, <2>1, <2>2, <2>3, <2>4, <2>5 DEF InventoryInv, Jobs
<1>2. ASSUME NEW f \in Frame, Publish(f) PROVE Kept
  <2>1. FramesKnown'
    <3> DEFINE F == [at : {"node", "stream", "pending", "done"}, sent : 0..clock, stamped : BOOLEAN, deliveries : Nat]
    <3>1. PICK b \in BOOLEAN :
             frames' = [frames EXCEPT ![f] = [@ EXCEPT !.at = "stream", !.sent = clock, !.stamped = b]]
      BY <1>2 DEF Publish
    <3> DEFINE x == [frames[f] EXCEPT !.at = "stream", !.sent = clock, !.stamped = b]
    <3>2. clock \in 0..clock
      BY <1>t
    <3>3. frames \in [Frame -> F] /\ frames[f] \in F
      BY <1>f DEF FramesKnown
    <3>4. x \in F
      BY <3>2, <3>3
    <3>5. frames' = [frames EXCEPT ![f] = x] /\ UNCHANGED clock
      BY <1>2, <3>1, <3>3 DEF Publish
    <3> HIDE DEF x
    <3>6. frames' \in [Frame -> F]
      BY <3>3, <3>4, <3>5
    <3> QED
      BY <3>5, <3>6 DEF FramesKnown
  <2>2. UNCHANGED <<clock, bucket, goroutines>>
    BY <1>2 DEF Publish
  <2>3. \A g \in Goroutine : WinnerFresh(goroutines[g])'
    BY <1>t, <2>2 DEF WinnerFresh
  <2> QED
    BY <1>0, <1>t, <2>1, <2>2, <2>3 DEF InventoryInv, Jobs
<1>3. ASSUME NEW g \in Goroutine, NEW f \in Frame, consumeLoop(g, f) PROVE Kept
  <2> DEFINE t == Telemetry(frames[f])
             j == [pc |-> "get", frame |-> f, attempt |-> 1, telemetry |-> t]
  <2>1. t \in Sent
    <3>1. frames[f].sent \in 0..clock /\ frames[f].stamped \in BOOLEAN /\ clock \in 0..clock
      BY <1>f, <1>t DEF FramesKnown
    <3> QED
      BY <3>1 DEF Telemetry, Sent
  <2>2. j \in Jobs /\ WinnerFresh(j)
    <3> HIDE DEF t
    <3> QED
      BY <2>1 DEF Jobs, Getting, WinnerFresh
  <2>3. FramesKnown'
    <3> DEFINE F == [at : {"node", "stream", "pending", "done"}, sent : 0..clock, stamped : BOOLEAN, deliveries : Nat]
               x == [frames[f] EXCEPT !.at = "pending", !.deliveries = frames[f].deliveries + 1]
    <3>1. frames \in [Frame -> F] /\ frames[f] \in F
      BY <1>f DEF FramesKnown
    <3>a. frames[f].deliveries + 1 \in Nat
      BY <3>1
    <3>2. x \in F
      BY <3>1, <3>a
    <3>3. frames' = [frames EXCEPT ![f] = x] /\ UNCHANGED clock
      BY <1>3, <3>1 DEF consumeLoop
    <3> HIDE DEF x
    <3>4. frames' \in [Frame -> F]
      BY <3>1, <3>2, <3>3
    <3> QED
      BY <3>3, <3>4 DEF FramesKnown
  <2>4. goroutines' = [goroutines EXCEPT ![g] = j] /\ UNCHANGED <<clock, bucket>>
    BY <1>3 DEF consumeLoop
  <2> QED
    BY <1>o, <2>2, <2>3, <2>4
<1>4. ASSUME NEW g \in Goroutine, Get(g) PROVE Kept
  <2> DEFINE c == goroutines[g]
             fresh == bucket.updated > c.telemetry.time
             last == IF bucket.corrupt THEN 0 ELSE bucket.rev
             record == [updated |-> clock, telemetry |-> IF fresh THEN bucket.telemetry ELSE c.telemetry]
             j == [pc |-> "put", frame |-> c.frame, attempt |-> c.attempt, telemetry |-> c.telemetry,
                   last |-> last, record |-> record]
  <2>1. c \in Getting
    BY <1>4, <1>t DEF Get, Jobs, Resting, Putting
  <2>2. c.frame \in Frame /\ c.attempt \in Nat /\ c.telemetry \in Sent
    BY <2>1 DEF Getting
  <2>3. last \in 0..bucket.rev /\ (last = bucket.rev => ~bucket.corrupt)
    BY <1>b DEF RecordKnown
  <2>4. /\ record \in [updated : 0..clock, telemetry : Sent]
        /\ record.telemetry.sent <= record.updated /\ record.telemetry.time >= bucket.telemetry.sent
    <3>1. /\ bucket.telemetry \in Sent /\ bucket.updated \in 0..clock
          /\ bucket.telemetry.sent <= bucket.updated /\ clock \in 0..clock
      BY <1>b, <1>t DEF RecordKnown
    <3>2. \A t \in Sent : t.time \in 0..clock /\ t.sent \in 0..clock /\ t.sent <= t.time
      BY DEF Sent
    <3>3. CASE fresh
      BY <1>t, <3>1, <3>2, <3>3
    <3>4. CASE ~fresh
      BY <1>t, <2>2, <3>1, <3>2, <3>4
    <3> QED
      BY <3>3, <3>4
  <2>5. goroutines' = [goroutines EXCEPT ![g] = j] /\ UNCHANGED <<clock, frames, bucket>>
    BY <1>4 DEF Get
  <2> HIDE DEF last, record, c
  <2>6. j \in Jobs /\ WinnerFresh(j)
    BY <2>2, <2>3, <2>4 DEF Jobs, Putting, WinnerFresh
  <2> QED
    BY <1>o, <1>u, <2>5, <2>6
<1>5. ASSUME NEW g \in Goroutine, Commit(g) PROVE Kept
  <2> DEFINE c == goroutines[g]
  <2>1. c \in Putting /\ c.last = bucket.rev /\ c.pc = "put"
    BY <1>5, <1>t DEF Commit, cas, Jobs, Resting, Getting
  <2>2. /\ bucket' = [rev |-> bucket.rev + 1, corrupt |-> FALSE,
                      updated |-> c.record.updated, telemetry |-> c.record.telemetry]
        /\ UNCHANGED clock /\ goroutines' = [goroutines EXCEPT ![g] = Resting]
    BY <1>5 DEF Commit, Ended
  <2>3. /\ c.record.updated \in 0..clock /\ c.record.telemetry \in Sent
        /\ c.record.telemetry.sent <= c.record.updated /\ c.record.telemetry.time >= bucket.telemetry.sent
        /\ c.frame \in Frame
    BY <1>t, <2>1 DEF Putting, WinnerFresh
  <2>4. FramesKnown'
    BY <1>5, <1>f, <2>3 DEF Commit, FramesKnown
  <2>5. bucket.rev \in Nat
    BY <1>b DEF RecordKnown
  <2> HIDE DEF c
  <2>s. Sent' = Sent
    BY <2>2 DEF Sent
  <2>6. RecordKnown' /\ Replaced /\ bucket'.rev = bucket.rev + 1
    BY <1>t, <2>2, <2>3, <2>5, <2>s DEF RecordKnown, Replaced
  <2>7. Getting \subseteq Getting' /\ Putting \subseteq Putting'
    BY <2>2, <2>5, <2>6, <2>s DEF Getting, Putting
  <2>8. goroutines' \in [Goroutine -> {Resting} \cup Getting' \cup Putting']
    BY <1>t, <2>2, <2>7 DEF Jobs
  <2>9. ASSUME NEW h \in Goroutine PROVE WinnerFresh(goroutines[h])'
    <3>1. CASE h = g
      BY <1>t, <2>2, <3>1 DEF WinnerFresh, Resting
    <3>2. CASE h # g
      <4>1. goroutines'[h] = goroutines[h]
        BY <1>t, <2>2, <3>2
      <4>2. goroutines[h].pc = "put" => goroutines[h] \in Putting
        BY <1>t DEF Jobs, Getting, Resting
      <4>3. goroutines[h].pc = "put" => goroutines[h].last # bucket'.rev
        BY <2>5, <2>6, <4>2 DEF Putting
      <4> QED
        BY <1>t, <4>1, <4>3 DEF WinnerFresh
    <3> QED
      BY <3>1, <3>2
  <2> QED
    BY <1>t, <2>2, <2>4, <2>6, <2>8, <2>9 DEF InventoryInv
<1>6. ASSUME NEW g \in Goroutine, isCASConflict(g) \/ Abandon(g) PROVE Kept
  <2> DEFINE c == goroutines[g]
             j == [pc |-> "get", frame |-> c.frame, attempt |-> c.attempt + 1, telemetry |-> c.telemetry]
  <2>1. UNCHANGED <<clock, frames, bucket>>
    BY <1>6 DEF isCASConflict, Abandon
  <2>2. CASE Ended(g)
    BY <1>o, <1>r, <1>u, <2>1, <2>2 DEF Ended
  <2>3. CASE c.pc = "put" /\ goroutines' = [goroutines EXCEPT ![g] = j]
    <3>1. c \in Putting
      BY <1>t, <2>3 DEF Jobs, Getting, Resting
    <3>2. c.frame \in Frame /\ c.attempt + 1 \in Nat /\ c.telemetry \in Sent
      BY <3>1 DEF Putting
    <3> HIDE DEF c
    <3>3. j \in Jobs /\ WinnerFresh(j)
      BY <3>2 DEF Jobs, Getting, WinnerFresh
    <3> QED
      BY <1>o, <1>u, <2>1, <2>3, <3>3
  <2> QED
    BY <1>6, <2>2, <2>3 DEF isCASConflict, Abandon
<1>7. ASSUME UNCHANGED inventoryVars PROVE Kept
  <2>1. UNCHANGED <<clock, frames, bucket, goroutines>>
    BY <1>7 DEF inventoryVars
  <2>2. \A g \in Goroutine : WinnerFresh(goroutines[g])'
    BY <1>t, <2>1 DEF WinnerFresh
  <2> QED
    BY <1>0, <1>t, <1>u, <2>1, <2>2 DEF InventoryInv, Jobs
<1> QED
  BY <1>1, <1>2, <1>3, <1>4, <1>5, <1>6, <1>7 DEF InventoryNext

(* An inventory without records, with its goroutines at rest, is           *)
(* consistent.                                                             *)
LEMMA InventoryStart == InventoryInit => InventoryInv
<1> SUFFICES ASSUME InventoryInit PROVE InventoryInv
  OBVIOUS
<1>1. clock = 1 /\ FramesKnown
  BY DEF InventoryInit, FramesKnown
<1>2. RecordKnown
  <2>1. 0 \in 0..clock /\ NoTelemetry \in Sent /\ NoTelemetry.sent = 0
    BY <1>1 DEF NoTelemetry, Sent
  <2>2. CASE bucket = Absent
    BY <2>1, <2>2 DEF RecordKnown, Absent
  <2>3. CASE bucket = Corrupt
    BY <2>1, <2>3 DEF RecordKnown, Corrupt
  <2> QED
    BY <2>2, <2>3 DEF InventoryInit
<1>3. goroutines = [g \in Goroutine |-> Resting] /\ WinnerFresh(Resting)
  BY DEF InventoryInit, WinnerFresh, Resting
<1> QED
  BY <1>1, <1>2, <1>3 DEF InventoryInv

(* processMessage does "not overwrite fresher state with stale telemetry", *)
(* as far as the telemetry bears its time: for every number of frames,     *)
(* goroutines, deliveries and conflicts, it was sent no earlier than what  *)
(* it replaces.  Telemetry without a time is only known to replace what was*)
(* sent before it was delivered this time (337-339).                       *)
THEOREM TelemetryNeverStale == InventorySpec => NeverStale
<1> DEFINE old == bucket.telemetry
           new == bucket'.telemetry
           Younger == IF new.stamped THEN new.sent >= old.sent ELSE new.time >= old.sent
<1>1. InventoryInv /\ [InventoryNext]_inventoryVars => [Younger]_bucket
  <2> SUFFICES ASSUME Replaced, bucket' # bucket PROVE Younger
    BY InventoryStep
  <2>1. bucket'.telemetry \in Sent' /\ bucket'.telemetry.time >= bucket.telemetry.sent
    BY DEF Replaced
  <2>2. bucket'.telemetry.stamped => bucket'.telemetry.time = bucket'.telemetry.sent
    BY <2>1 DEF Sent
  <2> QED
    BY <2>1, <2>2
<1>2. InventoryInv /\ [InventoryNext]_inventoryVars => InventoryInv'
  BY InventoryStep
<1> QED
  BY <1>1, <1>2, InventoryStart, PTL DEF InventorySpec, NeverStale

-----------------------------------------------------------------------------
(* Work items.                                                             *)

WorkSpec == WorkInit /\ [][WorkNext]_workVars

Entry == [name : Profiles, passed : BOOLEAN, on : Nat \X BOOLEAN]

(* What a gate found is of a tree between the candidate and what is there  *)
(* by now, and changes it saw are still there or committed.                *)
Found(c, e) ==
    /\ c <= e.on[1] /\ e.on[1] <= head
    /\ e.on[2] => dirty \/ head > e.on[1]

(* The gates whose tree was looked at afterwards.                          *)
Settled(c, e) == e.on[1] = c /\ (e.on[2] => head > c)

Verifying(v) ==
    /\ v = [pc |-> v.pc, item |-> v.item, candidate |-> v.candidate, done |-> v.done,
            left |-> v.left, pending |-> v.pending]
    /\ v.pc \in {"check", "clean", "gate", "head", "after", "persist", "item"}
    /\ v.candidate \in 0..MaxHead /\ v.candidate <= head
    /\ v.done \in Seq(Entry) /\ v.left \in Seq(Profiles)
    /\ v.pc = "gate" => v.left # <<>>
    /\ v.pc \in {"check", "clean"} => v.done = <<>>
    /\ v.pc \in {"head", "after"} => v.done # <<>>
    /\ \A n \in DOMAIN v.done :
          /\ Found(v.candidate, v.done[n])
          /\ v.pc # "head" \/ n < Len(v.done) => v.done[n].on[1] = v.candidate
          /\ v.pc \notin {"head", "after"} \/ n < Len(v.done) => Settled(v.candidate, v.done[n])

EvidenceKept(h, es) == es \in Seq(Entry) /\ \A n \in DOMAIN es : Settled(h, es[n])

WorkInv ==
    /\ head \in Nat /\ dirty \in BOOLEAN
    /\ verifier = Unused \/ Verifying(verifier)
    /\ evidence \in [0..MaxHead -> Seq(Entry)]
    /\ \A h \in 0..MaxHead : EvidenceKept(h, evidence[h])

(* The workspace goes on: nothing that was found of it becomes untrue.     *)
Onward == head' \in Nat /\ head' >= head /\ dirty' \in BOOLEAN /\ (dirty => dirty' \/ head' > head)

(* Evidence that was found of a commit stays found of it while the         *)
(* workspace goes on.                                                      *)
LEMMA FoundOnward ==
    ASSUME WorkInv, Onward, NEW c \in Nat, NEW e \in Entry
    PROVE  (Found(c, e) => Found(c, e)') /\ (Settled(c, e) => Settled(c, e)')
<1>1. e.on[1] \in Nat /\ e.on[2] \in BOOLEAN /\ head \in Nat /\ head' \in Nat
  BY DEF WorkInv, Onward, Entry
<1> QED
  BY <1>1 DEF Onward, Found, Settled

(* So does the evidence that is kept of a commit.                          *)
LEMMA EvidenceOnward ==
    ASSUME WorkInv, Onward, NEW h \in 0..MaxHead, NEW es, EvidenceKept(h, es)
    PROVE  EvidenceKept(h, es)'
  BY FoundOnward DEF EvidenceKept

(* And so does what a verification has gathered.                           *)
LEMMA VerifyingOnward ==
    ASSUME WorkInv, Onward, NEW v, Verifying(v)
    PROVE  Verifying(v)'
<1>1. v.candidate \in Nat /\ v.done \in Seq(Entry) /\ \A n \in DOMAIN v.done : v.done[n] \in Entry
  BY DEF Verifying
<1>2. \A n \in DOMAIN v.done : /\ Found(v.candidate, v.done[n]) => Found(v.candidate, v.done[n])'
                               /\ Settled(v.candidate, v.done[n]) => Settled(v.candidate, v.done[n])'
  BY <1>1, FoundOnward
<1>3. v.candidate <= head => v.candidate <= head'
  BY <1>1 DEF Onward, WorkInv
<1> QED
  BY <1>1, <1>2, <1>3 DEF Verifying

(* A verification that was rejected or never begun is unused, one that goes*)
(* on is verifying; the evidence is kept.                                  *)
LEMMA WorkStep == WorkInv /\ [WorkNext]_workVars => WorkInv'
<1> SUFFICES ASSUME WorkInv, [WorkNext]_workVars PROVE WorkInv'
  OBVIOUS
<1>t. /\ head \in Nat /\ dirty \in BOOLEAN
      /\ verifier = Unused \/ Verifying(verifier)
      /\ evidence \in [0..MaxHead -> Seq(Entry)]
  BY DEF WorkInv
<1>e. \A h \in 0..MaxHead : EvidenceKept(h, evidence[h])
  BY DEF WorkInv
<1>h. Onward => head' \in Nat /\ dirty' \in BOOLEAN
  BY DEF Onward
<1>s. UNCHANGED <<head, dirty>> => Onward
  BY <1>t DEF Onward
<1>u. ASSUME Onward, UNCHANGED evidence
      PROVE  evidence' \in [0..MaxHead -> Seq(Entry)] /\ \A h \in 0..MaxHead : EvidenceKept(h, evidence[h])'
  <2>1. ASSUME NEW h \in 0..MaxHead PROVE EvidenceKept(h, evidence[h])'
    <3>1. PICK es : es = evidence[h] /\ EvidenceKept(h, es)
      BY <1>e
    <3>2. EvidenceKept(h, es)'
      BY <1>u, <3>1, EvidenceOnward
    <3> QED
      BY <1>u, <3>1, <3>2 DEF EvidenceKept
  <2> QED
    BY <1>t, <1>u, <2>1
<1>v. ASSUME Onward, Verifying(verifier), UNCHANGED verifier PROVE Verifying(verifier)'
  <2>1. PICK v : v = verifier /\ Verifying(v)
    BY <1>v
  <2>2. Verifying(v)'
    BY <1>v, <2>1, VerifyingOnward
  <2> QED
    BY <1>v, <2>1, <2>2 DEF Verifying
<1>o. ASSUME Onward, UNCHANGED evidence, verifier' = Unused \/ Verifying(verifier)' \/ UNCHANGED verifier
      PROVE  WorkInv'
  BY <1>o, <1>h, <1>t, <1>u, <1>v DEF WorkInv
<1>1. ASSUME NEW c \in Holder, GetWorkItem(c) \/ Claim(c) PROVE WorkInv'
  BY <1>1, <1>o, <1>s DEF GetWorkItem, Claim
<1>2. ASSUME Elapse \/ Edit \/ CommitWork PROVE WorkInv'
  <2>1. Onward
    <3>1. CASE Elapse
      BY <1>s, <3>1 DEF Elapse
    <3>2. CASE Edit
      BY <1>t, <3>2 DEF Edit, Onward
    <3>3. CASE CommitWork
      <4>1. head' \in Nat /\ head' >= head /\ head' > head
        BY <1>t, <3>3 DEF CommitWork
      <4>2. dirty' \in BOOLEAN
        BY <3>3 DEF CommitWork
      <4> QED
        BY <4>1, <4>2 DEF Onward
    <3> QED
      BY <1>2, <3>1, <3>2, <3>3
  <2> QED
    BY <1>2, <1>o, <2>1 DEF Elapse, Edit, CommitWork
<1>r. ASSUME Rejected PROVE WorkInv'
  BY <1>r, <1>o, <1>s DEF Rejected
<1>3. ASSUME NEW candidate \in 0..MaxHead, Verify(candidate) PROVE WorkInv'
  <2>1. PICK rules \in RequiredGatesForPaths :
           verifier' = [pc |-> "check", item |-> item, candidate |-> candidate, done |-> <<>>,
                        left |-> resolveGates(item.gates \cup rules).run,
                        pending |-> resolveGates(item.gates \cup rules).pending]
    BY <1>3 DEF Verify
  <2>2. resolveGates(item.gates \cup rules).run \in Seq(Profiles)
    <3>1. "test" \in Profiles /\ "lint" \in Profiles
      BY DEF Profiles
    <3>2. /\ <<"test", "lint">> \in Seq(Profiles) /\ <<"test">> \in Seq(Profiles)
          /\ <<"lint">> \in Seq(Profiles) /\ <<>> \in Seq(Profiles)
      BY <3>1
    <3> QED
      BY <3>2 DEF resolveGates
  <2>3. UNCHANGED <<evidence, head, dirty>> /\ candidate <= head
    BY <1>3 DEF Verify
  <2>4. Verifying(verifier)'
    BY <2>1, <2>2, <2>3 DEF Verifying
  <2> QED
    BY <1>o, <1>s, <2>3, <2>4
<1>k. verifier.pc \in {"check", "clean", "gate", "head", "after", "persist", "item"} => Verifying(verifier)
  BY <1>t DEF Unused
<1>g. ASSUME Verifying(verifier), NEW pc, Goes(pc)
      PROVE  verifier' = [pc |-> pc, item |-> verifier.item, candidate |-> verifier.candidate,
                          done |-> verifier.done, left |-> verifier.left, pending |-> verifier.pending]
  BY <1>g DEF Goes, Verifying
<1>4. ASSUME CheckBefore PROVE WorkInv'
  <2>1. CASE Goes("clean") /\ UNCHANGED <<evidence, head, dirty>>
    <3>1. Verifying(verifier) /\ verifier.pc = "check"
      BY <1>4, <1>k DEF CheckBefore
    <3>2. Verifying(verifier)'
      BY <1>g, <2>1, <3>1 DEF Verifying
    <3> QED
      BY <1>o, <1>s, <2>1, <3>2
  <2> QED
    BY <1>4, <1>r, <2>1 DEF CheckBefore
<1>5. ASSUME CheckClean PROVE WorkInv'
  <2>1. CASE Goes(IF verifier.left = <<>> THEN "persist" ELSE "gate") /\ UNCHANGED <<evidence, head, dirty>>
    <3>1. Verifying(verifier) /\ verifier.pc = "clean"
      BY <1>5, <1>k DEF CheckClean
    <3>2. Verifying(verifier)'
      BY <1>g, <2>1, <3>1 DEF Verifying
    <3> QED
      BY <1>o, <1>s, <2>1, <3>2
  <2> QED
    BY <1>5, <1>r, <2>1 DEF CheckClean
<1>6. ASSUME Gate PROVE WorkInv'
  <2>1. Verifying(verifier) /\ verifier.pc = "gate"
    BY <1>6, <1>k DEF Gate
  <2>2. PICK passed \in BOOLEAN :
          verifier' = [verifier EXCEPT !.pc = "head", !.left = Tail(@),
             !.done = Append(@, [name |-> Head(verifier.left), passed |-> passed, on |-> <<head, dirty>>])]
    BY <1>6 DEF Gate
  <2>3. UNCHANGED <<evidence, head>> /\ dirty' \in BOOLEAN /\ (dirty => dirty')
    BY <1>6, <1>t DEF Gate
  <2>4. PICK e : e = [name |-> Head(verifier.left), passed |-> passed, on |-> <<head, dirty>>]
    OBVIOUS
  <2>5. PICK c, d : c = verifier.candidate /\ d = verifier.done
    OBVIOUS
  <2>6. verifier' = [pc |-> "head", item |-> verifier.item, candidate |-> c,
                     done |-> Append(d, e), left |-> Tail(verifier.left), pending |-> verifier.pending]
    BY <2>1, <2>2, <2>4, <2>5 DEF Verifying
  <2>7. verifier.left \in Seq(Profiles) /\ verifier.left # <<>>
    BY <2>1 DEF Verifying
  <2>8. Head(verifier.left) \in Profiles /\ Tail(verifier.left) \in Seq(Profiles)
    BY <2>7
  <2>9. e \in Entry /\ e.on[1] = head /\ e.on[2] = dirty
    BY <1>t, <2>4, <2>8 DEF Entry
  <2>10. /\ c \in 0..MaxHead /\ c <= head /\ d \in Seq(Entry)
         /\ \A n \in DOMAIN d : d[n].on[1] = c /\ Settled(c, d[n]) /\ Found(c, d[n])
    BY <2>1, <2>5 DEF Verifying
  <2>11. Onward
    BY <1>t, <2>3 DEF Onward
  <2>12. \A n \in DOMAIN d : d[n].on[1] = c /\ Settled(c, d[n])' /\ Found(c, d[n])'
    <3>1. \A n \in DOMAIN d : d[n] \in Entry
      BY <2>10
    <3> QED
      BY <2>10, <2>11, <3>1, FoundOnward
  <2>13. Found(c, e)'
    BY <1>t, <2>3, <2>9, <2>10 DEF Found
  <2>14. /\ Append(d, e) \in Seq(Entry) /\ Len(Append(d, e)) = Len(d) + 1 /\ Append(d, e) # <<>>
         /\ DOMAIN Append(d, e) = 1..(Len(d) + 1) /\ Len(d) \in Nat
         /\ \A n \in 1..(Len(d) + 1) : Append(d, e)[n] = IF n = Len(d) + 1 THEN e ELSE d[n]
    BY <2>9, <2>10
  <2>15. \A n \in 1..Len(d) : n \in DOMAIN d
    BY <2>10
  <2>16. Verifying(verifier)'
    <3> DEFINE a == Append(d, e)
    <3>1. a \in Seq(Entry) /\ Len(a) = Len(d) + 1 /\ a # <<>> /\ DOMAIN a = 1..(Len(d) + 1) /\ Len(d) \in Nat
      BY <2>14
    <3>2. \A n \in DOMAIN a : /\ Found(c, a[n])'
                              /\ n < Len(a) => a[n].on[1] = c /\ Settled(c, a[n])'
      BY <2>12, <2>13, <2>14, <2>15
    <3> HIDE DEF a
    <3>3. verifier' = [pc |-> "head", item |-> verifier.item, candidate |-> c,
                       done |-> a, left |-> Tail(verifier.left), pending |-> verifier.pending]
      BY <2>6 DEF a
    <3> QED
      BY <2>3, <2>8, <2>10, <3>1, <3>2, <3>3 DEF Verifying, Found, Settled
  <2> QED
    BY <1>o, <2>3, <2>11, <2>16
<1>7. ASSUME CheckHead PROVE WorkInv'
  <2>1. CASE assertHead /\ Goes("after") /\ UNCHANGED <<evidence, head, dirty>>
    <3>1. Verifying(verifier) /\ verifier.pc = "head" /\ head = verifier.candidate
      BY <1>7, <1>k, <2>1 DEF CheckHead, assertHead
    <3>2. \A n \in DOMAIN verifier.done : verifier.done[n].on[1] = verifier.candidate
      <4>1. \A n \in DOMAIN verifier.done : verifier.done[n].on[1] \in Nat
        <5>1. \A n \in DOMAIN verifier.done : verifier.done[n] \in Entry
          BY <3>1 DEF Verifying
        <5> QED
          BY <5>1 DEF Entry
      <4> QED
        BY <3>1, <4>1, <1>t DEF Verifying, Found
    <3>3. Verifying(verifier)'
      BY <1>g, <2>1, <3>1, <3>2 DEF Verifying, Found, Settled
    <3> QED
      BY <1>o, <1>s, <2>1, <3>3
  <2> QED
    BY <1>7, <1>r, <2>1 DEF CheckHead
<1>8. ASSUME CheckAfter PROVE WorkInv'
  <2> DEFINE pc == IF ~verifier.done[Len(verifier.done)].passed \/ verifier.left = <<>> THEN "persist" ELSE "gate"
  <2>1. CASE leftClean /\ Goes(pc) /\ UNCHANGED <<evidence, head, dirty>>
    <3>1. Verifying(verifier) /\ verifier.pc = "after" /\ ~dirty
      BY <1>8, <1>k, <2>1 DEF CheckAfter, leftClean, assertClean
    <3>2. \A n \in DOMAIN verifier.done : Settled(verifier.candidate, verifier.done[n])
      BY <3>1 DEF Verifying, Found, Settled
    <3>3. PICK p : p = pc
      OBVIOUS
    <3>4. p \in {"persist", "gate"} /\ (p = "gate" => verifier.left # <<>>)
      BY <3>3
    <3> HIDE DEF pc
    <3>5. Verifying(verifier)'
      BY <1>g, <2>1, <3>1, <3>2, <3>3, <3>4 DEF Verifying, Found, Settled
    <3> QED
      BY <1>o, <1>s, <2>1, <3>5
  <2> QED
    BY <1>8, <1>r, <2>1 DEF CheckAfter
<1>9. ASSUME PutEvidenceBundle PROVE WorkInv'
  <2>1. Verifying(verifier) /\ verifier.pc = "persist"
    BY <1>9, <1>k DEF PutEvidenceBundle
  <2>2. CASE UNCHANGED <<head, dirty>> /\ (evidence' = evidence \/ evidence' = [evidence EXCEPT ![verifier.candidate] = verifier.done])
             /\ (verifier' = Unused \/ Goes("item"))
    <3>1. Goes("item") => Verifying(verifier)'
      BY <1>g, <2>1, <2>2 DEF Verifying, Found, Settled
    <3>2. PICK c, d : c = verifier.candidate /\ d = verifier.done
      OBVIOUS
    <3>3. c \in 0..MaxHead /\ EvidenceKept(c, d) /\ d \in Seq(Entry)
      BY <2>1, <3>2 DEF Verifying, EvidenceKept
    <3>4. Onward
      BY <1>s, <2>2
    <3>5. CASE evidence' = [evidence EXCEPT ![c] = d]
      <4>1. evidence' \in [0..MaxHead -> Seq(Entry)]
        BY <1>t, <3>3, <3>5
      <4>2. ASSUME NEW h \in 0..MaxHead PROVE EvidenceKept(h, evidence[h])'
        <5>1. PICK es : es = evidence'[h] /\ EvidenceKept(h, es)
          BY <1>e, <1>t, <3>3, <3>5
        <5>2. EvidenceKept(h, es)'
          BY <3>4, <5>1, EvidenceOnward
        <5> QED
          BY <5>1, <5>2 DEF EvidenceKept
      <4> QED
        BY <1>h, <2>2, <3>1, <3>4, <4>1, <4>2 DEF WorkInv
    <3> QED
      BY <1>o, <2>2, <3>1, <3>2, <3>4, <3>5
  <2> QED
    BY <1>9, <1>r, <2>2 DEF PutEvidenceBundle
<1>10. ASSUME PutWorkItem PROVE WorkInv'
  BY <1>10, <1>o, <1>r, <1>s DEF PutWorkItem
<1>11. ASSUME UNCHANGED workVars PROVE WorkInv'
  BY <1>11, <1>o, <1>s DEF workVars
<1> QED
  BY <1>1, <1>2, <1>3, <1>4, <1>5, <1>6, <1>7, <1>8, <1>9, <1>10, <1>11 DEF WorkNext

(* Verify: for every number of commits, claims, gates and verifications,   *)
(* evidence about a commit was found by gates that ran on it, and on       *)
(* nothing else as long as it is the last commit.                          *)
THEOREM EvidenceBound == WorkSpec => []EvidenceOfCommit
<1>1. WorkInit => WorkInv
  <2> SUFFICES ASSUME WorkInit PROVE WorkInv
    OBVIOUS
  <2>1. \A h \in 0..MaxHead : EvidenceKept(h, <<>>)
    BY DEF EvidenceKept
  <2> QED
    BY <2>1 DEF WorkInit, WorkInv
<1>2. WorkInv => EvidenceOfCommit
  BY DEF WorkInv, EvidenceKept, Settled, EvidenceOfCommit
<1> QED
  BY <1>1, <1>2, WorkStep, PTL DEF WorkSpec

-----------------------------------------------------------------------------
(* Secrets.                                                                *)

SecretsSpec == SecretsInit /\ [][SecretsNext]_secretsVars

IsRow(x) == x = [version |-> x.version, key |-> x.key, active |-> x.active] /\ x.version \in Nat \ {0}

(* A row of the values: the one that is active and the last.               *)
Current(x) ==
    /\ x.active /\ \A y \in values : y.active => y = x
    /\ \A y \in values : y.version <= x.version

(* The versions are numbered without a gap, so that one more than a version*)
(* that was read and that is not there is the next.                        *)
ValuesInv ==
    /\ reference \in {"absent", "stored", "deleted"}
    /\ reference = "absent" <=> values = {}
    /\ \A x \in values : IsRow(x) /\ x.active \in BOOLEAN
    /\ \A x \in values : \A n \in 1..x.version : \E y \in values : y.version = n
    /\ values # {} => \E x \in values : Current(x)

InTransaction == {"begin", "wait", "insert", "commit"}

RotationInv(c) ==
    /\ c.pc \in {"request", "rotate", "begin", "wait", "insert", "commit", "done"} /\ "pc" \in DOMAIN c
    /\ c.pc \notin {"request", "done"} => reference # "absent"
    /\ c.pc \in InTransaction =>
          /\ "row" \in DOMAIN c /\ IsRow(c.row) /\ c.row.active = TRUE
          /\ \E y \in values : c.row.version = y.version + 1
    /\ c.pc \in InTransaction \ {"begin"} => "sees" \in DOMAIN c
    /\ c.pc = "commit" => ~Conflict(c)

SecretsInv ==
    /\ ValuesInv
    /\ rotation = [r \in Rotation |-> rotation[r]]
    /\ \A r \in Rotation : RotationInv(rotation[r])
    /\ \A r, s \in Rotation : rotation[r].pc \in {"insert", "commit"} /\ rotation[s].pc \in {"insert", "commit"} => r = s

(* Max of a set that has a greatest number.                                *)
LEMMA MaxIs ==
    ASSUME NEW S \in SUBSET Nat, NEW m \in S, \A y \in S : y <= m
    PROVE  Max(S) = m
<1>1. \E x \in S : \A y \in S : x >= y
  OBVIOUS
<1>2. Max(S) \in S /\ \A y \in S : Max(S) >= y
  BY <1>1 DEF Max
<1>3. Max(S) \in Nat /\ Max(S) >= m /\ Max(S) <= m
  BY <1>2
<1> HIDE DEF Max
<1> QED
  BY <1>3

(* The last version is the current value's.                                *)
LEMMA LastIs ==
    ASSUME ValuesInv, NEW x \in values, Current(x)
    PROVE  LastVersion = x.version
<1> DEFINE S == { y.version : y \in values } \cup {0}
<1>1. S \in SUBSET Nat /\ x.version \in S /\ \A y \in S : y <= x.version
  BY DEF ValuesInv, IsRow, Current
<1> QED
  BY <1>1, MaxIs DEF LastVersion

(* A step of one rotation that leaves the values: the others are as they   *)
(* were, and no other one is in the writes of its transaction.             *)
LEMMA OneRotates ==
    ASSUME SecretsInv, UNCHANGED <<reference, values>>, NEW r \in Rotation, NEW c,
           rotation' = [rotation EXCEPT ![r] = c], RotationInv(c),
           c.pc \in {"insert", "commit"} =>
              \A o \in Rotation \ {r} : rotation[o].pc \notin {"insert", "commit"}
    PROVE  SecretsInv'
<1>1. /\ rotation = [o \in Rotation |-> rotation[o]]
      /\ \A o \in Rotation : RotationInv(rotation[o])
      /\ \A o, s \in Rotation : rotation[o].pc \in {"insert", "commit"} /\ rotation[s].pc \in {"insert", "commit"} => o = s
  BY DEF SecretsInv
<1>2. rotation'[r] = c /\ \A o \in Rotation \ {r} : rotation'[o] = rotation[o]
  BY <1>1
<1>3. rotation' = [o \in Rotation |-> rotation'[o]]
  BY <1>1
<1>4. \A b : RotationInv(b)' <=> RotationInv(b)
  BY DEF RotationInv, Conflict
<1>5. ASSUME NEW o \in Rotation PROVE RotationInv(rotation[o])'
  <2>1. PICK b : b = rotation'[o] /\ RotationInv(b)
    BY <1>1, <1>2
  <2>2. RotationInv(b)'
    BY <1>4, <2>1
  <2> QED
    BY <2>1, <2>2 DEF RotationInv, Conflict
<1>6. ValuesInv'
  BY DEF SecretsInv, ValuesInv, Current
<1>7. \A o, s \in Rotation : rotation'[o].pc \in {"insert", "commit"} /\ rotation'[s].pc \in {"insert", "commit"} => o = s
  BY <1>1, <1>2
<1> QED
  BY <1>3, <1>5, <1>6, <1>7 DEF SecretsInv

(* Moves changes where a rotation is and nothing it has read.              *)
LEMMA MovesTo ==
    ASSUME SecretsInv, NEW r \in Rotation, NEW pc, Moves(r, pc)
    PROVE  \E c : /\ rotation' = [rotation EXCEPT ![r] = c] /\ c.pc = pc /\ DOMAIN c = DOMAIN rotation[r]
                  /\ "row" \in DOMAIN rotation[r] => c.row = rotation[r].row
                  /\ "sees" \in DOMAIN rotation[r] => c.sees = rotation[r].sees
<1> DEFINE c == [rotation[r] EXCEPT !.pc = pc]
<1>1. "pc" \in DOMAIN rotation[r]
  BY DEF SecretsInv, RotationInv
<1>2. rotation' = [rotation EXCEPT ![r] = c]
  BY DEF Moves
<1>3. c.pc = pc /\ DOMAIN c = DOMAIN rotation[r]
  BY <1>1
<1>4. ("row" \in DOMAIN rotation[r] => c.row = rotation[r].row) /\ ("sees" \in DOMAIN rotation[r] => c.sees = rotation[r].sees)
  OBVIOUS
<1> QED
  BY <1>2, <1>3, <1>4

(* A row follows the current one: it takes over as the active value, and   *)
(* every older version is kept, inactive, with the key that decrypts it.   *)
Appends(m, row) ==
    /\ Current(m) /\ IsRow(row) /\ row.active = TRUE /\ row.version = m.version + 1
    /\ \A x \in values : \E y \in values' : y.version = x.version /\ y.key = x.key /\ y.active = FALSE
    /\ \A y \in values' : y = row \/ (IsRow(y) /\ y.active = FALSE /\ \E x \in values : y.version = x.version)

(* The commit of a rotation appends: its row is the next version and the   *)
(* active one, and what it replaces stays, with its key.                   *)
LEMMA CommitAppends ==
    ASSUME SecretsInv, NEW r \in Rotation, CommitRotation(r)
    PROVE  \E m \in values, row \in values' : Appends(m, row)
<1>v. ValuesInv
  BY DEF SecretsInv
<1>1. PICK row, sees : row = rotation[r].row /\ sees = rotation[r].sees
  OBVIOUS
<1> DEFINE off(x) == [x EXCEPT !.active = @ /\ x.version \notin sees]
<1>2. values' = { off(x) : x \in values } \cup {row}
  BY <1>1 DEF CommitRotation
<1>3. /\ IsRow(row) /\ row.active = TRUE /\ \E y \in values : row.version = y.version + 1
      /\ \A x \in values : x.version # row.version /\ (x.active => x.version \in sees)
      /\ reference # "absent"
  <2>1. rotation[r].pc = "commit" /\ RotationInv(rotation[r])
    BY DEF CommitRotation, SecretsInv
  <2> QED
    BY <1>1, <2>1 DEF RotationInv, InTransaction, Conflict
<1>4. ASSUME NEW x \in values
      PROVE  off(x).version = x.version /\ off(x).key = x.key /\ IsRow(off(x)) /\ off(x).active = FALSE
  <2>1. IsRow(x) /\ x.active \in BOOLEAN
    BY <1>v DEF ValuesInv
  <2>2. (x.active /\ x.version \notin sees) = FALSE
    BY <1>3, <2>1
  <2>3. off(x) = [x EXCEPT !.active = FALSE]
    BY <2>2
  <2>4. [x EXCEPT !.active = FALSE] = [version |-> x.version, key |-> x.key, active |-> FALSE]
    <3>1. \A f : [x EXCEPT !.active = f] = [version |-> x.version, key |-> x.key, active |-> f]
      BY <2>1 DEF IsRow
    <3> QED
      BY <3>1, Zenon
  <2> QED
    BY <2>1, <2>3, <2>4 DEF IsRow
<1> HIDE DEF off
<1>5. row.version \in Nat \ {0} /\ \A x \in values : x.version \in Nat \ {0}
  BY <1>v, <1>3 DEF ValuesInv, IsRow
<1>6. PICK m \in values : Current(m)
  BY <1>v, <1>3 DEF ValuesInv
<1>7. row.version = m.version + 1
  <2>1. PICK y \in values : row.version = y.version + 1
    BY <1>3
  <2>2. y.version <= m.version
    BY <1>6 DEF Current
  <2>3. ASSUME row.version <= m.version PROVE FALSE
    <3>1. row.version \in 1..m.version
      BY <1>5, <2>3
    <3>2. \E z \in values : z.version = row.version
      BY <1>v, <3>1 DEF ValuesInv
    <3> QED
      BY <1>3, <3>2
  <2> QED
    BY <1>5, <2>1, <2>2, <2>3
<1>8. row \in values' /\ \A x \in values : off(x) \in values'
  BY <1>2
<1>9. \A y \in values' : y = row \/ \E x \in values : y = off(x)
  BY <1>2
<1>10. \A x \in values : \E y \in values' : y.version = x.version /\ y.key = x.key /\ y.active = FALSE
  BY <1>4, <1>8
<1>11. \A y \in values' : y = row \/ (IsRow(y) /\ y.active = FALSE /\ \E x \in values : y.version = x.version)
  BY <1>4, <1>9
<1> QED
  BY <1>3, <1>6, <1>7, <1>8, <1>10, <1>11 DEF Appends

(* Every step of a rotation, a deletion, the key ring or a restart keeps   *)
(* one current value.                                                      *)
LEMMA SecretsStep == SecretsInv /\ [SecretsNext]_secretsVars => SecretsInv'
<1> SUFFICES ASSUME SecretsInv, [SecretsNext]_secretsVars PROVE SecretsInv'
  OBVIOUS
<1>v. ValuesInv /\ rotation = [r \in Rotation |-> rotation[r]]
  BY DEF SecretsInv
<1>r. \A r \in Rotation : RotationInv(rotation[r])
  BY DEF SecretsInv
<1>x. \A r, s \in Rotation : rotation[r].pc \in {"insert", "commit"} /\ rotation[s].pc \in {"insert", "commit"} => r = s
  BY DEF SecretsInv
<1>0. ASSUME UNCHANGED <<reference, values, rotation>> PROVE SecretsInv'
  <2>1. ValuesInv'
    BY <1>0, <1>v DEF ValuesInv, Current
  <2>2. \A r \in Rotation : RotationInv(rotation[r])'
    BY <1>0, <1>r DEF RotationInv, Conflict
  <2> QED
    BY <1>0, <1>v, <1>x, <2>1, <2>2 DEF SecretsInv
<1>1. ASSUME CreateSecret PROVE SecretsInv'
  <2>1. reference = "absent" /\ reference' = "stored" /\ values' = {Row(1)} /\ UNCHANGED <<rotation, keyring>>
    BY <1>1 DEF CreateSecret, Store
  <2>2. PICK x : x = Row(1)
    OBVIOUS
  <2>3. x = [version |-> 1, key |-> PrimaryID, active |-> TRUE]
    BY <2>2 DEF Row
  <2>4. x.version = 1 /\ x.active = TRUE /\ IsRow(x)
    BY <2>3 DEF IsRow
  <2>5. ValuesInv'
    <3>1. values' = {x}
      BY <2>1, <2>2
    <3>2. Current(x)'
      BY <2>4, <3>1 DEF Current
    <3>3. \A n \in 1..x.version : x.version = n
      BY <2>4
    <3> QED
      BY <2>1, <2>4, <3>1, <3>2, <3>3 DEF ValuesInv
  <2>6. \A r \in Rotation : rotation[r].pc \in {"request", "done"}
    BY <1>r, <2>1 DEF RotationInv
  <2>7. \A r \in Rotation : RotationInv(rotation[r])'
    BY <1>r, <2>1, <2>6 DEF RotationInv, InTransaction
  <2> QED
    BY <1>v, <1>x, <2>1, <2>5, <2>7 DEF SecretsInv
<1>2. ASSUME Delete PROVE SecretsInv'
  <2>1. reference' = reference \/ (reference = "stored" /\ reference' = "deleted")
    BY <1>2 DEF Delete, loadSecretReference
  <2>2. UNCHANGED <<values, rotation>>
    BY <1>2 DEF Delete
  <2>3. ValuesInv'
    BY <1>v, <2>1, <2>2 DEF ValuesInv, Current
  <2>4. \A r \in Rotation : RotationInv(rotation[r])'
    BY <1>r, <2>1, <2>2 DEF RotationInv, Conflict
  <2> QED
    BY <1>v, <1>x, <2>2, <2>3, <2>4 DEF SecretsInv
<1>3. ASSUME RestartWithKeys PROVE SecretsInv'
  <2>1. rotation' = [r \in Rotation |-> [pc |-> "done"]] /\ UNCHANGED <<reference, values>>
    BY <1>3 DEF RestartWithKeys
  <2>2. ValuesInv'
    BY <1>v, <2>1 DEF ValuesInv, Current
  <2>3. \A r \in Rotation : rotation'[r].pc = "done" /\ "pc" \in DOMAIN rotation'[r]
    BY <2>1
  <2>4. \A r \in Rotation : RotationInv(rotation[r])'
    BY <2>3 DEF RotationInv, InTransaction
  <2>5. rotation' = [r \in Rotation |-> rotation'[r]]
    BY <2>1
  <2> QED
    BY <2>2, <2>3, <2>4, <2>5 DEF SecretsInv
<1>4. ASSUME NEW r \in Rotation, RotateSecret(r) PROVE SecretsInv'
  <2>1. PICK pc \in {"rotate", "done"} : Moves(r, pc) /\ (pc = "rotate" => reference = "stored")
    BY <1>4 DEF RotateSecret, loadSecretReference
  <2>2. PICK c : rotation' = [rotation EXCEPT ![r] = c] /\ c.pc = pc /\ DOMAIN c = DOMAIN rotation[r]
    BY <2>1, MovesTo
  <2>3. RotationInv(c)
    BY <1>r, <2>1, <2>2 DEF RotationInv, InTransaction
  <2>4. UNCHANGED <<reference, values>>
    BY <1>4 DEF RotateSecret
  <2> QED
    BY <2>1, <2>2, <2>3, <2>4, OneRotates
<1>5. ASSUME NEW r \in Rotation, RotateReads(r) PROVE SecretsInv'
  <2>1. PICK c : /\ rotation' = [rotation EXCEPT ![r] = c]
                 /\ c = IF reference = "stored" THEN [pc |-> "begin", row |-> Row(LastVersion + 1)] ELSE [pc |-> "done"]
    BY <1>5 DEF RotateReads
  <2>2. UNCHANGED <<reference, values>>
    BY <1>5 DEF RotateReads
  <2>3. RotationInv(c)
    <3>1. CASE reference = "stored"
      <4>1. PICK x \in values : Current(x) /\ IsRow(x)
        BY <1>v, <3>1 DEF ValuesInv
      <4>2. LastVersion = x.version /\ x.version \in Nat
        BY <1>v, <4>1, LastIs DEF IsRow
      <4>3. PICK row : row = [version |-> x.version + 1, key |-> PrimaryID, active |-> TRUE]
        OBVIOUS
      <4>4. c = [pc |-> "begin", row |-> row]
        BY <2>1, <3>1, <4>2, <4>3 DEF Row
      <4>5. IsRow(row) /\ row.active = TRUE /\ row.version = x.version + 1
        BY <4>2, <4>3 DEF IsRow
      <4> QED
        BY <3>1, <4>1, <4>4, <4>5 DEF RotationInv, InTransaction
    <3>2. CASE reference # "stored"
      BY <2>1, <3>2 DEF RotationInv, InTransaction
    <3> QED
      BY <3>1, <3>2
  <2>4. c.pc \in {"begin", "done"}
    BY <2>1
  <2> QED
    BY <2>1, <2>2, <2>3, <2>4, OneRotates
<1>6. ASSUME NEW r \in Rotation, DeactivateSees(r) PROVE SecretsInv'
  <2>1. PICK c : /\ rotation' = [rotation EXCEPT ![r] = c]
                 /\ c = [pc |-> "wait", row |-> rotation[r].row, sees |-> { x.version : x \in values }]
    BY <1>6 DEF DeactivateSees
  <2>2. rotation[r].pc = "begin" /\ UNCHANGED <<reference, values>>
    BY <1>6 DEF DeactivateSees
  <2>3. RotationInv(c)
    BY <1>r, <2>1, <2>2 DEF RotationInv, InTransaction
  <2> QED
    BY <2>1, <2>2, <2>3, OneRotates
<1>7. ASSUME NEW r \in Rotation, Deactivate(r) PROVE SecretsInv'
  <2>1. PICK c : /\ rotation' = [rotation EXCEPT ![r] = c] /\ c.pc = "insert" /\ DOMAIN c = DOMAIN rotation[r]
                 /\ "row" \in DOMAIN rotation[r] => c.row = rotation[r].row
    BY <1>7, MovesTo DEF Deactivate
  <2>2. /\ rotation[r].pc = "wait" /\ UNCHANGED <<reference, values>>
        /\ \A o \in Rotation : rotation[o].pc \notin {"insert", "commit"}
    BY <1>7 DEF Deactivate
  <2>3. RotationInv(c)
    BY <1>r, <2>1, <2>2 DEF RotationInv, InTransaction
  <2> QED
    BY <2>1, <2>2, <2>3, OneRotates
<1>8. ASSUME NEW r \in Rotation, Insert(r) PROVE SecretsInv'
  <2>1. PICK pc \in {"done", "commit"} : Moves(r, pc) /\ (pc = "commit" => ~Conflict(rotation[r]))
    BY <1>8 DEF Insert
  <2>2. PICK c : /\ rotation' = [rotation EXCEPT ![r] = c] /\ c.pc = pc /\ DOMAIN c = DOMAIN rotation[r]
                 /\ "row" \in DOMAIN rotation[r] => c.row = rotation[r].row
                 /\ "sees" \in DOMAIN rotation[r] => c.sees = rotation[r].sees
    BY <2>1, MovesTo
  <2>3. rotation[r].pc = "insert" /\ UNCHANGED <<reference, values>>
    BY <1>8 DEF Insert
  <2>4. c.row = rotation[r].row /\ c.sees = rotation[r].sees
    BY <1>r, <2>2, <2>3 DEF RotationInv, InTransaction
  <2>5. RotationInv(c)
    BY <1>r, <2>1, <2>2, <2>3, <2>4 DEF RotationInv, InTransaction, Conflict
  <2>6. \A o \in Rotation \ {r} : rotation[o].pc \notin {"insert", "commit"}
    BY <1>x, <2>3
  <2> QED
    BY <2>2, <2>3, <2>5, <2>6, OneRotates
<1>10. ASSUME NEW r \in Rotation, Rollback(r) PROVE SecretsInv'
  <2>1. PICK c : rotation' = [rotation EXCEPT ![r] = c] /\ c.pc = "done" /\ DOMAIN c = DOMAIN rotation[r]
    BY <1>10, MovesTo DEF Rollback
  <2>2. RotationInv(c)
    BY <1>r, <2>1 DEF RotationInv, InTransaction
  <2>3. UNCHANGED <<reference, values>>
    BY <1>10 DEF Rollback
  <2> QED
    BY <2>1, <2>2, <2>3, OneRotates
<1>11. ASSUME NEW r \in Rotation, RotateAgain(r) PROVE SecretsInv'
  <2>1. RotationInv(Requested) /\ Requested.pc = "request"
    BY DEF RotationInv, Requested, InTransaction
  <2>2. rotation' = [rotation EXCEPT ![r] = Requested] /\ UNCHANGED <<reference, values>>
    BY <1>11 DEF RotateAgain
  <2> QED
    BY <2>1, <2>2, OneRotates
<1>9. ASSUME NEW r \in Rotation, CommitRotation(r) PROVE SecretsInv'
  <2>1. PICK c : rotation' = [rotation EXCEPT ![r] = c] /\ c.pc = "done" /\ DOMAIN c = DOMAIN rotation[r]
    BY <1>9, MovesTo DEF CommitRotation
  <2>a. PICK m \in values, row \in values' : Appends(m, row)
    BY <1>9, CommitAppends
  <2>2. /\ Current(m) /\ IsRow(row) /\ row.active = TRUE /\ row.version = m.version + 1
        /\ \A x \in values : \E y \in values' : y.version = x.version
        /\ \A y \in values' : y = row \/ (IsRow(y) /\ y.active = FALSE /\ \E x \in values : y.version = x.version)
    BY <2>a DEF Appends
  <2>3. UNCHANGED reference /\ reference # "absent"
    BY <1>9, <1>r DEF CommitRotation, RotationInv
  <2>4. m.version \in Nat \ {0} /\ row.version \in Nat /\ \A x \in values : x.version \in Nat /\ x.version <= m.version
    BY <1>v, <2>2 DEF ValuesInv, IsRow, Current
  <2>5. \A x \in values' : IsRow(x) /\ x.active \in BOOLEAN
    BY <2>2
  <2>6. ASSUME NEW n \in 1..row.version PROVE \E y \in values' : y.version = n
    <3>1. CASE n = row.version
      BY <2>2, <3>1
    <3>2. CASE n # row.version
      <4>1. n \in 1..m.version
        BY <2>2, <2>4, <3>2
      <4>2. PICK x \in values : x.version = n
        BY <1>v, <4>1 DEF ValuesInv
      <4> QED
        BY <2>2, <4>2
    <3> QED
      BY <3>1, <3>2
  <2>7. \A x \in values' : x.version \in Nat /\ x.version <= row.version
    BY <2>2, <2>4
  <2>8. \A x \in values' : \A n \in 1..x.version : \E y \in values' : y.version = n
    <3>1. \A x \in values' : \A n \in 1..x.version : n \in 1..row.version
      BY <2>4, <2>7
    <3> QED
      BY <2>6, <3>1
  <2>9. Current(row)'
    BY <2>2, <2>7 DEF Current
  <2>18. ValuesInv'
    BY <1>v, <2>2, <2>3, <2>5, <2>8, <2>9 DEF ValuesInv
  <2>19. rotation'[r] = c /\ \A o \in Rotation \ {r} : rotation'[o] = rotation[o]
    BY <1>v, <2>1
  <2>20. RotationInv(rotation[r])'
    BY <1>r, <2>1, <2>19 DEF RotationInv, InTransaction
  <2>21. ASSUME NEW o \in Rotation \ {r} PROVE RotationInv(rotation[o])'
    <3>1. rotation[o].pc # "commit" /\ RotationInv(rotation[o])
      BY <1>9, <1>r, <1>x DEF CommitRotation
    <3> QED
      BY <2>2, <2>3, <2>19, <3>1 DEF RotationInv
  <2>22. rotation' = [o \in Rotation |-> rotation'[o]]
    BY <1>v, <2>1
  <2>23. \A o, s \in Rotation : rotation'[o].pc \in {"insert", "commit"} /\ rotation'[s].pc \in {"insert", "commit"} => o = s
    BY <1>x, <2>1, <2>19
  <2> QED
    BY <2>18, <2>20, <2>21, <2>22, <2>23 DEF SecretsInv
<1>12. ASSUME DeleteSecret \/ Resolve \/ UNCHANGED secretsVars PROVE SecretsInv'
  BY <1>0, <1>12 DEF DeleteSecret, Resolve, secretsVars
<1> QED
  BY <1>1, <1>2, <1>3, <1>4, <1>5, <1>6, <1>7, <1>8, <1>9, <1>10, <1>11, <1>12 DEF SecretsNext

(* Overlapping, failed and cut off rotations leave the rows as SecretsInv  *)
(* says: numbered without a gap, the last of them active.                  *)
THEOREM SecretsInvariant == SecretsSpec => []SecretsInv
<1>1. SecretsInit => SecretsInv
  <2> SUFFICES ASSUME SecretsInit PROVE SecretsInv
    OBVIOUS
  <2>1. ValuesInv
    BY DEF SecretsInit, ValuesInv
  <2>2. \A r \in Rotation : rotation[r].pc = "request" /\ "pc" \in DOMAIN rotation[r]
    BY DEF SecretsInit, Requested
  <2>3. \A r \in Rotation : RotationInv(rotation[r])
    BY <2>2 DEF RotationInv, InTransaction
  <2>4. rotation = [r \in Rotation |-> rotation[r]]
    BY DEF SecretsInit
  <2> QED
    BY <2>1, <2>2, <2>3, <2>4 DEF SecretsInv
<1> QED
  BY <1>1, SecretsStep, PTL DEF SecretsSpec

(* Rotate: for every number of rotations that overlap, fail or are cut off,*)
(* a secret has one active value, the last one that was committed.         *)
THEOREM SecretHasOneValue == SecretsSpec => []OneActiveValue
<1>1. SecretsInv => OneActiveValue
  <2> SUFFICES ASSUME ValuesInv, reference # "absent" PROVE \E x \in values : Active = {x} /\ x.version = LastVersion
    BY DEF SecretsInv, OneActiveValue
  <2>1. PICK x \in values : Current(x)
    BY DEF ValuesInv
  <2>2. Active = {x}
    BY <2>1 DEF Active, Current
  <2> QED
    BY <2>1, <2>2, LastIs
<1> QED
  BY <1>1, SecretsInvariant, PTL

(* No rotation overwrites another (Rotate): the rows of a secret are a log *)
(* that a step leaves alone, starts at version 1, or appends the next      *)
(* version to.  A rotation that read a version that is no longer the last  *)
(* is refused by the unique index, and its value is never seen.            *)
THEOREM RotationsAppend ==
    SecretsSpec => [][\/ values = {} /\ \E row : IsRow(row) /\ row.version = 1 /\ values' = {row}
                      \/ \E m \in values, row \in values' : Appends(m, row)]_values
<1>1. ASSUME SecretsInv, [SecretsNext]_secretsVars
      PROVE  \/ UNCHANGED values
             \/ values = {} /\ \E row : IsRow(row) /\ row.version = 1 /\ values' = {row}
             \/ \E m \in values, row \in values' : Appends(m, row)
  <2>1. CASE CreateSecret
    <3>1. values = {} /\ values' = {Row(1)}
      BY <1>1, <2>1 DEF CreateSecret, Store, SecretsInv, ValuesInv
    <3>2. IsRow(Row(1)) /\ Row(1).version = 1
      BY DEF IsRow, Row
    <3> QED
      BY <3>1, <3>2
  <2>2. CASE \E r \in Rotation : CommitRotation(r)
    BY <1>1, <2>2, CommitAppends
  <2>3. CASE DeleteSecret \/ Delete \/ Resolve \/ RestartWithKeys \/ UNCHANGED secretsVars
    BY <2>3 DEF DeleteSecret, Delete, Resolve, RestartWithKeys, secretsVars
  <2>4. ASSUME NEW r \in Rotation,
               RotateSecret(r) \/ RotateReads(r) \/ DeactivateSees(r) \/ Deactivate(r) \/ Insert(r)
                  \/ Rollback(r) \/ RotateAgain(r)
        PROVE  UNCHANGED values
    BY <2>4 DEF RotateSecret, RotateReads, DeactivateSees, Deactivate, Insert, Rollback, RotateAgain
  <2> QED
    BY <1>1, <2>1, <2>2, <2>3, <2>4 DEF SecretsNext
<1> QED
  BY <1>1, SecretsInvariant, PTL DEF SecretsSpec

-----------------------------------------------------------------------------
(* Webhooks.                                                               *)

IntakeSpec == IntakeInit /\ [][IntakeNext]_intakeVars

WebhookMessage ==
    [subject : {"received", "processed", "failed"}, type : Types, payload : BOOLEAN, repo : BOOLEAN,
     source : {"github", "linear", "slack", "discord"} \cup Provider, issue : Issue]

(* Only an event as it was received names a repository.                    *)
Announced(m) == m \in WebhookMessage /\ (m.repo => m.subject = "received")

(* The message that is handled was counted and has not made its task.      *)
ToMake ==
    consumer.pc = "handle" /\ Message.repo => tasks[<<"github", Message.issue>>] < receipts[Message.issue]

IntakeInv ==
    /\ stream \in Seq(WebhookMessage) /\ \A n \in DOMAIN stream : Announced(stream[n])
    /\ consumer = [pc |-> consumer.pc] /\ (consumer.pc # "idle" => stream # <<>>)
    /\ tasks \in [Origin -> Nat] /\ receipts \in [Issue -> Nat]
    /\ \A i \in Issue : tasks[<<"github", i>>] <= receipts[i]
    /\ ToMake

(* One more task of an origin.                                             *)
LEMMA InsertOne ==
    ASSUME tasks \in [Origin -> Nat], NEW o, insertTask(o)
    PROVE  /\ tasks' \in [Origin -> Nat]
           /\ \A p \in Origin : tasks'[p] = IF p = o THEN tasks[p] + 1 ELSE tasks[p]
<1>1. tasks' = [tasks EXCEPT ![o] = tasks[o] + 1]
  BY DEF insertTask
<1>2. \A p \in Origin : tasks'[p] = IF p = o THEN tasks[p] + 1 ELSE tasks[p]
  BY <1>1
<1>3. \A p \in Origin : tasks[p] + 1 \in Nat
  OBVIOUS
<1>4. DOMAIN tasks' = Origin /\ tasks' = [p \in Origin |-> tasks'[p]]
  BY <1>1
<1>5. \A p \in Origin : tasks'[p] \in Nat
  BY <1>2, <1>3
<1> QED
  BY <1>2, <1>4, <1>5

(* What is appended to the stream is behind the message that is handled.   *)
LEMMA StreamGrows ==
    ASSUME IntakeInv, NEW m, Announced(m), stream' = Append(stream, m)
    PROVE  /\ stream' \in Seq(WebhookMessage) /\ \A n \in DOMAIN stream' : Announced(stream'[n])
           /\ stream' # <<>> /\ (stream # <<>> => Head(stream') = Head(stream))
<1>1. stream \in Seq(WebhookMessage) /\ m \in WebhookMessage /\ \A n \in DOMAIN stream : Announced(stream[n])
  BY DEF IntakeInv, Announced
<1>2. /\ DOMAIN stream = 1..Len(stream) /\ DOMAIN stream' = 1..(Len(stream) + 1) /\ Len(stream) \in Nat
      /\ stream'[Len(stream) + 1] = m /\ \A n \in 1..Len(stream) : stream'[n] = stream[n]
  BY <1>1
<1>3. \A n \in DOMAIN stream' : Announced(stream'[n])
  BY <1>1, <1>2
<1>4. stream' \in Seq(WebhookMessage) /\ stream' # <<>>
  BY <1>1
<1>5. stream # <<>> => Head(stream') = Head(stream)
  BY <1>1, <1>2, <1>4
<1> QED
  BY <1>3, <1>4, <1>5

(* Every step of a delivery, of a consumer or of a crash keeps what is     *)
(* known of the messages, the tasks and the receipts.                      *)
LEMMA IntakeStep == IntakeInv /\ [IntakeNext]_intakeVars => IntakeInv'
<1> SUFFICES ASSUME IntakeInv, [IntakeNext]_intakeVars PROVE IntakeInv'
  OBVIOUS
<1>t. /\ stream \in Seq(WebhookMessage) /\ \A n \in DOMAIN stream : Announced(stream[n])
      /\ consumer = [pc |-> consumer.pc] /\ (consumer.pc # "idle" => stream # <<>>)
      /\ tasks \in [Origin -> Nat] /\ receipts \in [Issue -> Nat]
      /\ \A i \in Issue : tasks[<<"github", i>>] <= receipts[i]
      /\ ToMake
  BY DEF IntakeInv
<1>o. \A i \in Issue : <<"github", i>> \in Origin
  BY DEF Origin, Origins
<1>h. stream # <<>> => Message \in WebhookMessage /\ Announced(Message) /\ Message.issue \in Issue
  <2>1. stream # <<>> => 1 \in DOMAIN stream /\ Head(stream) = stream[1]
    BY <1>t
  <2> QED
    BY <1>t, <2>1 DEF Message, Announced, WebhookMessage
<1>s. ASSUME NEW pc, Step(pc) PROVE consumer' = [pc |-> pc] /\ consumer'.pc = pc
  BY <1>s, <1>t DEF Step
<1>0. ASSUME UNCHANGED <<stream, consumer, tasks, receipts>> PROVE IntakeInv'
  BY <1>0, <1>t DEF IntakeInv, ToMake, Message
<1>1. ASSUME NEW m, Announced(m), stream' = Append(stream, m), UNCHANGED <<consumer, tasks, receipts>> PROVE IntakeInv'
  <2>1. /\ stream' \in Seq(WebhookMessage) /\ \A n \in DOMAIN stream' : Announced(stream'[n])
        /\ stream' # <<>> /\ (stream # <<>> => Head(stream') = Head(stream))
    BY <1>1, StreamGrows
  <2>2. ToMake'
    BY <1>1, <1>t, <2>1 DEF ToMake, Message
  <2> QED
    BY <1>1, <1>t, <2>1, <2>2 DEF IntakeInv
<1>2. ASSUME Send PROVE IntakeInv'
  <2>1. ASSUME NEW source \in {"github", "linear", "slack", "discord"} \cup Provider, NEW type \in Types, NEW i \in Issue
        PROVE  Announced(Received(source, type, i))
    BY DEF Announced, Received, WebhookMessage
  <2>2. ASSUME NEW source \in {"github", "linear", "slack", "discord"}, NEW type \in Types, NEW i \in Issue,
               publishWebhookEvent(source, type, i)
        PROVE  IntakeInv'
    BY <1>1, <2>1, <2>2 DEF publishWebhookEvent
  <2>3. ASSUME NEW i \in Issue, GitHubWebhook(i) \/ LinearWebhook(i) \/ SlackWebhook(i) \/ DiscordWebhook(i)
        PROVE  IntakeInv'
    BY <2>2, <2>3 DEF GitHubWebhook, LinearWebhook, SlackWebhook, DiscordWebhook, Types, IssueTypes
  <2>4. ASSUME NEW c \in Request, NEW p \in Provider, NEW i \in Issue, IntegrationWebhook(c, p, i)
        PROVE  IntakeInv'
    <3>1. PICK type \in extractLinearEventType(p) : stream' = Append(stream, Received(p, type, i))
      BY <2>4 DEF IntegrationWebhook
    <3>2. type \in Types
      BY DEF extractLinearEventType, Types, IssueTypes
    <3>3. UNCHANGED <<consumer, tasks, receipts>>
      BY <2>4 DEF IntegrationWebhook
    <3> QED
      BY <1>1, <2>1, <3>1, <3>2, <3>3
  <2> QED
    BY <1>2, <2>3, <2>4 DEF Send
<1>3. ASSUME NEW o, insertTask(o), \A i \in Issue : o # <<"github", i>>, UNCHANGED <<stream, consumer, receipts>>
      PROVE  IntakeInv'
  <2>1. tasks' \in [Origin -> Nat] /\ \A i \in Issue : tasks'[<<"github", i>>] = tasks[<<"github", i>>]
    BY <1>3, <1>t, <1>o, InsertOne
  <2>2. ToMake'
    BY <1>3, <1>t, <1>h, <2>1 DEF ToMake, Message
  <2> QED
    BY <1>3, <1>t, <2>1, <2>2 DEF IntakeInv
<1>4. ASSUME NEW c \in Request, HandleAtOnce(c) PROVE IntakeInv'
  <2>1. CASE LinearLookup(c) \/ Refused(c)
    BY <1>0, <2>1 DEF LinearLookup, Refused
  <2>2. CASE LinearInsert(c)
    BY <1>3, <2>2 DEF LinearInsert
  <2>3. CASE CommandCreate(c)
    BY <1>3, <2>3 DEF CommandCreate
  <2>4. CASE handleGenericWebhookTask(c)
    BY <1>3, <2>4 DEF handleGenericWebhookTask
  <2> QED
    BY <1>4, <2>1, <2>2, <2>3, <2>4 DEF HandleAtOnce
<1>5. ASSUME ChangeIntegrations PROVE IntakeInv'
  BY <1>0, <1>5 DEF ChangeIntegrations, CreateIntegration, UpdateIntegration, DeleteIntegration, VerifyRead,
     VerifyWrite, Change
<1>6. ASSUME Receive PROVE IntakeInv'
  <2>1. stream # <<>> /\ Step("handle") /\ UNCHANGED <<stream, tasks>>
    BY <1>6 DEF Receive
  <2>2. PICK m : m = Message
    OBVIOUS
  <2>3. Announced(m) /\ m.issue \in Issue
    BY <1>h, <2>1, <2>2
  <2>4. receipts' = IF m.subject = "received" THEN [receipts EXCEPT ![m.issue] = @ + 1] ELSE receipts
    BY <1>6, <2>2 DEF Receive
  <2>5. /\ receipts' \in [Issue -> Nat] /\ \A i \in Issue : receipts'[i] >= receipts[i]
        /\ m.subject = "received" => receipts'[m.issue] = receipts[m.issue] + 1
    BY <1>t, <2>3, <2>4
  <2>6. Message' = m
    BY <2>1, <2>2 DEF Message
  <2>7. \A i \in Issue : tasks[<<"github", i>>] \in Nat /\ receipts[i] \in Nat /\ receipts'[i] \in Nat
    BY <1>t, <1>o, <2>5
  <2>8. \A i \in Issue : tasks'[<<"github", i>>] <= receipts'[i]
    <3>1. \A i \in Issue : tasks'[<<"github", i>>] = tasks[<<"github", i>>]
      BY <2>1
    <3>2. \A i \in Issue : tasks[<<"github", i>>] <= receipts[i] /\ receipts[i] <= receipts'[i]
      BY <1>t, <2>5, <2>7
    <3>3. \A a, b, c \in Nat : a <= b /\ b <= c => a <= c
      OBVIOUS
    <3> QED
      BY <2>7, <3>1, <3>2, <3>3
  <2>9. ToMake'
    BY <1>t, <2>1, <2>3, <2>5, <2>6, <2>7 DEF ToMake, Announced
  <2> QED
    BY <1>s, <1>t, <2>1, <2>5, <2>8, <2>9 DEF IntakeInv
<1>7. ASSUME createTask PROVE IntakeInv'
  <2>1. consumer.pc = "handle" /\ Step("announce") /\ UNCHANGED <<stream, receipts>>
    BY <1>7 DEF createTask
  <2>2. PICK m : m = Message
    OBVIOUS
  <2>3. Announced(m) /\ m.issue \in Issue
    BY <1>h, <1>t, <2>1, <2>2
  <2>4. PICK o \in TaskOf(m) : insertTask(o)
    BY <1>7, <2>2 DEF createTask
  <2>5. (o = <<"github", m.issue>> /\ m.repo) \/ \A i \in Issue : o # <<"github", i>>
    BY <2>4 DEF TaskOf, handleGitHub, handleLinear
  <2>6. /\ tasks' \in [Origin -> Nat]
        /\ \A p \in Origin : tasks'[p] = IF p = o THEN tasks[p] + 1 ELSE tasks[p]
    BY <1>t, <2>4, InsertOne
  <2>7. ASSUME NEW i \in Issue PROVE tasks'[<<"github", i>>] <= receipts[i]
    <3>1. CASE o = <<"github", i>>
      <4>1. i = m.issue /\ m.repo
        BY <2>5, <3>1
      <4>2. tasks[<<"github", i>>] < receipts[i]
        BY <1>t, <2>1, <2>2, <4>1 DEF ToMake
      <4>3. tasks'[<<"github", i>>] = tasks[<<"github", i>>] + 1 /\ tasks[<<"github", i>>] \in Nat /\ receipts[i] \in Nat
        BY <1>t, <1>o, <2>6, <3>1
      <4> QED
        BY <4>2, <4>3
    <3>2. CASE o # <<"github", i>>
      BY <1>t, <1>o, <2>6, <3>2
    <3> QED
      BY <3>1, <3>2
  <2>8. consumer' = [pc |-> "announce"] /\ consumer'.pc = "announce" /\ stream # <<>>
    BY <1>s, <1>t, <2>1
  <2>9. ToMake'
    BY <2>8 DEF ToMake
  <2> QED
    BY <1>t, <2>1, <2>6, <2>7, <2>8, <2>9 DEF IntakeInv
<1>8. ASSUME NEW pc, pc # "handle", Step(pc), consumer.pc # "idle", UNCHANGED <<tasks, receipts, stream>> PROVE IntakeInv'
  <2>1. consumer' = [pc |-> pc] /\ consumer'.pc = pc /\ stream # <<>>
    BY <1>8, <1>s, <1>t
  <2>2. ToMake'
    BY <1>8, <2>1 DEF ToMake
  <2> QED
    BY <1>8, <1>t, <2>1, <2>2 DEF IntakeInv
<1>9. ASSUME Ignore \/ HandleFails \/ publishTaskCreated PROVE IntakeInv'
  BY <1>8, <1>9 DEF Ignore, HandleFails, publishTaskCreated
<1>10. ASSUME publishWebhookProcessed \/ publishWebhookFailed PROVE IntakeInv'
  <2>1. Step("ack") /\ consumer.pc # "idle" /\ UNCHANGED <<tasks, receipts>>
    BY <1>10 DEF publishWebhookProcessed, publishWebhookFailed
  <2>2. stream # <<>> /\ Announced(Message) /\ consumer' = [pc |-> "ack"] /\ consumer'.pc = "ack"
    BY <1>h, <1>s, <1>t, <2>1
  <2>3. Announced(processed(Message)) /\ Announced(failed(Message))
    BY <2>2 DEF Announced, processed, failed, WebhookMessage
  <2>4. CASE UNCHANGED stream
    BY <1>8, <2>1, <2>4
  <2>5. ASSUME NEW m, Announced(m), stream' = Append(stream, m) PROVE IntakeInv'
    <3>1. /\ stream' \in Seq(WebhookMessage) /\ \A n \in DOMAIN stream' : Announced(stream'[n])
          /\ stream' # <<>>
      BY <2>5, StreamGrows
    <3>2. ToMake'
      BY <2>2 DEF ToMake
    <3> QED
      BY <1>t, <2>1, <2>2, <3>1, <3>2 DEF IntakeInv
  <2> QED
    BY <1>10, <2>3, <2>4, <2>5 DEF publishWebhookProcessed, publishWebhookFailed
<1>11. ASSUME consumer.pc # "idle", Step("idle"), UNCHANGED <<tasks, receipts>>,
              stream' = stream \/ stream' = Tail(stream) \/ stream' = Append(Tail(stream), Message)
       PROVE  IntakeInv'
  <2>1. stream # <<>> /\ Announced(Message) /\ consumer' = [pc |-> "idle"] /\ consumer'.pc = "idle"
    BY <1>11, <1>h, <1>s, <1>t
  <2>2. PICK m : m = Message /\ Announced(m) /\ m \in WebhookMessage
    BY <2>1, <1>h
  <2>3. /\ Tail(stream) \in Seq(WebhookMessage) /\ \A n \in DOMAIN Tail(stream) : Announced(Tail(stream)[n])
    <3>1. /\ Tail(stream) \in Seq(WebhookMessage) /\ Len(Tail(stream)) = Len(stream) - 1
          /\ \A n \in 1..(Len(stream) - 1) : Tail(stream)[n] = stream[n + 1] /\ n + 1 \in DOMAIN stream
      BY <1>t, <2>1
    <3> QED
      BY <1>t, <3>1
  <2>4. stream' \in Seq(WebhookMessage) /\ \A n \in DOMAIN stream' : Announced(stream'[n])
    <3>1. PICK s : s = Tail(stream)
      OBVIOUS
    <3>2. s \in Seq(WebhookMessage) /\ \A n \in DOMAIN s : Announced(s[n])
      BY <2>3, <3>1
    <3>3. CASE stream' = Append(s, m)
      <4>1. /\ DOMAIN s = 1..Len(s) /\ DOMAIN stream' = 1..(Len(s) + 1) /\ Len(s) \in Nat
            /\ stream'[Len(s) + 1] = m /\ \A n \in 1..Len(s) : stream'[n] = s[n]
            /\ stream' \in Seq(WebhookMessage)
        BY <2>2, <3>2, <3>3
      <4> QED
        BY <2>2, <3>2, <4>1
    <3> QED
      BY <1>11, <1>t, <2>2, <3>1, <3>2, <3>3
  <2>5. ToMake'
    BY <2>1 DEF ToMake
  <2> QED
    BY <1>11, <1>t, <2>1, <2>4, <2>5 DEF IntakeInv
<1>12. ASSUME ack \/ ConsumerCrash PROVE IntakeInv'
  BY <1>11, <1>12 DEF ack, ConsumerCrash
<1>13. ASSUME UNCHANGED intakeVars PROVE IntakeInv'
  BY <1>0, <1>13 DEF intakeVars
<1> QED
  BY <1>2, <1>4, <1>5, <1>6, <1>7, <1>9, <1>10, <1>12, <1>13 DEF IntakeNext, Handle

(* For every number of issues, events and crashes: the consumer makes at   *)
(* most one task of an issue of GitHub for each time its webhook was       *)
(* delivered, although it is delivered what it publishes itself.           *)
THEOREM OneTaskPerGitHubEvent == IntakeSpec => []GitHubTaskPerEvent
<1>1. IntakeInit => IntakeInv
  <2> SUFFICES ASSUME IntakeInit PROVE IntakeInv
    OBVIOUS
  <2>1. tasks = [o \in Origin |-> 0] /\ receipts = [i \in Issue |-> 0] /\ stream = <<>> /\ consumer = [pc |-> "idle"]
    BY DEF IntakeInit
  <2>2. \A i \in Issue : tasks[<<"github", i>>] <= receipts[i]
    BY <2>1 DEF Origin, Origins
  <2>3. ToMake
    BY <2>1 DEF ToMake
  <2> QED
    BY <2>1, <2>2, <2>3 DEF IntakeInv
<1>2. IntakeInv => GitHubTaskPerEvent
  BY DEF IntakeInv, GitHubTaskPerEvent, TasksWithin
<1> QED
  BY <1>1, <1>2, IntakeStep, PTL DEF IntakeSpec

-----------------------------------------------------------------------------
(* Specifications.                                                         *)

SpecsSpec == SpecsInit /\ [][SpecsNext]_specVars

(* What the generator writes: nothing in it blocks an approval.            *)
Usable(s) ==
    s # NoSpec /\ s.change \cup s.create # {} /\ s.criteria # {} /\ s.tests # {}

SpecsInv ==
    /\ draft = [status |-> draft.status, words |-> draft.words, remark |-> draft.remark, risk |-> draft.risk]
    /\ generation = [g \in Generation |-> [pc |-> generation[g].pc, task |-> generation[g].task,
                                           config |-> generation[g].config]]
    /\ spec = NoSpec \/ Usable(spec)
    /\ \A g \in Generation : generation[g].pc = "status" => spec # NoSpec
    /\ draft.status = "spec_review" /\ ~byHand => spec # NoSpec

(* Whatever the words of the task and the commands of the repository are.  *)
LEMMA GeneratedUsable == ASSUME NEW t, NEW c PROVE Usable(generateMVPSpec(t, c))
<1> DEFINE s == generateMVPSpec(t, c)
<1>1. /\ s.change = inferFilesToChange(t) /\ s.create = inferFilesToCreate(t)
      /\ s.criteria = buildAcceptanceCriteria(t) /\ s.tests = buildTestPlan(t, c)
  BY DEF generateMVPSpec
<1>2. s.criteria # {} /\ s.tests # {}
  BY <1>1 DEF buildAcceptanceCriteria, buildTestPlan
<1>3. s # NoSpec
  <2>1. NoSpec.criteria = {}
    BY DEF NoSpec
  <2> QED
    BY <1>2, <2>1
<1>4. CASE t.words \cap {"test", "docs"} = {}
  <2>1. <<"corresponding", "tests">> \in inferFilesToCreate(t)
    BY <1>4 DEF inferFilesToCreate
  <2> HIDE DEF s
  <2> QED
    BY <1>1, <1>2, <1>3, <2>1 DEF Usable, s
<1>5. CASE t.words \cap {"test", "docs"} # {}
  <2>1. PICK k \in {"test", "docs"} : k \in t.words
    BY <1>5
  <2>2. k \in ChangeKeywords
    BY DEF ChangeKeywords
  <2>3. <<"change", k>> \in inferFilesToChange(t)
    BY <2>1, <2>2 DEF inferFilesToChange
  <2> HIDE DEF s
  <2> QED
    BY <1>1, <1>2, <1>3, <2>3 DEF Usable, s
<1> QED
  BY <1>4, <1>5

(* A usable specification of a task that is not critical has no check that *)
(* blocks its runs.                                                        *)
LEMMA UsableCanRun ==
    ASSUME Usable(spec), NEW risk, risk # "critical"
    PROVE  assessTaskReadiness(risk) # "blocked"
<1>1. taskSpecCheck = "ready" /\ taskAcceptanceCheck = "ready" /\ taskVerificationCheck = "ready"
  BY DEF Usable, taskSpecCheck, taskAcceptanceCheck, taskVerificationCheck
<1>2. taskPlanCheck # "blocked" /\ taskScopeCheck # "blocked"
  BY DEF taskPlanCheck, taskScopeCheck
<1>3. taskRiskCheck(risk) # "blocked"
  BY DEF taskRiskCheck
<1> HIDE DEF taskSpecCheck, taskAcceptanceCheck, taskVerificationCheck, taskPlanCheck, taskScopeCheck, taskRiskCheck
<1>4. "blocked" \notin {taskSpecCheck, taskPlanCheck, taskScopeCheck, taskAcceptanceCheck,
                        taskVerificationCheck, taskRiskCheck(risk)}
  BY <1>1, <1>2, <1>3
<1> QED
  BY <1>4 DEF assessTaskReadiness, summarize

(* Every handler, and every step of a generation, keeps a usable           *)
(* specification or none.                                                  *)
LEMMA SpecsStep == SpecsInv /\ [SpecsNext]_specVars => SpecsInv'
<1> SUFFICES ASSUME SpecsInv, [SpecsNext]_specVars PROVE SpecsInv'
  OBVIOUS
<1> DEFINE DraftOK == draft' = [status |-> draft'.status, words |-> draft'.words, remark |-> draft'.remark, risk |-> draft'.risk]
           Kept    == generation' = [g \in Generation |-> [pc |-> generation'[g].pc, task |-> generation'[g].task,
                                                           config |-> generation'[g].config]]
<1>t. /\ draft = [status |-> draft.status, words |-> draft.words, remark |-> draft.remark, risk |-> draft.risk]
      /\ generation = [g \in Generation |-> [pc |-> generation[g].pc, task |-> generation[g].task,
                                             config |-> generation[g].config]]
      /\ spec = NoSpec \/ Usable(spec)
      /\ \A g \in Generation : generation[g].pc = "status" => spec # NoSpec
      /\ draft.status = "spec_review" /\ ~byHand => spec # NoSpec
  BY DEF SpecsInv
<1>q. DraftOK /\ Kept /\ (spec' = NoSpec \/ Usable(spec')) /\
      (\A g \in Generation : generation'[g].pc = "status" => spec' # NoSpec) /\
      (draft'.status = "spec_review" /\ ~byHand' => spec' # NoSpec) => SpecsInv'
  BY DEF SpecsInv, Usable
<1>g. ASSUME NEW g \in Generation, NEW pc, NEW task, NEW c, Generates(g, [pc |-> pc, task |-> task, config |-> c])
      PROVE  Kept /\ generation'[g].pc = pc /\ \A h \in Generation \ {g} : generation'[h] = generation[h]
  <2>1. DOMAIN generation = Generation
    BY <1>t
  <2>2. generation'[g] = [pc |-> pc, task |-> task, config |-> c] /\ \A h \in Generation \ {g} : generation'[h] = generation[h]
    BY <1>g, <2>1 DEF Generates
  <2>3. DOMAIN generation' = Generation /\ generation' = [h \in Generation |-> generation'[h]]
    BY <1>g, <2>1 DEF Generates
  <2>4. \A h \in Generation : generation'[h] = [pc |-> generation'[h].pc, task |-> generation'[h].task,
                                                config |-> generation'[h].config]
    BY <1>t, <2>2
  <2> QED
    BY <2>2, <2>3, <2>4
<1>w. Waiting = [pc |-> "idle", task |-> [words |-> {}, remark |-> {}], config |-> {}]
  BY DEF Waiting
<1>e. ASSUME NEW g \in Generation, NEW pc, NEW task, NEW c
      PROVE  /\ [generation[g] EXCEPT !.pc = pc] = [pc |-> pc, task |-> generation[g].task, config |-> generation[g].config]
             /\ [generation[g] EXCEPT !.pc = pc, !.task = task] = [pc |-> pc, task |-> task, config |-> generation[g].config]
             /\ [generation[g] EXCEPT !.pc = pc, !.config = c] = [pc |-> pc, task |-> generation[g].task, config |-> c]
  <2>1. PICK x : x = generation[g]
    OBVIOUS
  <2>2. x = [pc |-> x.pc, task |-> x.task, config |-> x.config]
    BY <1>t, <2>1
  <2>3. [x EXCEPT !.pc = pc] = [pc |-> pc, task |-> x.task, config |-> x.config]
    BY <2>2
  <2>d. \A y, p, t, k : y = [pc |-> p, task |-> t, config |-> k] <=> y \in [pc : {p}, task : {t}, config : {k}]
    OBVIOUS
  <2>m. x \in [pc : {x.pc}, task : {x.task}, config : {x.config}]
    BY <2>2, <2>d
  <2>4. [x EXCEPT !.pc = pc, !.task = task] = [pc |-> pc, task |-> task, config |-> x.config]
    <3>1. [x EXCEPT !.pc = pc, !.task = task] = [[x EXCEPT !.pc = pc] EXCEPT !.task = task]
      BY <2>2
    <3>2. PICK y : y = [x EXCEPT !.pc = pc]
      OBVIOUS
    <3> DEFINE F == [f \in {"pc", "task", "config"} |->
                       IF f = "pc" THEN pc ELSE IF f = "task" THEN task ELSE x.config]
    <3>3. [y EXCEPT !.task = task] = F
      BY ONLY <3>2, <2>3
    <3>4. [pc |-> pc, task |-> task, config |-> x.config] = F
      OBVIOUS
    <3> HIDE DEF F
    <3> QED
      BY <3>1, <3>2, <3>3, <3>4
  <2>5. [x EXCEPT !.pc = pc, !.config = c] = [pc |-> pc, task |-> x.task, config |-> c]
    <3>1. [x EXCEPT !.pc = pc, !.config = c] \in [pc : {pc}, task : {x.task}, config : {c}]
      BY <2>m
    <3> QED
      BY <3>1, <2>d
  <2> QED
    BY <2>1, <2>3, <2>4, <2>5
<1>u. (UNCHANGED draft => DraftOK) /\ (UNCHANGED generation => Kept)
  BY <1>t
<1> HIDE DEF DraftOK, Kept
<1>1. ASSUME CreateTask \/ CreateVoiceTask \/ CreateBriefHandoff PROVE SpecsInv'
  <2>1. PICK words, remark, risk : insertDraft(words, remark, risk)
    BY <1>1 DEF CreateTask, CreateVoiceTask, CreateBriefHandoff
  <2>2. draft' = [status |-> "backlog", words |-> words, remark |-> remark, risk |-> risk] /\ UNCHANGED <<spec, generation>>
    BY <2>1 DEF insertDraft
  <2>3. DraftOK /\ draft'.status = "backlog"
    BY <2>2 DEF DraftOK
  <2> QED
    BY <1>q, <1>t, <1>u, <2>2, <2>3
<1>2. ASSUME NEW g \in Generation, GenerateSpec(g) \/ LoadTask(g) \/ loadProjectConfig(g) PROVE SpecsInv'
  <2> DEFINE Goal(pc) == \E task, c : Generates(g, [pc |-> pc, task |-> task, config |-> c])
  <2>1. Goal("load") \/ Goal("config") \/ Goal("save")
    <3>1. CASE GenerateSpec(g)
      <4>1. Generates(g, [pc |-> "load", task |-> [words |-> {}, remark |-> {}], config |-> {}])
        BY <3>1, <1>w DEF GenerateSpec
      <4> QED
        BY <4>1
    <3>2. CASE LoadTask(g)
      <4>1. Generates(g, [pc |-> "config", task |-> [words |-> draft.words, remark |-> draft.remark],
                          config |-> generation[g].config])
        BY <3>2, <1>e DEF LoadTask
      <4> QED
        BY <4>1
    <3>3. CASE loadProjectConfig(g)
      <4>1. PICK c : Generates(g, [generation[g] EXCEPT !.pc = "save", !.config = c])
        BY <3>3 DEF loadProjectConfig
      <4>2. Generates(g, [pc |-> "save", task |-> generation[g].task, config |-> c])
        BY <4>1, <1>e
      <4> QED
        BY <4>2
    <3> QED
      BY <1>2, <3>1, <3>2, <3>3
  <2>2. UNCHANGED <<draft, byHand, spec>>
    BY <1>2 DEF GenerateSpec, LoadTask, loadProjectConfig
  <2>3. Kept /\ generation'[g].pc # "status" /\ \A h \in Generation \ {g} : generation'[h] = generation[h]
    <3>1. PICK pc : pc \in {"load", "config", "save"} /\ Goal(pc)
      BY <2>1
    <3>2. PICK task, c : Generates(g, [pc |-> pc, task |-> task, config |-> c])
      BY <3>1
    <3>3. Kept /\ generation'[g].pc = pc /\ \A h \in Generation \ {g} : generation'[h] = generation[h]
      BY <1>g, <3>2
    <3> QED
      BY <3>1, <3>3
  <2> QED
    BY <1>q, <1>t, <1>u, <2>2, <2>3
<1>3. ASSUME NEW g \in Generation, saveSpec(g) PROVE SpecsInv'
  <2>1. UNCHANGED <<draft, byHand>>
    BY <1>3 DEF saveSpec
  <2>2. CASE spec' = generateMVPSpec(generation[g].task, generation[g].config)
             /\ Generates(g, [generation[g] EXCEPT !.pc = "status"])
    <3>1. Usable(spec')
      BY <2>2, GeneratedUsable
    <3>2. Kept
      <4>1. Generates(g, [pc |-> "status", task |-> generation[g].task, config |-> generation[g].config])
        BY <1>e, <2>2
      <4> QED
        BY <1>g, <4>1
    <3>3. spec' # NoSpec
      BY <3>1 DEF Usable
    <3> QED
      BY <1>q, <1>u, <2>1, <3>1, <3>2, <3>3
  <2>3. CASE Generates(g, Waiting) /\ UNCHANGED spec
    BY <1>g, <1>w, <1>q, <1>t, <1>u, <2>1, <2>3
  <2> QED
    BY <1>3, <2>2, <2>3 DEF saveSpec
<1>4. ASSUME NEW g \in Generation, updateTaskStatus(g) PROVE SpecsInv'
  <2>1. generation[g].pc = "status" /\ UNCHANGED spec /\ Generates(g, Waiting)
    BY <1>4 DEF updateTaskStatus
  <2>2. spec # NoSpec
    BY <1>t, <2>1
  <2>3. DraftOK
    <3>1. CASE UNCHANGED draft
      BY <1>u, <3>1
    <3>2. CASE draft' = [draft EXCEPT !.status = "spec_review"]
      BY <1>t, <3>2 DEF DraftOK
    <3> QED
      BY <1>4, <3>1, <3>2 DEF updateTaskStatus
  <2> QED
    BY <1>g, <1>w, <1>q, <1>t, <2>1, <2>2, <2>3
<1>5. ASSUME ApproveSpec PROVE SpecsInv'
  <2>1. UNCHANGED <<spec, generation>>
    BY <1>5 DEF ApproveSpec
  <2>2. CASE UNCHANGED <<draft, byHand>>
    BY <1>q, <1>t, <1>u, <2>1, <2>2
  <2>3. CASE draft' = [draft EXCEPT !.status = "approved"]
    <3>1. DraftOK /\ draft'.status = "approved"
      BY <1>t, <2>3 DEF DraftOK
    <3> QED
      BY <1>q, <1>t, <1>u, <2>1, <3>1
  <2> QED
    BY <1>5, <2>2, <2>3 DEF ApproveSpec
<1>6. ASSUME UpdateTask PROVE SpecsInv'
  <2>1. PICK words, remark, risk :
           draft' = [status |-> IF update = "same" THEN draft.status ELSE update,
                     words |-> words, remark |-> remark, risk |-> risk]
    BY <1>6 DEF UpdateTask
  <2>2. UNCHANGED <<spec, generation>> /\ byHand' = IF update = "same" THEN byHand ELSE TRUE
    BY <1>6 DEF UpdateTask
  <2>3. DraftOK /\ (update = "same" => draft'.status = draft.status)
    BY <2>1 DEF DraftOK
  <2>4. draft'.status = "spec_review" /\ ~byHand' => spec' # NoSpec
    BY <1>t, <2>2, <2>3
  <2> QED
    BY <1>q, <1>t, <1>u, <2>2, <2>3, <2>4
<1>7. ASSUME ReadTaskToApprove \/ ReadTaskToUpdate \/ UNCHANGED specVars PROVE SpecsInv'
  <2>1. UNCHANGED <<draft, byHand, spec, generation>>
    BY <1>7 DEF ReadTaskToApprove, ReadTaskToUpdate, specVars
  <2> QED
    BY <1>q, <1>t, <1>u, <2>1
<1> QED
  BY <1>1, <1>2, <1>3, <1>4, <1>5, <1>6, <1>7 DEF SpecsNext

(* For every title, description and configuration, and with any number of  *)
(* specifications generated while the task is updated: a task the generator*)
(* put in review can be approved and its runs own something.               *)
THEOREM ReviewedTaskCanRun == SpecsSpec => []ReviewedCanRun
<1>1. SpecsInit => SpecsInv
  BY DEF SpecsInit, SpecsInv, Waiting
<1>2. SpecsInv => ReviewedCanRun
  <2> SUFFICES ASSUME SpecsInv, draft.status = "spec_review", ~byHand
               PROVE  /\ spec # NoSpec /\ loadTaskSpecOwnership # {}
                      /\ draft.risk # "critical" => assessTaskReadiness(draft.risk) # "blocked"
    BY DEF ReviewedCanRun
  <2>1. Usable(spec)
    BY DEF SpecsInv
  <2>2. draft.risk # "critical" => assessTaskReadiness(draft.risk) # "blocked"
    BY <2>1, UsableCanRun
  <2> QED
    BY <2>1, <2>2 DEF Usable, loadTaskSpecOwnership
<1> QED
  BY <1>1, <1>2, SpecsStep, PTL DEF SpecsSpec

-----------------------------------------------------------------------------
(* The callbacks.                                                          *)

CallbacksSpec == DeliveryInit /\ [][DeliveryNext]_deliveryVars

Called == [pc : {"call"}, task : Task, event : EventType, pull : Nat, attempt : Nat]
Chatting == [pc : {"chats"}, task : Task, left : SUBSET Chat]

(* What is told of happened: a call is of the last pull request of its     *)
(* task, and no other subscription calls about pull requests, or of a      *)
(* failure that was published.                                             *)
Founded(s, h) ==
    h.pc = "call" =>
       \/ h.event = "build.pr_created" /\ s = "approved" /\ h.pull = pulls[h.task].made /\ h.pull > 0
       \/ h.event = "build.failed" /\ s \in {"failed", "rejected"} /\ notices[<<s, h.task>>] > 0

MessagesKnown ==
    /\ notices \in [Subject \X Task -> Nat]
    /\ waiting \in [Subject -> Seq(Task)]
    /\ \A s \in Subject : \A i \in DOMAIN waiting[s] : notices[<<s, waiting[s][i]>>] > 0

PullsKnown == pulls \in [Task -> [made : Nat, open : BOOLEAN]]

HandlersKnown ==
    /\ handler \in [Subject -> {Quiet} \cup Called \cup Chatting]
    /\ \A s \in Subject : Founded(s, handler[s]) /\ (handler[s] # Quiet => waiting[s] # <<>>)

(* The receiver knows no pull request that is not made yet, and has not    *)
(* acted on the one it does not know.                                      *)
ReceiverKnown ==
    /\ receiver = [known |-> receiver.known, acts |-> receiver.acts]
    /\ receiver.acts \in [EventType \X Task -> Nat]
    /\ \A t \in Task :
          /\ \A n \in Nat : <<"build.pr_created", t, n>> \in receiver.known => n <= pulls[t].made
          /\ receiver.acts[<<"build.pr_created", t>>] <= pulls[t].made
          /\ pulls[t].made > 0 /\ <<"build.pr_created", t, pulls[t].made>> \notin receiver.known
                => receiver.acts[<<"build.pr_created", t>>] < pulls[t].made
          /\ receiver.acts[<<"build.failed", t>>] <= 1
          /\ <<"build.failed", t, 0>> \notin receiver.known => receiver.acts[<<"build.failed", t>>] = 0
          /\ receiver.acts[<<"build.failed", t>>] > 0 => notices[<<"failed", t>>] > 0 \/ notices[<<"rejected", t>>] > 0

CallbacksInv == MessagesKnown /\ PullsKnown /\ HandlersKnown /\ ReceiverKnown

(* A handler's step leaves the other subscriptions' handlers.              *)
LEMMA OneHandler ==
    ASSUME HandlersKnown, UNCHANGED <<pulls, notices>>, NEW s \in Subject,
           NEW h \in {Quiet} \cup Called \cup Chatting, Founded(s, h),
           handler' = [handler EXCEPT ![s] = h],
           \A x \in Subject \ {s} : waiting'[x] = waiting[x], h = Quiet \/ waiting'[s] # <<>>
    PROVE  HandlersKnown'
<1>1. handler' \in [Subject -> {Quiet} \cup Called \cup Chatting]
  BY DEF HandlersKnown
<1>2. \A x \in Subject : Founded(x, handler'[x])
  BY DEF HandlersKnown
<1>3. \A x \in Subject : Founded(x, handler[x])' <=> Founded(x, handler'[x])
  BY DEF Founded
<1>4. \A x \in Subject : handler'[x] # Quiet => waiting'[x] # <<>>
  BY DEF HandlersKnown
<1> QED
  BY <1>1, <1>2, <1>3, <1>4 DEF HandlersKnown

(* A message that is acknowledged leaves the others.                       *)
LEMMA OneLess ==
    ASSUME MessagesKnown, UNCHANGED notices, NEW s \in Subject,
           waiting' = [waiting EXCEPT ![s] = Tail(@)], waiting[s] # <<>>
    PROVE  MessagesKnown'
<1>1. waiting' \in [Subject -> Seq(Task)]
  BY DEF MessagesKnown
<1>2. ASSUME NEW x \in Subject, NEW i \in DOMAIN waiting'[x]
      PROVE  notices[<<x, waiting'[x][i]>>] > 0
  <2>1. CASE x # s
    BY <2>1 DEF MessagesKnown
  <2>2. CASE x = s
    <3>1. waiting[s] \in Seq(Task) /\ waiting'[s] = Tail(waiting[s])
      BY DEF MessagesKnown
    <3>2. \A q \in Seq(Task) : \A k : q # <<>> /\ k \in DOMAIN Tail(q) => k + 1 \in DOMAIN q /\ Tail(q)[k] = q[k + 1]
      OBVIOUS
    <3>3. i + 1 \in DOMAIN waiting[s] /\ waiting'[s][i] = waiting[s][i + 1]
      BY <3>1, <3>2, <2>2
    <3> QED
      BY <3>3, <2>2 DEF MessagesKnown
  <2> QED
    BY <2>1, <2>2
<1> QED
  BY <1>1, <1>2 DEF MessagesKnown

(* A handler at rest calls about nothing.                                  *)
LEMMA QuietFounded == ASSUME NEW s PROVE Founded(s, Quiet)
  BY DEF Founded, Quiet

(* Neither does one that tells the chats.                                  *)
LEMMA ChatFounded == ASSUME NEW s, NEW h \in Chatting PROVE Founded(s, h)
  BY DEF Founded, Chatting

(* To acknowledge, or to go on to the chats, or to call about what         *)
(* happened: what is known of messages and handlers stays so.              *)
LEMMA Handled ==
    ASSUME MessagesKnown, HandlersKnown, UNCHANGED <<pulls, notices>>, NEW s \in Subject, waiting[s] # <<>>,
           \/ Acknowledge(s)
           \/ /\ UNCHANGED waiting
              /\ \E h \in Called \cup Chatting : Founded(s, h) /\ handler' = [handler EXCEPT ![s] = h]
    PROVE  MessagesKnown' /\ HandlersKnown'
<1>1. CASE Acknowledge(s)
  <2>1. HandlersKnown'
    BY <1>1, OneHandler, QuietFounded DEF Acknowledge, MessagesKnown
  <2>2. MessagesKnown'
    BY <1>1, OneLess DEF Acknowledge
  <2> QED
    BY <2>1, <2>2
<1>2. CASE /\ UNCHANGED waiting
           /\ \E h \in Called \cup Chatting : Founded(s, h) /\ handler' = [handler EXCEPT ![s] = h]
  <2>1. MessagesKnown'
    BY <1>2 DEF MessagesKnown
  <2>2. HandlersKnown'
    BY <1>2, OneHandler
  <2> QED
    BY <2>1, <2>2
<1> QED
  BY <1>1, <1>2

(* The next message is about a task of which something was published.      *)
LEMMA HeadIs ==
    ASSUME MessagesKnown, NEW s \in Subject, waiting[s] # <<>>
    PROVE  Head(waiting[s]) \in Task /\ notices[<<s, Head(waiting[s])>>] > 0
<1>1. waiting[s] \in Seq(Task) /\ 1 \in DOMAIN waiting[s] /\ Head(waiting[s]) = waiting[s][1]
  BY DEF MessagesKnown
<1> QED
  BY <1>1 DEF MessagesKnown

(* A step that leaves the receiver, the pull requests and the notices      *)
(* leaves what is known of them.                                           *)
LEMMA ReceiverStays ==
    ASSUME ReceiverKnown, UNCHANGED <<receiver, pulls, notices>> PROVE ReceiverKnown'
  BY DEF ReceiverKnown

(* The receiver hears of something that happened: it has not acted on it   *)
(* if it does not know it.                                                 *)
LEMMA OneAct ==
    ASSUME CallbacksInv, UNCHANGED <<pulls, notices>>, NEW s \in Subject, handler[s].pc = "call",
           NEW c, c = handler[s], eventID(c) \notin receiver.known,
           receiver' = [known |-> receiver.known \cup {eventID(c)},
                        acts  |-> [receiver.acts EXCEPT ![<<c.event, c.task>>] = @ + 1]]
    PROVE  ReceiverKnown'
<1>1. c \in Called /\ Founded(s, c)
  BY DEF CallbacksInv, HandlersKnown, Called, Chatting, Quiet
<1>2. c.task \in Task /\ c.event \in EventType /\ c.pull \in Nat /\ c.pc = "call"
  BY <1>1 DEF Called
<1>3. /\ receiver.acts \in [EventType \X Task -> Nat]
      /\ pulls \in [Task -> [made : Nat, open : BOOLEAN]]
      /\ notices \in [Subject \X Task -> Nat]
  BY DEF CallbacksInv, ReceiverKnown, MessagesKnown, PullsKnown
<1>4. /\ receiver' = [known |-> receiver'.known, acts |-> receiver'.acts]
      /\ receiver'.acts = [receiver.acts EXCEPT ![<<c.event, c.task>>] = @ + 1]
      /\ receiver'.known = receiver.known \cup {eventID(c)}
  OBVIOUS
<1>5. receiver'.acts \in [EventType \X Task -> Nat]
  BY <1>2, <1>3, <1>4
<1>6. \A e \in EventType, t \in Task : receiver'.acts[<<e, t>>] =
         IF e = c.event /\ t = c.task THEN receiver.acts[<<e, t>>] + 1 ELSE receiver.acts[<<e, t>>]
  BY <1>2, <1>3, <1>4
<1>e. EventType = {"build.failed", "build.pr_created"}
  BY DEF EventType
<1>7. CASE c.event = "build.pr_created"
  <2>1. c.pull = pulls[c.task].made /\ c.pull > 0 /\ eventID(c) = <<"build.pr_created", c.task, c.pull>>
    BY <1>1, <1>2, <1>7 DEF Founded, eventID
  <2>2. \A t \in Task : /\ receiver'.acts[<<"build.failed", t>>] = receiver.acts[<<"build.failed", t>>]
                        /\ t # c.task => receiver'.acts[<<"build.pr_created", t>>] = receiver.acts[<<"build.pr_created", t>>]
    BY <1>6, <1>7, <1>e
  <2>3. receiver'.acts[<<"build.pr_created", c.task>>] = receiver.acts[<<"build.pr_created", c.task>>] + 1
    BY <1>6, <1>7, <1>2
  <2>4. receiver.acts[<<"build.pr_created", c.task>>] < pulls[c.task].made
    BY <2>1, <1>2 DEF CallbacksInv, ReceiverKnown
  <2>5. receiver'.acts[<<"build.pr_created", c.task>>] <= pulls[c.task].made
    BY <2>3, <2>4, <1>2, <1>3, <1>7
  <2>6. receiver'.known = receiver.known \cup {<<"build.pr_created", c.task, pulls[c.task].made>>}
    BY <1>4, <2>1
  <2>7. ASSUME NEW t \in Task
        PROVE  /\ \A n \in Nat : <<"build.pr_created", t, n>> \in receiver'.known => n <= pulls[t].made
               /\ receiver'.acts[<<"build.pr_created", t>>] <= pulls[t].made
               /\ pulls[t].made > 0 /\ <<"build.pr_created", t, pulls[t].made>> \notin receiver'.known
                     => receiver'.acts[<<"build.pr_created", t>>] < pulls[t].made
    <3>1. /\ \A n \in Nat : <<"build.pr_created", t, n>> \in receiver.known => n <= pulls[t].made
          /\ receiver.acts[<<"build.pr_created", t>>] <= pulls[t].made
          /\ pulls[t].made > 0 /\ <<"build.pr_created", t, pulls[t].made>> \notin receiver.known
                => receiver.acts[<<"build.pr_created", t>>] < pulls[t].made
      BY DEF CallbacksInv, ReceiverKnown
    <3>2. CASE t = c.task
      BY <3>1, <3>2, <2>5, <2>6, <1>3
    <3>3. CASE t # c.task
      BY <3>1, <3>3, <2>2, <2>6
    <3> QED
      BY <3>2, <3>3
  <2>8. ASSUME NEW t \in Task
        PROVE  /\ receiver'.acts[<<"build.failed", t>>] <= 1
               /\ <<"build.failed", t, 0>> \notin receiver'.known => receiver'.acts[<<"build.failed", t>>] = 0
               /\ receiver'.acts[<<"build.failed", t>>] > 0 => notices[<<"failed", t>>] > 0 \/ notices[<<"rejected", t>>] > 0
    BY <2>2, <2>6 DEF CallbacksInv, ReceiverKnown
  <2> QED
    BY <1>4, <1>5, <2>7, <2>8 DEF ReceiverKnown
<1>8. CASE c.event = "build.failed"
  <2>1. s \in {"failed", "rejected"} /\ notices[<<s, c.task>>] > 0 /\ eventID(c) = <<"build.failed", c.task, 0>>
    BY <1>1, <1>2, <1>8 DEF Founded, eventID
  <2>2. \A t \in Task : /\ receiver'.acts[<<"build.pr_created", t>>] = receiver.acts[<<"build.pr_created", t>>]
                        /\ t # c.task => receiver'.acts[<<"build.failed", t>>] = receiver.acts[<<"build.failed", t>>]
    BY <1>6, <1>8, <1>e
  <2>3. receiver'.acts[<<"build.failed", c.task>>] = receiver.acts[<<"build.failed", c.task>>] + 1
    BY <1>6, <1>8, <1>2
  <2>4. receiver.acts[<<"build.failed", c.task>>] = 0
    BY <2>1, <1>2 DEF CallbacksInv, ReceiverKnown
  <2>6. receiver'.known = receiver.known \cup {<<"build.failed", c.task, 0>>}
    BY <1>4, <2>1
  <2>7. ASSUME NEW t \in Task
        PROVE  /\ \A n \in Nat : <<"build.pr_created", t, n>> \in receiver'.known => n <= pulls[t].made
               /\ receiver'.acts[<<"build.pr_created", t>>] <= pulls[t].made
               /\ pulls[t].made > 0 /\ <<"build.pr_created", t, pulls[t].made>> \notin receiver'.known
                     => receiver'.acts[<<"build.pr_created", t>>] < pulls[t].made
    BY <2>2, <2>6 DEF CallbacksInv, ReceiverKnown
  <2>8. ASSUME NEW t \in Task
        PROVE  /\ receiver'.acts[<<"build.failed", t>>] <= 1
               /\ <<"build.failed", t, 0>> \notin receiver'.known => receiver'.acts[<<"build.failed", t>>] = 0
               /\ receiver'.acts[<<"build.failed", t>>] > 0 => notices[<<"failed", t>>] > 0 \/ notices[<<"rejected", t>>] > 0
    <3>1. CASE t = c.task
      BY <3>1, <2>1, <2>3, <2>4, <2>6
    <3>2. CASE t # c.task
      BY <3>2, <2>2, <2>6 DEF CallbacksInv, ReceiverKnown
    <3> QED
      BY <3>1, <3>2
  <2> QED
    BY <1>4, <1>5, <2>7, <2>8 DEF ReceiverKnown
<1> QED
  BY <1>2, <1>7, <1>8, <1>e

(* A pull request that is made is not known to the receiver.               *)
LEMMA OnePull ==
    ASSUME CallbacksInv, UNCHANGED <<notices, receiver>>, NEW t \in Task,
           pulls' = [pulls EXCEPT ![t] = [made |-> @.made + 1, open |-> TRUE]]
    PROVE  ReceiverKnown' /\ PullsKnown'
<1>1. /\ pulls \in [Task -> [made : Nat, open : BOOLEAN]]
      /\ receiver.acts \in [EventType \X Task -> Nat]
  BY DEF CallbacksInv, ReceiverKnown, PullsKnown
<1>2. PullsKnown' /\ pulls'[t].made = pulls[t].made + 1 /\ \A x \in Task \ {t} : pulls'[x] = pulls[x]
  BY <1>1 DEF PullsKnown
<1>3. \A x \in Task : <<"build.pr_created", x>> \in EventType \X Task
  BY DEF EventType
<1>4. ASSUME NEW x \in Task
      PROVE  /\ \A n \in Nat : <<"build.pr_created", x, n>> \in receiver.known => n <= pulls'[x].made
             /\ receiver.acts[<<"build.pr_created", x>>] <= pulls'[x].made
             /\ pulls'[x].made > 0 /\ <<"build.pr_created", x, pulls'[x].made>> \notin receiver.known
                   => receiver.acts[<<"build.pr_created", x>>] < pulls'[x].made
  <2>1. /\ \A n \in Nat : <<"build.pr_created", x, n>> \in receiver.known => n <= pulls[x].made
        /\ receiver.acts[<<"build.pr_created", x>>] <= pulls[x].made
        /\ pulls[x].made > 0 /\ <<"build.pr_created", x, pulls[x].made>> \notin receiver.known
              => receiver.acts[<<"build.pr_created", x>>] < pulls[x].made
    BY DEF CallbacksInv, ReceiverKnown
  <2>2. receiver.acts[<<"build.pr_created", x>>] \in Nat /\ pulls[x].made \in Nat
    BY <1>1, <1>3
  <2>3. CASE x = t
    BY <2>1, <2>2, <2>3, <1>2
  <2>4. CASE x # t
    BY <2>1, <2>4, <1>2
  <2> QED
    BY <2>3, <2>4
<1>5. ReceiverKnown'
  BY <1>4 DEF CallbacksInv, ReceiverKnown
<1> QED
  BY <1>2, <1>5

(* Every step keeps what is known of messages, handlers and the receiver.  *)
LEMMA CallbacksStep == CallbacksInv /\ [DeliveryNext]_deliveryVars => CallbacksInv'
<1> SUFFICES ASSUME CallbacksInv, [DeliveryNext]_deliveryVars PROVE CallbacksInv'
  OBVIOUS
<1> USE DEF CallbacksInv
<1>p. UNCHANGED pulls => PullsKnown'
  BY DEF PullsKnown
<1>w. waiting \in [Subject -> Seq(Task)] /\ handler \in [Subject -> {Quiet} \cup Called \cup Chatting]
  BY DEF MessagesKnown, HandlersKnown
<1>1. ASSUME NEW s \in Subject, NEW t \in Task, Notice(s, t) PROVE CallbacksInv'
  <2>1. /\ notices' = [notices EXCEPT ![<<s, t>>] = @ + 1]
        /\ waiting' = [waiting EXCEPT ![s] = Append(@, t)]
        /\ UNCHANGED <<handler, pulls, receiver>>
    BY <1>1 DEF Notice
  <2>2. notices' \in [Subject \X Task -> Nat] /\ notices'[<<s, t>>] > 0
        /\ \A x \in Subject \X Task : notices[x] > 0 => notices'[x] > 0
    BY <2>1 DEF MessagesKnown
  <2>3. waiting' \in [Subject -> Seq(Task)]
    BY <2>1 DEF MessagesKnown
  <2>4. ASSUME NEW x \in Subject, NEW i \in DOMAIN waiting'[x]
        PROVE  notices'[<<x, waiting'[x][i]>>] > 0
    <3>1. \A k \in DOMAIN waiting[x] : waiting[x][k] \in Task /\ notices[<<x, waiting[x][k]>>] > 0
      BY DEF MessagesKnown
    <3>2. CASE x # s
      BY <3>1, <3>2, <2>1, <2>2, <1>w
    <3>3. CASE x = s
      <4>1. \A q \in Seq(Task) : \A k \in DOMAIN Append(q, t) : (k \in DOMAIN q /\ Append(q, t)[k] = q[k]) \/ Append(q, t)[k] = t
        OBVIOUS
      <4>2. waiting'[x] = Append(waiting[x], t)
        BY <3>3, <2>1, <1>w
      <4>3. (i \in DOMAIN waiting[x] /\ waiting'[x][i] = waiting[x][i]) \/ waiting'[x][i] = t
        BY <4>1, <4>2, <1>w
      <4> QED
        BY <4>3, <3>1, <3>3, <2>2
    <3> QED
      BY <3>2, <3>3
  <2>5. MessagesKnown'
    BY <2>2, <2>3, <2>4 DEF MessagesKnown
  <2>6. \A x \in Subject : Founded(x, handler[x])'
    <3> SUFFICES ASSUME NEW x \in Subject PROVE Founded(x, handler[x])'
      OBVIOUS
    <3>1. Founded(x, handler[x]) /\ (handler[x].pc = "call" => handler[x] \in Called)
      BY <1>w DEF HandlersKnown, Called, Chatting, Quiet
    <3>2. handler[x].pc = "call" => handler[x].task \in Task
      BY <3>1 DEF Called
    <3> QED
      BY <3>1, <3>2, <2>1, <2>2 DEF Founded
  <2>7. \A x \in Subject : waiting[x] # <<>> => waiting'[x] # <<>>
    <3>1. \A q \in Seq(Task) : Append(q, t) # <<>>
      <4>1. \A q \in Seq(Task) : Len(Append(q, t)) = Len(q) + 1 /\ Len(q) \in Nat
        OBVIOUS
      <4>2. \A q \in Seq(Task) : Append(q, t) = <<>> => Len(Append(q, t)) = 0
        OBVIOUS
      <4> QED
        BY <4>1, <4>2
    <3>2. waiting'[s] = Append(waiting[s], t) /\ \A x \in Subject \ {s} : waiting'[x] = waiting[x]
      BY <2>1, <1>w
    <3> QED
      BY <3>1, <3>2, <1>w
  <2>8. HandlersKnown'
    BY <2>1, <2>6, <2>7 DEF HandlersKnown
  <2>9. ReceiverKnown'
    <3>1. \A x \in Task : <<"failed", x>> \in Subject \X Task /\ <<"rejected", x>> \in Subject \X Task
      BY DEF Subject
    <3>2. \A x \in Task : notices[<<"failed", x>>] > 0 \/ notices[<<"rejected", x>>] > 0
                            => notices'[<<"failed", x>>] > 0 \/ notices'[<<"rejected", x>>] > 0
      BY <3>1, <2>2
    <3> QED
      BY <3>2, <2>1 DEF ReceiverKnown
  <2> QED
    BY <2>5, <2>8, <2>9, <2>1, <1>p
<1>2. ASSUME NEW t \in Task, TaskDeleted(t) PROVE CallbacksInv'
  <2>1. UNCHANGED <<notices, waiting, handler, pulls, receiver>>
    BY <1>2 DEF TaskDeleted
  <2>2. MessagesKnown' /\ HandlersKnown'
    BY <2>1 DEF MessagesKnown, HandlersKnown, Founded
  <2> QED
    BY <2>1, <2>2, <1>p, ReceiverStays
<1>3. ASSUME NEW t \in Task, PullRequestClosed(t) PROVE CallbacksInv'
  <2>1. pulls' = [pulls EXCEPT ![t].open = FALSE] /\ UNCHANGED <<notices, waiting, handler, receiver>>
    BY <1>3 DEF PullRequestClosed, tidings
  <2>2. PullsKnown' /\ \A x \in Task : pulls'[x].made = pulls[x].made
    BY <2>1 DEF PullsKnown
  <2>3. MessagesKnown'
    BY <2>1 DEF MessagesKnown
  <2>4. \A x \in Subject : Founded(x, handler[x])'
    <3> SUFFICES ASSUME NEW x \in Subject PROVE Founded(x, handler[x])'
      OBVIOUS
    <3>1. Founded(x, handler[x]) /\ (handler[x].pc = "call" => handler[x] \in Called)
      BY <1>w DEF HandlersKnown, Called, Chatting, Quiet
    <3>2. handler[x].pc = "call" => handler[x].task \in Task
      BY <3>1 DEF Called
    <3> QED
      BY <3>1, <3>2, <2>1, <2>2 DEF Founded
  <2>5. HandlersKnown'
    BY <2>1, <2>4 DEF HandlersKnown
  <2>6. ReceiverKnown'
    BY <2>1, <2>2 DEF ReceiverKnown
  <2> QED
    BY <2>2, <2>3, <2>5, <2>6
<1>b. ASSUME NEW s \in Subject, NEW t \in Task, NEW e, NEW n, Begin(s, t, e, n),
             Calling(s, t, e, n) \in Called, Founded(s, Calling(s, t, e, n)), waiting[s] # <<>>,
             UNCHANGED <<pulls, notices>>
      PROVE  MessagesKnown' /\ HandlersKnown'
  <2>1. [pc |-> "chats", task |-> t, left |-> Chat] \in Chatting
    BY DEF Chatting
  <2>2. \/ Acknowledge(s)
        \/ /\ UNCHANGED waiting
           /\ \E h \in Called \cup Chatting : Founded(s, h) /\ handler' = [handler EXCEPT ![s] = h]
    BY <1>b, <2>1, ChatFounded DEF Begin
  <2> QED
    BY <1>b, <2>2, Handled
<1>4. ASSUME HandlePullRequestApproved PROVE CallbacksInv'
  <2> DEFINE t == Head(waiting["approved"])
             ok == "approved"
  <2>1. Pending(ok) /\ ok \in Subject /\ UNCHANGED <<notices, receiver>>
    BY <1>4 DEF HandlePullRequestApproved, tidings, Subject
  <2>2. waiting[ok] # <<>> /\ handler[ok] = Quiet
    BY <2>1 DEF Pending
  <2>3. t \in Task
    BY <2>1, <2>2, HeadIs
  <2>4. CASE Acknowledge(ok) /\ UNCHANGED pulls
    BY <2>1, <2>2, <2>4, Handled, ReceiverStays, <1>p
  <2>5. CASE /\ pulls' = [pulls EXCEPT ![t] = [made |-> @.made + 1, open |-> TRUE]]
             /\ Begin(ok, t, "build.pr_created", pulls[t].made + 1)
    <3>1. ReceiverKnown' /\ PullsKnown'
      BY <2>1, <2>3, <2>5, OnePull
    <3>2. pulls[t].made \in Nat /\ pulls'[t].made = pulls[t].made + 1
      BY <2>3, <2>5 DEF PullsKnown
    <3>3. PICK n : n = pulls[t].made + 1
      OBVIOUS
    <3>4. PICK x : x = t
      OBVIOUS
    <3> DEFINE c == Calling(ok, x, "build.pr_created", n)
    <3>5. c \in Called
      BY <2>3, <3>2, <3>3, <3>4 DEF Calling, Called, EventType
    <3>6. \/ Acknowledge(ok)
          \/ handler' = [handler EXCEPT ![ok] = c] /\ UNCHANGED waiting
      BY <2>5, <3>3, <3>4 DEF Begin
    <3>7. ASSUME NEW y \in Subject PROVE Founded(y, handler[y])'
      <4>1. CASE y = ok
        <5>1. handler'[ok] = Quiet \/ handler'[ok] = c
          BY <3>6, <2>1, <1>w DEF Acknowledge
        <5>2. Founded(ok, c)'
          BY <3>2, <3>3, <3>4 DEF Founded, Calling
        <5> QED
          BY <4>1, <5>1, <5>2 DEF Founded, Quiet
      <4>2. CASE y # ok
        <5>1. handler'[y] = handler[y]
          BY <4>2, <3>6, <1>w DEF Acknowledge
        <5>2. Founded(y, handler[y])
          BY DEF HandlersKnown
        <5> QED
          BY <4>2, <5>1, <5>2, <2>1 DEF Founded
      <4> QED
        BY <4>1, <4>2
    <3>8. handler' \in [Subject -> {Quiet} \cup Called \cup Chatting]
      BY <3>5, <3>6, <1>w DEF Acknowledge
    <3>9. \A y \in Subject : handler'[y] # Quiet => waiting'[y] # <<>>
      <4>1. CASE Acknowledge(ok)
        BY <4>1, <1>w DEF HandlersKnown, Acknowledge
      <4>2. CASE handler' = [handler EXCEPT ![ok] = c] /\ UNCHANGED waiting
        BY <4>2, <2>2, <1>w DEF HandlersKnown
      <4> QED
        BY <4>1, <4>2, <3>6
    <3>10. MessagesKnown'
      <4>1. CASE Acknowledge(ok)
        BY <4>1, <2>1, <2>2, OneLess DEF Acknowledge
      <4>2. CASE UNCHANGED waiting
        BY <4>2, <2>1 DEF MessagesKnown
      <4> QED
        BY <4>1, <4>2, <3>6
    <3> QED
      BY <3>1, <3>7, <3>8, <3>9, <3>10 DEF HandlersKnown
  <2> QED
    BY <1>4, <2>4, <2>5 DEF HandlePullRequestApproved
<1>5. ASSUME HandleApprovalRejected \/ HandleTaskFailed PROVE CallbacksInv'
  <2>1. PICK s \in {"rejected", "failed"} : Pending(s) /\ Begin(s, Head(waiting[s]), "build.failed", 0)
    BY <1>5 DEF HandleApprovalRejected, HandleTaskFailed
  <2>2. s \in Subject /\ waiting[s] # <<>> /\ UNCHANGED <<notices, pulls, receiver>>
    BY <1>5, <2>1 DEF HandleApprovalRejected, HandleTaskFailed, tidings, Subject, Pending
  <2>3. PICK t \in Task : t = Head(waiting[s]) /\ notices[<<s, t>>] > 0
    BY <2>2, HeadIs
  <2>4. Calling(s, t, "build.failed", 0) \in Called /\ Founded(s, Calling(s, t, "build.failed", 0))
    BY <2>1, <2>3 DEF Calling, Called, EventType, Founded
  <2> QED
    BY <1>b, <1>p, <2>1, <2>2, <2>3, <2>4, ReceiverStays
<1>6. ASSUME NEW s \in Subject, NEW arrives, NEW answer, Attempt(s, arrives, answer) PROVE CallbacksInv'
  <2>1. handler[s].pc = "call" /\ UNCHANGED <<notices, pulls>>
    BY <1>6 DEF Attempt, tidings
  <2>2. PICK c : c = handler[s]
    OBVIOUS
  <2>3. c \in Called /\ c # Quiet /\ Founded(s, c) /\ waiting[s] # <<>>
    BY <2>1, <2>2, <1>w DEF HandlersKnown, Called, Chatting, Quiet
  <2>4. c.task \in Task /\ c.attempt \in Nat /\ c.pc = "call"
    BY <2>3 DEF Called
  <2>5. ReceiverKnown'
    <3>1. \/ UNCHANGED receiver
          \/ /\ eventID(c) \notin receiver.known
             /\ receiver' = [known |-> receiver.known \cup {eventID(c)},
                             acts  |-> [receiver.acts EXCEPT ![<<c.event, c.task>>] = @ + 1]]
      BY <1>6, <2>2 DEF Attempt
    <3> QED
      BY <3>1, <2>1, <2>2, OneAct, ReceiverStays
  <2>6. \/ handler' = [handler EXCEPT ![s].attempt = @ + 1] /\ UNCHANGED waiting
        \/ Proceed(s)
    BY <1>6 DEF Attempt
  <2>7. \/ Acknowledge(s)
        \/ /\ UNCHANGED waiting
           /\ \E h \in Called \cup Chatting : Founded(s, h) /\ handler' = [handler EXCEPT ![s] = h]
    <3>1. CASE handler' = [handler EXCEPT ![s].attempt = @ + 1] /\ UNCHANGED waiting
      <4>1. [c EXCEPT !.attempt = @ + 1] \in Called /\ Founded(s, [c EXCEPT !.attempt = @ + 1])
        BY <2>3, <2>4 DEF Called, Founded
      <4>2. handler' = [handler EXCEPT ![s] = [c EXCEPT !.attempt = @ + 1]]
        BY <3>1, <2>2, <1>w
      <4> QED
        BY <4>1, <4>2, <3>1
    <3>2. CASE Proceed(s)
      <4>1. [pc |-> "chats", task |-> c.task, left |-> Chat] \in Chatting
        BY <2>4 DEF Chatting
      <4> QED
        BY <3>2, <4>1, <2>2, ChatFounded DEF Proceed
    <3> QED
      BY <3>1, <3>2, <2>6
  <2> QED
    BY <2>1, <2>3, <2>5, <2>7, <1>p, Handled
<1>7. ASSUME NEW s \in Subject, HandleForChats(s) PROVE CallbacksInv'
  <2>1. waiting[s] # <<>> /\ UNCHANGED <<notices, pulls, receiver, waiting>>
    BY <1>7 DEF HandleForChats, Pending, tidings
  <2>2. [pc |-> "chats", task |-> Head(waiting[s]), left |-> Chat] \in Chatting
    BY <2>1, HeadIs DEF Chatting
  <2>3. handler' = [handler EXCEPT ![s] = [pc |-> "chats", task |-> Head(waiting[s]), left |-> Chat]]
    BY <1>7 DEF HandleForChats
  <2> QED
    BY <2>1, <2>2, <2>3, ChatFounded, Handled, ReceiverStays, <1>p
<1>8. ASSUME NEW s \in Subject, NEW c \in Chat, SendTo(s, c) PROVE CallbacksInv'
  <2>1. handler[s].pc = "chats" /\ UNCHANGED <<notices, pulls, receiver, waiting>>
        /\ handler' = [handler EXCEPT ![s].left = @ \ {c}]
    BY <1>8 DEF SendTo, tidings
  <2>2. PICK h : h = handler[s]
    OBVIOUS
  <2>3. h \in Chatting /\ h # Quiet /\ waiting[s] # <<>>
    BY <2>1, <2>2, <1>w DEF HandlersKnown, Called, Chatting, Quiet
  <2>4. [h EXCEPT !.left = @ \ {c}] \in Chatting
    BY <2>3 DEF Chatting
  <2>5. handler' = [handler EXCEPT ![s] = [h EXCEPT !.left = @ \ {c}]]
    BY <2>1, <2>2, <1>w
  <2> QED
    BY <2>1, <2>3, <2>4, <2>5, ChatFounded, Handled, ReceiverStays, <1>p
<1>9. ASSUME NEW s \in Subject, Told(s) PROVE CallbacksInv'
  <2>1. handler[s].pc = "chats" /\ UNCHANGED <<notices, pulls, receiver>> /\ Acknowledge(s)
    BY <1>9 DEF Told, tidings
  <2>2. handler[s] # Quiet /\ waiting[s] # <<>>
    BY <2>1 DEF HandlersKnown, Quiet
  <2> QED
    BY <2>1, <2>2, Handled, ReceiverStays, <1>p
<1>10. ASSUME WorkerFalls \/ UNCHANGED deliveryVars PROVE CallbacksInv'
  <2>1. UNCHANGED <<notices, pulls, receiver, waiting>>
        /\ (handler' = [s \in Subject |-> Quiet] \/ UNCHANGED handler)
    BY <1>10 DEF WorkerFalls, deliveryVars, tidings
  <2>2. \A s \in Subject : handler'[s] = Quiet \/ handler'[s] = handler[s]
    BY <2>1
  <2>3. \A s \in Subject : Founded(s, handler[s])'
    BY <2>1, <2>2 DEF HandlersKnown, Founded, Quiet
  <2>4. HandlersKnown'
    BY <2>1, <2>2, <2>3 DEF HandlersKnown
  <2>5. MessagesKnown'
    BY <2>1 DEF MessagesKnown
  <2> QED
    BY <2>1, <2>4, <2>5, ReceiverStays, <1>p
<1> QED
  BY <1>1, <1>2, <1>3, <1>4, <1>5, <1>6, <1>7, <1>8, <1>9, <1>10 DEF DeliveryNext, notifyExternalTaskCallback

(* For any number of tasks, chats, attempts and crashes: the receiver acts *)
(* on no pull request twice, and on a task's failure at most once.         *)
THEOREM CallbackActedOnOnce == CallbacksSpec => []ReceiverActsOnce
<1>1. DeliveryInit => CallbacksInv
  <2> SUFFICES ASSUME DeliveryInit PROVE CallbacksInv
    OBVIOUS
  <2>1. MessagesKnown
    BY DEF DeliveryInit, MessagesKnown
  <2>2. PullsKnown
    BY DEF DeliveryInit, PullsKnown
  <2>3. HandlersKnown
    BY QuietFounded DEF DeliveryInit, HandlersKnown
  <2>4. ReceiverKnown
    BY DEF DeliveryInit, ReceiverKnown, EventType
  <2> QED
    BY <2>1, <2>2, <2>3, <2>4 DEF CallbacksInv
<1>2. CallbacksInv => ReceiverActsOnce
  <2> SUFFICES ASSUME CallbacksInv, NEW e \in EventType, NEW t \in Task
               PROVE  receiver.acts[<<e, t>>] <= Occurred(e, t)
    BY DEF ReceiverActsOnce
  <2>1. receiver.acts[<<e, t>>] \in Nat
    BY DEF CallbacksInv, ReceiverKnown
  <2>2. notices[<<"failed", t>>] \in Nat /\ notices[<<"rejected", t>>] \in Nat
    BY DEF CallbacksInv, MessagesKnown, Subject
  <2>3. CASE e = "build.pr_created"
    BY <2>3 DEF CallbacksInv, ReceiverKnown, Occurred
  <2>4. CASE e = "build.failed"
    <3>1. /\ receiver.acts[<<e, t>>] <= 1
          /\ receiver.acts[<<e, t>>] > 0 => notices[<<"failed", t>>] > 0 \/ notices[<<"rejected", t>>] > 0
      BY <2>4 DEF CallbacksInv, ReceiverKnown
    <3>2. Occurred(e, t) = notices[<<"failed", t>>] + notices[<<"rejected", t>>]
      BY <2>4 DEF Occurred
    <3> QED
      BY <3>1, <3>2, <2>1, <2>2
  <2> QED
    BY <2>3, <2>4 DEF EventType
<1> QED
  BY <1>1, <1>2, CallbacksStep, PTL DEF CallbacksSpec

-----------------------------------------------------------------------------
(* The router and what its calls cost.                                     *)

RouterSpec == RouterInit /\ [][RouterNext]_routerVars

(* What a model costs: no name has two prices.                             *)
Prices ==
    { <<"gpt-4o", 500, 1500>>, <<"gpt-4o-mini", 15, 60>>, <<"o1-preview", 1500, 6000>>, <<"o1-mini", 300, 1200>>,
      <<"claude-sonnet-4", 300, 1500>>, <<"claude-opus-4", 1500, 7500>>, <<"claude-haiku-4", 25, 125>>,
      <<"gemini-2.5-pro", 125, 1000>>, <<"gemini-2.5-flash", 15, 60>>,
      <<"llama-4-scout", 13, 69>>, <<"llama-4-maverick", 20, 32>>, <<"mixtral-8x7b", 24, 24>>,
      <<"deepseek-v3", 90, 90>>, <<"llama-v3p3-70b", 13, 50>>, <<"qwen2p5-72b", 90, 90>>,
      <<"bifrost/gpt-4o", 500, 1500>>, <<"bifrost/claude-sonnet", 300, 1500>>, <<"bifrost/gemini-flash", 15, 60>> }

Priced(m) == <<m.name, m.input, m.output>> \in Prices

(* A name has one price.                                                   *)
LEMMA OnePrice ==
    \A n, a, b, c, d : <<n, a, b>> \in Prices /\ <<n, c, d>> \in Prices => a \in Nat /\ b \in Nat /\ a = c /\ b = d
  BY SMT DEF Prices

(* Every model of the catalogue has the price of its name.                 *)
LEMMA CataloguePriced ==
    /\ AllProviders \in Seq(AllModels)
    /\ \A m \in AllModels : Priced(m)
<1>1. OpenAIModels \in Seq(ToSet(OpenAIModels)) /\ \A m \in ToSet(OpenAIModels) : Priced(m)
  <2>1. PICK m1, m2, m3, m4 : m1 = OpenAIModels[1] /\ m2 = OpenAIModels[2] /\ m3 = OpenAIModels[3] /\ m4 = OpenAIModels[4]
    OBVIOUS
  <2>2. OpenAIModels = <<m1, m2, m3, m4>>
    BY <2>1, SMT DEF OpenAIModels
  <2>3. Priced(m1)
    BY <2>1, SMT DEF OpenAIModels, Model, Priced, Prices
  <2>4. Priced(m2)
    BY <2>1, SMT DEF OpenAIModels, Model, Priced, Prices
  <2>5. Priced(m3)
    BY <2>1, SMT DEF OpenAIModels, Model, Priced, Prices
  <2>6. Priced(m4)
    BY <2>1, SMT DEF OpenAIModels, Model, Priced, Prices
  <2>m. ToSet(OpenAIModels) = {m1, m2, m3, m4}
    BY <2>2, SMT DEF ToSet
  <2> QED
    BY <2>2, <2>3, <2>4, <2>5, <2>6, <2>m, SMT
<1>2. AnthropicModels \in Seq(ToSet(AnthropicModels)) /\ \A m \in ToSet(AnthropicModels) : Priced(m)
  <2>1. PICK m1, m2, m3 : m1 = AnthropicModels[1] /\ m2 = AnthropicModels[2] /\ m3 = AnthropicModels[3]
    OBVIOUS
  <2>2. AnthropicModels = <<m1, m2, m3>>
    BY <2>1, SMT DEF AnthropicModels
  <2>3. Priced(m1)
    BY <2>1, SMT DEF AnthropicModels, Model, Priced, Prices
  <2>4. Priced(m2)
    BY <2>1, SMT DEF AnthropicModels, Model, Priced, Prices
  <2>5. Priced(m3)
    BY <2>1, SMT DEF AnthropicModels, Model, Priced, Prices
  <2>m. ToSet(AnthropicModels) = {m1, m2, m3}
    BY <2>2, SMT DEF ToSet
  <2> QED
    BY <2>2, <2>3, <2>4, <2>5, <2>m, SMT
<1>3. GeminiModels \in Seq(ToSet(GeminiModels)) /\ \A m \in ToSet(GeminiModels) : Priced(m)
  <2>1. PICK m1, m2 : m1 = GeminiModels[1] /\ m2 = GeminiModels[2]
    OBVIOUS
  <2>2. GeminiModels = <<m1, m2>>
    BY <2>1, SMT DEF GeminiModels
  <2>3. Priced(m1)
    BY <2>1, SMT DEF GeminiModels, Model, Priced, Prices
  <2>4. Priced(m2)
    BY <2>1, SMT DEF GeminiModels, Model, Priced, Prices
  <2>m. ToSet(GeminiModels) = {m1, m2}
    BY <2>2, SMT DEF ToSet
  <2> QED
    BY <2>2, <2>3, <2>4, <2>m, SMT
<1>4. GroqModels \in Seq(ToSet(GroqModels)) /\ \A m \in ToSet(GroqModels) : Priced(m)
  <2>1. PICK m1, m2, m3 : m1 = GroqModels[1] /\ m2 = GroqModels[2] /\ m3 = GroqModels[3]
    OBVIOUS
  <2>2. GroqModels = <<m1, m2, m3>>
    BY <2>1, SMT DEF GroqModels
  <2>3. Priced(m1)
    BY <2>1, SMT DEF GroqModels, Model, Priced, Prices
  <2>4. Priced(m2)
    BY <2>1, SMT DEF GroqModels, Model, Priced, Prices
  <2>5. Priced(m3)
    BY <2>1, SMT DEF GroqModels, Model, Priced, Prices
  <2>m. ToSet(GroqModels) = {m1, m2, m3}
    BY <2>2, SMT DEF ToSet
  <2> QED
    BY <2>2, <2>3, <2>4, <2>5, <2>m, SMT
<1>5. FireworksModels \in Seq(ToSet(FireworksModels)) /\ \A m \in ToSet(FireworksModels) : Priced(m)
  <2>1. PICK m1, m2, m3 : m1 = FireworksModels[1] /\ m2 = FireworksModels[2] /\ m3 = FireworksModels[3]
    OBVIOUS
  <2>2. FireworksModels = <<m1, m2, m3>>
    BY <2>1, SMT DEF FireworksModels
  <2>3. Priced(m1)
    BY <2>1, SMT DEF FireworksModels, Model, Priced, Prices
  <2>4. Priced(m2)
    BY <2>1, SMT DEF FireworksModels, Model, Priced, Prices
  <2>5. Priced(m3)
    BY <2>1, SMT DEF FireworksModels, Model, Priced, Prices
  <2>m. ToSet(FireworksModels) = {m1, m2, m3}
    BY <2>2, SMT DEF ToSet
  <2> QED
    BY <2>2, <2>3, <2>4, <2>5, <2>m, SMT
<1>6. BifrostModels \in Seq(ToSet(BifrostModels)) /\ \A m \in ToSet(BifrostModels) : Priced(m)
  <2>1. PICK m1, m2, m3 : m1 = BifrostModels[1] /\ m2 = BifrostModels[2] /\ m3 = BifrostModels[3]
    OBVIOUS
  <2>2. BifrostModels = <<m1, m2, m3>>
    BY <2>1, SMT DEF BifrostModels
  <2>3. Priced(m1)
    BY <2>1, SMT DEF BifrostModels, Model, Priced, Prices
  <2>4. Priced(m2)
    BY <2>1, SMT DEF BifrostModels, Model, Priced, Prices
  <2>5. Priced(m3)
    BY <2>1, SMT DEF BifrostModels, Model, Priced, Prices
  <2>m. ToSet(BifrostModels) = {m1, m2, m3}
    BY <2>2, SMT DEF ToSet
  <2> QED
    BY <2>2, <2>3, <2>4, <2>5, <2>m, SMT
<1> DEFINE S == ToSet(OpenAIModels) \cup ToSet(AnthropicModels) \cup ToSet(GeminiModels)
                  \cup ToSet(GroqModels) \cup ToSet(FireworksModels) \cup ToSet(BifrostModels)
<1> HIDE DEF S
<1>7. \A m \in S : Priced(m)
  BY <1>1, <1>2, <1>3, <1>4, <1>5, <1>6, SMT DEF S
<1>8. AllProviders \in Seq(S)
  BY <1>1, <1>2, <1>3, <1>4, <1>5, <1>6, SMT DEF S, AllProviders
<1>9. \A k \in DOMAIN AllProviders : AllProviders[k] \in S /\ AllProviders[k] \in AllModels
  BY <1>8, SMT DEF AllModels, ToSet
<1>10. AllModels \subseteq S
  BY <1>9, SMT DEF AllModels, ToSet
<1> QED
  BY <1>7, <1>8, <1>9, <1>10, SMT

(* The first model of the catalogue.                                       *)
LEMMA FirstModel == 1 \in DOMAIN AllProviders /\ AllProviders[1] = Model("openai", "gpt-4o", 128000, 9, 8, 2500, 500, 1500, TRUE)
  BY SMT DEF AllProviders, OpenAIModels, AnthropicModels, GeminiModels, GroqModels, FireworksModels, BifrostModels

(* The models are those at the places of the catalogue.                    *)
LEMMA InCatalogue ==
    /\ \A k \in DOMAIN AllProviders : AllProviders[k] \in AllModels
    /\ \A m \in AllModels : \E k \in DOMAIN AllProviders : m = AllProviders[k]
  BY CataloguePriced, SMT DEF AllModels, ToSet

(* The models that are asked: those of the catalogue, and the default,     *)
(* which has the name and the price of one of them.                        *)
Askable == AllModels \cup {fallbackModel}

(* A model that may be asked has the price of its name, and the name and   *)
(* the provider of a model of the catalogue.                               *)
LEMMA AskablePriced ==
    \A m \in Askable : /\ Priced(m) /\ m.input \in Nat /\ m.output \in Nat
                       /\ \E o \in AllModels : o.name = m.name /\ o.provider = m.provider
<1>1. Priced(fallbackModel)
  BY SMT DEF fallbackModel, Model, Priced, Prices
<1>2. AllProviders[1].name = fallbackModel.name /\ AllProviders[1].provider = fallbackModel.provider
  BY FirstModel, SMT DEF fallbackModel, Model
<1>d. 1 \in DOMAIN AllProviders
  BY FirstModel, SMT DEF Model
<1>3. AllProviders[1] \in AllModels
  BY <1>d, InCatalogue, Zenon
<1>4. \A m : Priced(m) => m.input \in Nat /\ m.output \in Nat
  BY OnePrice, SMT DEF Priced
<1> QED
  BY <1>1, <1>2, <1>3, <1>4, CataloguePriced, SMT DEF Askable

(* The name and the provider that an answer is labelled with give the      *)
(* price of the model that was asked.                                      *)
LEMMA EstimateIsCost ==
    ASSUME NEW m \in Askable, NEW tokens \in Nat \X Nat
    PROVE  estimateCost(m.name, m.provider, tokens) = Cost(m, tokens) /\ Cost(m, tokens) \in Nat
<1> DEFINE known == { o \in AllModels : o.name = m.name /\ o.provider = m.provider }
           o == CHOOSE o \in known : TRUE
<1>1. known # {}
  BY AskablePriced, SMT
<1>2. o \in known
  BY <1>1, SMT
<1>3. o.name = m.name /\ Priced(o) /\ Priced(m) /\ m.input \in Nat /\ m.output \in Nat
  BY <1>2, AskablePriced, CataloguePriced, SMT
<1>4. o.input = m.input /\ o.output = m.output
  BY <1>3, OnePrice, SMT DEF Priced
<1>5. estimateCost(m.name, m.provider, tokens) = Cost(o, tokens)
  BY <1>1, SMT DEF estimateCost
<1>6. tokens[1] \in Nat /\ tokens[2] \in Nat
  OBVIOUS
<1>7. \A a, b \in Nat : a * b \in Nat
  OBVIOUS
<1> HIDE DEF known, o
<1>8. Cost(o, tokens) = Cost(m, tokens)
  BY <1>4, SMT DEF Cost
<1>9. tokens[1] * m.input \in Nat /\ tokens[2] * m.output \in Nat
  BY <1>3, <1>6, <1>7, SMT
<1>10. Cost(m, tokens) \in Nat
  BY <1>9, SMT DEF Cost
<1> QED
  BY <1>5, <1>8, <1>10, SMT

(* Whatever is connected and whatever is asked for, the model that is      *)
(* selected may be asked.                                                  *)
LEMMA SelectedAskable ==
    ASSUME NEW c, NEW t, NEW d, NEW n, NEW cap, NEW m \in SelectModel(c, t, d, n, cap) PROVE m \in Askable
  BY SMT DEF SelectModel, Fitting, Askable

(* The model that comes next is one of those that are left.                *)
LEMMA NextIsLeft ==
    ASSUME NEW left \in SUBSET (DOMAIN AllProviders), left # {} PROVE Min(left) \in left
<1>1. DOMAIN AllProviders \subseteq Nat
  BY CataloguePriced, SMT
<1>2. PICK k \in left : \A n \in left : ~(<<n, k>> \in OpToRel(<, Nat))
  BY <1>1, NatLessThanWellFounded, WFMin
<1>r. \A a, b \in Nat : <<a, b>> \in OpToRel(<, Nat) <=> a < b
  BY Zenon DEF OpToRel
<1>3. \A n \in left : k <= n
  <2> SUFFICES ASSUME NEW n \in left PROVE k <= n
    OBVIOUS
  <2>1. n \in Nat /\ k \in Nat
    BY <1>1
  <2>2. ~(n < k)
    BY <2>1, <1>r, <1>2, Zenon
  <2> QED
    BY <2>1, <2>2
<1> QED
  BY <1>3 DEF Min

Running == {"next", "call", "answer", "charged", "tooled"}

(* What an answer cost that nobody has written down or forgotten yet.      *)
Owed == IF execution.pc = "answer" THEN execution.cost ELSE 0

RouterTypes ==
    /\ paid = [status |-> paid.status, total |-> paid.total, usage |-> paid.usage] /\ paid.total \in Nat
    /\ spent \in Nat /\ unrecorded \in Nat /\ losses \in Nat
    /\ execution.pc \in Running => execution.soFar \in Nat
    /\ execution.pc \in {"charged", "tooled"} => execution = [pc |-> execution.pc, soFar |-> execution.soFar]
    /\ execution.pc = "call" => execution.model \in Askable /\ execution.left \in SUBSET DOMAIN AllProviders
    /\ execution.pc = "answer" => execution.cost \in Nat

(* What was spent is on record, except for what is owed or was lost; the   *)
(* execution knows of no less than is on record, and of the same if no     *)
(* answer was lost.  What is asked next keeps to the budget, as far as it  *)
(* could be read.                                                          *)
Ledger ==
    /\ paid.status # "completed" => paid.total + unrecorded + Owed = spent
    /\ execution.pc \in Running =>
          /\ paid.status = "running" /\ paid.total <= execution.soFar
          /\ unrecorded = 0 => execution.soFar = paid.total
    /\ execution.pc \in {"next", "call"} => unread \/ execution.soFar <= MaxCost
    /\ paid.status \in {"queued", "paused"} => unread \/ paid.total <= MaxCost
    /\ paid.status = "completed" => paid.total >= spent - unrecorded /\ (unrecorded = 0 => paid.total = spent)

ConnectedNames == { m.name : m \in { o \in AllModels : o.provider \in connected } }

(* Every connected model has failed, is asked or is left to ask.           *)
NoneForgotten ==
    /\ execution.pc = "call" =>
          ConnectedNames = execution.failed \cup {execution.model.name}
                              \cup { AllProviders[k].name : k \in execution.left }
    /\ execution.pc = "refused" => execution.failed = ConnectedNames

RouterInv == RouterTypes /\ Ledger /\ NoneForgotten

(* Every step keeps the books and forgets no model.                        *)
LEMMA RouterStep == RouterInv /\ [RouterNext]_routerVars => RouterInv'
<1> SUFFICES ASSUME RouterInv, [RouterNext]_routerVars PROVE RouterInv'
  OBVIOUS
<1>m. MaxCost \in Nat
  BY RouterAssumption
<1>t. RouterTypes /\ Ledger
  BY DEF RouterInv
<1>1. CASE StartExecution
  <2>1. /\ execution.pc = "none" /\ paid.status \in {"queued", "paused"}
        /\ paid' = [paid EXCEPT !.status = "running"]
        /\ execution' = [pc |-> "next", soFar |-> paid.total]
        /\ UNCHANGED <<connected, spent, unrecorded, unread, losses>>
    BY <1>1 DEF StartExecution, None, seedCost
  <2>2. /\ paid' = [status |-> "running", total |-> paid'.total, usage |-> paid'.usage]
        /\ paid'.total = paid.total
    BY <2>1, <1>t DEF RouterTypes
  <2>3. RouterTypes'
    BY <2>1, <2>2, <1>t DEF RouterTypes, Running
  <2>4. Ledger'
    BY <2>1, <2>2, <1>t DEF RouterTypes, Ledger, Owed, Running
  <2> QED
    BY <2>1, <2>3, <2>4 DEF RouterInv, NoneForgotten
<1>f. ASSUME failModelRun, execution.pc \in Running, UNCHANGED <<connected, spent>>, losses' \in Nat,
             unrecorded' = unrecorded + Owed
      PROVE  RouterInv'
  <2>1. paid' = [status |-> "failed", total |-> paid.total, usage |-> paid.usage] /\ execution'.pc = "none"
    BY <1>f, <1>t DEF failModelRun, None, RouterTypes
  <2>2. Owed \in Nat
    BY <1>t DEF RouterTypes, Owed
  <2>3. RouterTypes'
    BY <1>f, <2>1, <2>2, <1>t DEF RouterTypes, Running
  <2>4. paid.total + unrecorded + Owed = spent
    BY <1>f, <1>t DEF Ledger
  <2>5. Owed' = 0
    BY <2>1 DEF Owed
  <2>6. Ledger'
    <3>1. paid'.total + unrecorded' + Owed' = spent'
      BY <2>1, <2>2, <2>4, <2>5, <1>f, <1>t DEF RouterTypes
    <3> QED
      BY <3>1, <2>1 DEF Ledger, Running
  <2> QED
    BY <2>1, <2>3, <2>6 DEF RouterInv, NoneForgotten
<1>2. CASE RouteCall
  <2>1. execution.pc = "next" /\ UNCHANGED <<connected, spent, unrecorded, unread, losses>>
    BY <1>2 DEF RouteCall
  <2>2. PICK m \in Askable :
           \/ /\ m.provider \in connected /\ UNCHANGED paid
              /\ execution' = [pc |-> "call", soFar |-> execution.soFar, model |-> m, left |-> Others(m), failed |-> {}]
           \/ failModelRun
    BY <1>2, SelectedAskable DEF RouteCall
  <2>3. CASE failModelRun
    <3>1. Owed = 0
      BY <2>1 DEF Owed
    <3> QED
      BY <2>1, <2>3, <3>1, <1>f, <1>t DEF Running, RouterTypes
  <2>4. CASE /\ m.provider \in connected /\ UNCHANGED paid
             /\ execution' = [pc |-> "call", soFar |-> execution.soFar, model |-> m, left |-> Others(m), failed |-> {}]
    <3>1. /\ execution'.pc = "call" /\ execution'.soFar = execution.soFar /\ execution'.model = m
          /\ execution'.left = Others(m) /\ execution'.failed = {}
      BY <2>4
    <3>2. Others(m) \subseteq DOMAIN AllProviders
      BY DEF Others
    <3>3. RouterTypes'
      BY <2>1, <2>4, <3>1, <3>2, <1>t DEF RouterTypes, Running
    <3>4. Ledger'
      BY <2>1, <2>4, <3>1, <1>t DEF Ledger, Owed, Running
    <3>5. ConnectedNames = {m.name} \cup { AllProviders[k].name : k \in Others(m) }
      <4>1. m.name \in ConnectedNames
        BY <2>4, AskablePriced DEF ConnectedNames
      <4>2. \A k \in Others(m) : AllProviders[k].name \in ConnectedNames
        BY InCatalogue DEF Others, ConnectedNames
      <4>3. ASSUME NEW n \in ConnectedNames, n # m.name PROVE \E k \in Others(m) : n = AllProviders[k].name
        <5>1. PICK o \in AllModels : o.provider \in connected /\ n = o.name
          BY DEF ConnectedNames
        <5>2. PICK k \in DOMAIN AllProviders : o = AllProviders[k]
          BY InCatalogue
        <5> QED
          BY <4>3, <5>1, <5>2 DEF Others
      <4> QED
        BY <4>1, <4>2, <4>3
    <3>6. NoneForgotten'
      BY <2>1, <3>1, <3>5 DEF NoneForgotten, ConnectedNames
    <3> QED
      BY <3>3, <3>4, <3>6 DEF RouterInv
  <2> QED
    BY <2>2, <2>3, <2>4
<1>3. CASE Call
  <2>1. PICK tokens \in Tokens : execution.pc = "call" /\ Answered(tokens)
    BY <1>3 DEF Call, callOpenAICompatible, callAnthropic, callGemini
  <2>2. PICK m \in Askable : m = execution.model
    BY <2>1, <1>t DEF RouterTypes
  <2>3. tokens \in Nat \X Nat
    BY RouterAssumption
  <2>4. PICK c \in Nat : c = Cost(m, tokens) /\ c = estimateCost(m.name, m.provider, tokens)
    BY <2>3, EstimateIsCost
  <2>5. /\ execution'.pc = "answer" /\ execution'.soFar = execution.soFar /\ execution'.cost = c
        /\ spent' = spent + c /\ UNCHANGED <<connected, paid, unrecorded, unread, losses>>
    BY <2>1, <2>2, <2>4 DEF Answered
  <2>6. RouterTypes'
    BY <2>1, <2>5, <1>t DEF RouterTypes, Running
  <2>7. Owed = 0 /\ Owed' = c
    BY <2>1, <2>5 DEF Owed
  <2>8. paid.total + unrecorded + Owed = spent /\ paid.status = "running"
    BY <2>1, <1>t DEF Ledger, Running
  <2>9. paid'.total + unrecorded' + Owed' = spent'
    BY <2>5, <2>7, <2>8, <1>t DEF RouterTypes
  <2>10. Ledger'
    BY <2>1, <2>5, <2>8, <2>9, <1>t DEF Ledger, Running
  <2> QED
    BY <2>5, <2>6, <2>10 DEF RouterInv, NoneForgotten
<1>4. CASE tryFallback
  <2>1. execution.pc = "call" /\ UNCHANGED <<connected, spent, unrecorded, unread, losses>>
    BY <1>4 DEF tryFallback
  <2> DEFINE tried == execution.failed \cup {execution.model.name}
  <2>2. CASE execution.left = {}
    <3>1. paid' = [paid EXCEPT !.status = "failed"] /\ execution' = [pc |-> "refused", failed |-> tried]
      BY <1>4, <2>2 DEF tryFallback
    <3>2. paid' = [status |-> "failed", total |-> paid.total, usage |-> paid.usage]
          /\ execution'.pc = "refused" /\ execution'.failed = tried
      BY <3>1, <1>t DEF RouterTypes
    <3>3. RouterTypes'
      BY <2>1, <3>2, <1>t DEF RouterTypes, Running
    <3>4. Ledger'
      BY <2>1, <3>2, <1>t DEF Ledger, Owed, Running
    <3>5. ConnectedNames = tried
      BY <2>1, <2>2 DEF RouterInv, NoneForgotten
    <3>6. NoneForgotten'
      BY <2>1, <3>2, <3>5 DEF NoneForgotten, ConnectedNames
    <3> QED
      BY <3>3, <3>4, <3>6 DEF RouterInv
  <2>3. CASE execution.left # {}
    <3>1. PICK k : k = Min(execution.left)
      OBVIOUS
    <3>2. /\ execution.left \in SUBSET DOMAIN AllProviders /\ k \in execution.left
      BY <2>1, <2>3, <3>1, <1>t, NextIsLeft DEF RouterTypes
    <3>3. execution' = [pc |-> "call", soFar |-> execution.soFar, model |-> AllProviders[k],
                        left |-> execution.left \ {k}, failed |-> tried] /\ UNCHANGED paid
      BY <1>4, <2>3, <3>1 DEF tryFallback
    <3>4. /\ execution'.pc = "call" /\ execution'.soFar = execution.soFar /\ execution'.model = AllProviders[k]
          /\ execution'.left = execution.left \ {k} /\ execution'.failed = tried
      BY <3>3
    <3>5. AllProviders[k] \in Askable
      BY <3>2, InCatalogue DEF Askable
    <3>6. RouterTypes'
      BY <2>1, <3>2, <3>3, <3>4, <3>5, <1>t DEF RouterTypes, Running
    <3>7. Ledger'
      BY <2>1, <3>3, <3>4, <1>t DEF Ledger, Owed, Running
    <3>8. ConnectedNames = tried \cup { AllProviders[n].name : n \in execution.left }
      BY <2>1 DEF RouterInv, NoneForgotten
    <3>9. { AllProviders[n].name : n \in execution.left }
             = {AllProviders[k].name} \cup { AllProviders[n].name : n \in execution.left \ {k} }
      BY <3>2
    <3>10. NoneForgotten'
      BY <2>1, <3>4, <3>8, <3>9 DEF NoneForgotten, ConnectedNames
    <3> QED
      BY <3>6, <3>7, <3>10 DEF RouterInv
  <2> QED
    BY <2>2, <2>3
<1>5. CASE parseModelAction
  <2>1. execution.pc = "answer" /\ Owed = execution.cost
    BY <1>5 DEF parseModelAction, Owed
  <2> QED
    BY <1>5, <2>1, <1>f, <1>t DEF parseModelAction, Running, RouterTypes
<1>6. CASE recordModelUsage
  <2>1. PICK c \in Nat : execution.pc = "answer" /\ c = execution.cost /\ c = Owed
    BY <1>6, <1>t DEF recordModelUsage, RouterTypes, Owed
  <2>2. PICK written \in {{}, {"usage"}, {"usage", "run"}} :
           /\ losses' = IF written = {"usage", "run"} THEN losses ELSE losses + 1
           /\ paid' = [paid EXCEPT !.usage = @ + IF "usage" \in written THEN c ELSE 0,
                                   !.total = @ + IF "run" \in written THEN c ELSE 0]
           /\ unrecorded' = unrecorded + IF "run" \in written THEN 0 ELSE c
           /\ execution' = [pc |-> "charged", soFar |-> execution.soFar + c]
           /\ UNCHANGED <<connected, spent, unread>>
    BY <1>6, <2>1 DEF recordModelUsage
  <2>3. /\ paid' = [status |-> paid'.status, total |-> paid'.total, usage |-> paid'.usage]
        /\ paid'.status = paid.status
        /\ paid'.total = paid.total + IF "run" \in written THEN c ELSE 0
    BY <2>2, <1>t DEF RouterTypes
  <2>4. /\ paid.total \in Nat /\ spent \in Nat /\ unrecorded \in Nat /\ losses \in Nat /\ execution.soFar \in Nat
        /\ paid.status = "running" /\ paid.total <= execution.soFar /\ paid.total + unrecorded + c = spent
        /\ unrecorded = 0 => execution.soFar = paid.total
    BY <2>1, <1>t DEF RouterTypes, Ledger, Running
  <2>5. execution'.pc = "charged" /\ execution'.soFar = execution.soFar + c
        /\ execution' = [pc |-> "charged", soFar |-> execution'.soFar]
    BY <2>2
  <2>6. /\ paid'.total \in Nat /\ unrecorded' \in Nat /\ losses' \in Nat /\ execution'.soFar \in Nat
        /\ paid'.total + unrecorded' = spent /\ paid'.total <= execution'.soFar
        /\ unrecorded' = 0 => execution'.soFar = paid'.total
    <3>1. CASE "run" \in written
      BY <3>1, <2>2, <2>3, <2>4, <2>5
    <3>2. CASE "run" \notin written
      <4>1. losses' = losses + 1 /\ unrecorded' = unrecorded + c /\ paid'.total = paid.total
        BY <3>2, <2>2, <2>3, <2>4
      <4> QED
        BY <4>1, <2>1, <2>4, <2>5
    <3> QED
      BY <3>1, <3>2
  <2>7. RouterTypes'
    BY <2>2, <2>3, <2>4, <2>5, <2>6 DEF RouterTypes, Running
  <2>8. Ledger'
    BY <2>2, <2>3, <2>4, <2>5, <2>6 DEF Ledger, Owed, Running
  <2> QED
    BY <2>5, <2>7, <2>8 DEF RouterInv, NoneForgotten
<1>7. CASE OverBudget
  <2>1. Owed = 0 /\ execution.pc \in {"charged", "tooled"}
    BY <1>7 DEF OverBudget, Owed
  <2> QED
    BY <1>7, <2>1, <1>f, <1>t DEF OverBudget, Running, RouterTypes
<1>c. ASSUME checkBudget, execution.pc \in {"charged", "tooled"}
      PROVE  losses' \in Nat /\ (unread' \/ execution.soFar <= MaxCost)
  BY <1>c, <1>t, <1>m DEF checkBudget, Exceeded, RouterTypes, Running
<1>8. CASE ActOnAnswer
  <2>1. /\ execution.pc = "charged" /\ checkBudget /\ Owed = 0
        /\ UNCHANGED <<connected, spent, unrecorded>>
    BY <1>8 DEF ActOnAnswer, Owed
  <2>2. /\ paid.total \in Nat /\ spent \in Nat /\ unrecorded \in Nat /\ execution.soFar \in Nat
        /\ paid.status = "running" /\ paid.total <= execution.soFar /\ paid.total + unrecorded = spent
        /\ unrecorded = 0 => execution.soFar = paid.total
        /\ unread' \/ execution.soFar <= MaxCost
        /\ losses' \in Nat
        /\ execution = [pc |-> "charged", soFar |-> execution.soFar]
    BY <2>1, <1>t, <1>c DEF RouterTypes, Ledger, Owed, Running
  <2>3. CASE execution' = [execution EXCEPT !.pc = "tooled"] /\ UNCHANGED paid
    <3>1. /\ execution'.pc = "tooled" /\ execution'.soFar = execution.soFar
          /\ execution' = [pc |-> "tooled", soFar |-> execution'.soFar]
      BY <2>2, <2>3
    <3>2. RouterTypes'
      BY <2>1, <2>2, <2>3, <3>1, <1>t DEF RouterTypes, Running
    <3>3. Ledger'
      BY <2>1, <2>2, <2>3, <3>1 DEF Ledger, Owed, Running
    <3> QED
      BY <3>1, <3>2, <3>3 DEF RouterInv, NoneForgotten
  <2>4. CASE execution' = None /\ paid' = [paid EXCEPT !.status = "paused"]
    <3>1. execution'.pc = "none" /\ paid' = [status |-> "paused", total |-> paid.total, usage |-> paid.usage]
      BY <2>4, <1>t DEF None, RouterTypes
    <3>2. RouterTypes'
      BY <2>1, <2>2, <3>1, <1>t DEF RouterTypes, Running
    <3>3. Ledger'
      BY <2>1, <2>2, <3>1, <1>m DEF Ledger, Owed, Running
    <3> QED
      BY <3>1, <3>2, <3>3 DEF RouterInv, NoneForgotten
  <2>5. CASE execution' = None /\ paid' = [paid EXCEPT !.status = "completed", !.total = execution.soFar]
    <3>1. execution'.pc = "none" /\ paid' = [status |-> "completed", total |-> execution.soFar, usage |-> paid.usage]
      BY <2>5, <1>t DEF None, RouterTypes
    <3>2. RouterTypes'
      BY <2>1, <2>2, <3>1, <1>t DEF RouterTypes, Running
    <3>3. Ledger'
      BY <2>1, <2>2, <3>1, <1>m DEF Ledger, Owed, Running
    <3> QED
      BY <3>1, <3>2, <3>3 DEF RouterInv, NoneForgotten
  <2>6. CASE failModelRun
    BY <2>1, <2>2, <2>6, <1>f DEF Running
  <2> QED
    BY <1>8, <2>3, <2>4, <2>5, <2>6 DEF ActOnAnswer
<1>11. CASE ToolCalled
  <2>1. /\ execution.pc = "tooled" /\ checkBudget /\ Owed = 0
        /\ execution' = [execution EXCEPT !.pc = "next"]
        /\ UNCHANGED <<connected, paid, spent, unrecorded>>
    BY <1>11 DEF ToolCalled, Owed
  <2>2. /\ execution = [pc |-> "tooled", soFar |-> execution.soFar] /\ execution.soFar \in Nat
        /\ losses' \in Nat /\ (unread' \/ execution.soFar <= MaxCost)
    BY <2>1, <1>t, <1>c DEF RouterTypes, Running
  <2>3. execution'.pc = "next" /\ execution'.soFar = execution.soFar
    BY <2>1, <2>2
  <2>4. RouterTypes'
    BY <2>1, <2>2, <2>3, <1>t DEF RouterTypes, Running
  <2>5. Ledger'
    BY <2>1, <2>2, <2>3, <1>t DEF Ledger, Owed, Running
  <2> QED
    BY <2>3, <2>4, <2>5 DEF RouterInv, NoneForgotten
<1>9. CASE RunnerDies
  <2>1. /\ execution.pc \in Running /\ losses' = losses + 1 /\ execution' = None
        /\ unrecorded' = unrecorded + Owed /\ UNCHANGED <<connected, paid, spent, unread>>
    BY <1>9 DEF RunnerDies, Running, Owed
  <2>2. execution'.pc = "none" /\ Owed' = 0
    BY <2>1 DEF None, Owed
  <2>3. /\ Owed \in Nat /\ paid.total \in Nat /\ spent \in Nat /\ unrecorded \in Nat /\ losses \in Nat
        /\ paid.status = "running" /\ paid.total + unrecorded + Owed = spent
    BY <2>1, <1>t DEF RouterTypes, Ledger, Owed
  <2>4. RouterTypes'
    BY <2>1, <2>2, <2>3, <1>t DEF RouterTypes, Running
  <2>5. Ledger'
    BY <2>1, <2>2, <2>3 DEF Ledger, Running
  <2> QED
    BY <2>2, <2>4, <2>5 DEF RouterInv, NoneForgotten
<1>10. CASE UNCHANGED routerVars
  <2>1. UNCHANGED <<connected, paid, execution, spent, unrecorded, unread, losses>>
    BY <1>10 DEF routerVars
  <2> QED
    BY <2>1 DEF RouterInv, RouterTypes, Ledger, Owed, NoneForgotten, ConnectedNames
<1> QED
  BY <1>1, <1>2, <1>3, <1>4, <1>5, <1>6, <1>7, <1>8, <1>11, <1>9, <1>10 DEF RouterNext

(* A queued run that nothing was spent for is consistent.                  *)
LEMMA RouterStart == RouterInit => RouterInv
  BY RouterAssumption DEF RouterInit, RouterInv, RouterTypes, Ledger, Owed, NoneForgotten, Running, None

(* For any sizes, tokens, budget, number of calls and losses: no model is  *)
(* asked once the run has spent more on record than its budget, unless the *)
(* last check could not read the budget (runner_budget.go:45-48), and a run*)
(* that completes has what was written down on record, all it spent if no  *)
(* answer was lost (runner.go:186-198, 768).                               *)
THEOREM CostStaysInBudget == RouterSpec => []CostHeld
<1>1. RouterInv => CostHeld
  <2> SUFFICES ASSUME RouterInv PROVE CostHeld
    OBVIOUS
  <2>1. MaxCost \in Nat
    BY RouterAssumption
  <2>2. CASE execution.pc = "call" /\ ~unread
    <3>1. paid.total + unrecorded = spent /\ paid.total <= execution.soFar /\ execution.soFar <= MaxCost
          /\ paid.status = "running"
      BY <2>2 DEF RouterInv, Ledger, Owed, Running, RouterTypes
    <3> QED
      BY <2>1, <2>2, <3>1 DEF CostHeld, RouterInv, RouterTypes, Running
  <2>3. CASE execution.pc # "call" \/ unread
    BY <2>3 DEF CostHeld, RouterInv, Ledger
  <2> QED
    BY <2>2, <2>3
<1> QED
  BY <1>1, RouterStart, RouterStep, PTL DEF RouterSpec

(* For every set of connected providers and every order of failures: the   *)
(* router gives up only after it asked every model it can reach            *)
(* (router.go:227-247).                                                    *)
THEOREM RouterGivesUpLast == RouterSpec => []GivesUpLast
<1>1. RouterInv => GivesUpLast
  BY DEF RouterInv, NoneForgotten, GivesUpLast, ConnectedNames
<1> QED
  BY <1>1, RouterStart, RouterStep, PTL DEF RouterSpec

=============================================================================
