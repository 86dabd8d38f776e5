----------------------------- MODULE Inventory -----------------------------
(***************************************************************************)
(* The ingress consumer of the mesh: every telemetry frame of a node is    *)
(* processed by a goroutine of its own, which writes the node's record in  *)
(* the bucket nodes.inventory by compare-and-swap on the revision of the   *)
(* record.  JetStream delivers a frame that is not acknowledged in time    *)
(* again, while the first goroutine may still be at work, at most          *)
(* MaxDeliver times.                                                       *)
(*                                                                         *)
(* Different keys have nothing to do with one another (inventoryKey), so   *)
(* the frames are those of one node.  The clocks of the node and of the    *)
(* daemon are in step.  A frame that bears no time counts as of the moment *)
(* it is delivered, and as of a later one when it is delivered again.      *)
(***************************************************************************)
EXTENDS Naturals, FiniteSets

CONSTANTS
    Frame,        \* the telemetry frames of a node
    Goroutine,    \* goroutines of consumeLoop
    CASAttempts,  \* defaultCASAttempts
    MaxDeliver,   \* deliveries of a frame
    MaxClock      \* bound on time

ASSUME InventoryAssumption ==
    /\ IsFiniteSet(Frame) /\ IsFiniteSet(Goroutine)
    /\ CASAttempts \in Nat \ {0} /\ MaxDeliver \in Nat \ {0} /\ MaxClock \in Nat

VARIABLES
    clock,
    frames,      \* a frame: where it is, when it was sent and whether it bears that time, its deliveries
    bucket,      \* the record of the node, or none
    goroutines

inventoryVars == <<clock, frames, bucket, goroutines>>

Resting == [pc |-> "idle"]

(* The revisions of the bucket start at 1; the record may be unreadable,   *)
(* written by something else.                                              *)
NoTelemetry == [time |-> 0, sent |-> 0, stamped |-> TRUE]
Absent  == [rev |-> 0, updated |-> 0, telemetry |-> NoTelemetry, corrupt |-> FALSE]
Corrupt == [rev |-> 1, updated |-> 0, telemetry |-> NoTelemetry, corrupt |-> TRUE]

Tick ==
    /\ clock < MaxClock /\ clock' = clock + 1
    /\ UNCHANGED <<frames, bucket, goroutines>>

(* A node sends a frame, with the time or without.                         *)
Publish(f) ==
    /\ frames[f].at = "node"
    /\ \E stamped \in BOOLEAN :
          frames' = [frames EXCEPT ![f] = [@ EXCEPT !.at = "stream", !.sent = clock, !.stamped = stamped]]
    /\ UNCHANGED <<clock, bucket, goroutines>>

(* The telemetry a goroutine writes: it knows the time and nothing else of *)
(* when the frame was sent.                                                *)
Telemetry(frame) ==
    [time |-> IF frame.stamped THEN frame.sent ELSE clock, sent |-> frame.sent, stamped |-> frame.stamped]

(* A frame that is in the stream, or that was not acknowledged in time, is *)
(* fetched and given to a goroutine.                                       *)
consumeLoop(g, f) ==
    /\ goroutines[g] = Resting
    /\ frames[f].at \in {"stream", "pending"} /\ frames[f].deliveries < MaxDeliver
    /\ frames' = [frames EXCEPT ![f].at = "pending", ![f].deliveries = @ + 1]
    /\ goroutines' = [goroutines EXCEPT ![g] =
          [pc |-> "get", frame |-> f, attempt |-> 1, telemetry |-> Telemetry(frames[f])]]
    /\ UNCHANGED <<clock, bucket>>

(* Get the record and make the next one: with the new telemetry, unless    *)
(* the record was updated after the frame was sent.                        *)
Get(g) ==
    LET c     == goroutines[g]
        fresh == bucket.updated > c.telemetry.time
    IN
    /\ c.pc = "get"
    /\ goroutines' = [goroutines EXCEPT ![g] =
          [pc |-> "put", frame |-> c.frame, attempt |-> c.attempt, telemetry |-> c.telemetry,
           last   |-> IF bucket.corrupt THEN 0 ELSE bucket.rev,
           record |-> [updated |-> clock, telemetry |-> IF fresh THEN bucket.telemetry ELSE c.telemetry]]]
    /\ UNCHANGED <<clock, frames, bucket>>

\* Slip: Put instead of Update.
casUnconditional(last) == TRUE

(* Create if there was no record, Update if its revision is the last.      *)
cas(last) == bucket.rev = last

Ended(g) == goroutines' = [goroutines EXCEPT ![g] = Resting]

Commit(g) ==
    LET c == goroutines[g] IN
    /\ c.pc = "put" /\ cas(c.last)
    /\ bucket' = [rev |-> bucket.rev + 1, corrupt |-> FALSE,
                  updated |-> c.record.updated, telemetry |-> c.record.telemetry]
    /\ frames' \in {frames, [frames EXCEPT ![c.frame].at = "done"]}
    /\ Ended(g)
    /\ UNCHANGED clock

attemptsLeft(n) == n < CASAttempts

(* A conflict is tried again after a pause (casBackoff); after the last    *)
(* attempt the frame is handed back.                                       *)
isCASConflict(g) ==
    LET c == goroutines[g] IN
    /\ c.pc = "put" /\ ~cas(c.last)
    /\ IF attemptsLeft(c.attempt)
       THEN goroutines' = [goroutines EXCEPT ![g] =
               [pc |-> "get", frame |-> c.frame, attempt |-> c.attempt + 1, telemetry |-> c.telemetry]]
       ELSE Ended(g)
    /\ UNCHANGED <<clock, frames, bucket>>

(* The bucket does not answer, or the daemon stops.                        *)
Abandon(g) ==
    /\ goroutines[g] # Resting /\ Ended(g)
    /\ UNCHANGED <<clock, frames, bucket>>

-----------------------------------------------------------------------------
InventoryInit ==
    /\ clock = 1 /\ bucket \in {Absent, Corrupt}
    /\ frames = [f \in Frame |-> [at |-> "node", sent |-> 0, stamped |-> TRUE, deliveries |-> 0]]
    /\ goroutines = [g \in Goroutine |-> Resting]

InventoryNext ==
    \/ Tick \/ \E f \in Frame : Publish(f)
    \/ \E g \in Goroutine :
          \/ \E f \in Frame : consumeLoop(g, f)
          \/ Get(g) \/ Commit(g) \/ isCASConflict(g) \/ Abandon(g)

-----------------------------------------------------------------------------
(* Properties.                                                             *)

InventoryTypeOK ==
    /\ clock \in 1..MaxClock
    /\ frames \in [Frame -> [at : {"node", "stream", "pending", "done"}, sent : 0..MaxClock,
                             stamped : BOOLEAN, deliveries : 0..MaxDeliver]]
    /\ bucket \in [rev : Nat, updated : 0..MaxClock, corrupt : BOOLEAN,
                    telemetry : [time : 0..MaxClock, sent : 0..MaxClock, stamped : BOOLEAN]]
    /\ \A g \in Goroutine : goroutines[g] # Resting => goroutines[g].attempt \in 1..CASAttempts

(* The telemetry of a node is never replaced by telemetry that bears its   *)
(* time and was sent earlier, whichever goroutine writes last and however  *)
(* often a frame is delivered (processMessage: do not overwrite fresher    *)
(* state with stale telemetry).  A frame without a time may have been sent *)
(* earlier and replace it all the same (337-339): then what it replaces was*)
(* sent before this goroutine was given the frame.                         *)
NeverStale ==
    [][LET old == bucket.telemetry
           new == bucket'.telemetry
       IN  IF new.stamped THEN new.sent >= old.sent ELSE new.time >= old.sent]_bucket

=============================================================================
