------------------------------- MODULE Turns -------------------------------
(***************************************************************************)
(* One run that is executed by an external agent.  The agent is a process  *)
(* of its own (codex app-server or omp) that writes messages to a pipe.    *)
(* Between it and the run stand four goroutines, joined by channels:       *)
(*                                                                         *)
(*   readLoop   -> notes, requests -> streamTurn -> out -> recordRun       *)
(*              -> stream -> supervise                                     *)
(*                                                                         *)
(* and beside them the worker's handlers of approval.approved and          *)
(* approval.rejected, which answer the agent through Manager.RespondApproval*)
(* and share with recordRun nothing but the tables.                        *)
(***************************************************************************)
EXTENDS Naturals, Sequences, FiniteSets

CONSTANTS
    Provider,    \* the agent runtimes a run may name: a subset of Providers
    Item,        \* what the agent does in a turn
    MaxTurns,    \* bound on the executions of the run
    MaxFaults,   \* bound on the kinds of faults of one behaviour
    Buffer,      \* capacity of a channel (1024, 256 and 32 in the code)
    Faults       \* what may go wrong: see FaultKinds

Providers == {"codex", "omp"}

FaultKinds == {"store",    \* a statement fails, but for the one that ends the run
               "outcome",  \* the UPDATE of completeRun or failRun fails
               "publish",  \* the bus refuses an event
               "agent",    \* the agent's process ends
               "call",     \* a call to the agent fails
               "gate",     \* the completion gate does not pass the work
               "timeout",  \* the context of ExecuteExternalRun ends
               "crash",    \* the worker dies
               "twice"}    \* the approvals service answers what was answered (Gate)

ASSUME TurnsAssumption ==
    /\ Provider \subseteq Providers /\ IsFiniteSet(Item)
    /\ MaxTurns \in Nat /\ MaxFaults \in Nat /\ Buffer \in Nat \ {0}
    /\ Faults \subseteq FaultKinds

VARIABLES
    provider,   \* metadata.execution.provider of the run
    run,        \* agent_runs.status
    bound,      \* metadata.execution.thread_id is set
    threads,    \* agent_threads, oldest first: whether a thread names its run
    turns,      \* agent_turns: the status of a turn id
    items,      \* agent_items: type and status of an item
    approvals,  \* the items that have a row in approvals
    given,      \* the responses people have given
    answers,    \* messages on approval.approved and approval.rejected
    sup,        \* ExecuteExternalRun and supervise
    ctx,        \* the contexts of the supervisor and of the manager are alive
    wire,       \* streamTurn
    out,        \* the provider's event channel
    rec,        \* recordRun: where it is, its event, its turn's status
    stream,     \* the manager's event channel
    pending,    \* pendingApprovals of the codex provider
    handler,    \* the two approval subscriptions
    agent,      \* the agent's process and turn
    notes,      \* the channel of notifications or frames
    requests,   \* the channel of requests
    sent,       \* the decisions the agent has received
    faults      \* the kinds of faults that have happened, each of them once

store   == <<bound, threads, turns, items, approvals, given>>
process == <<ctx, wire, out, rec, stream, pending>>
outside == <<agent, notes, requests, sent>>
turnsVars    == <<provider, run, store, answers, sup, process, handler, outside, faults>>

-----------------------------------------------------------------------------
(* Turns, items and events.                                                *)

Responses == {"approved", "rejected"}
Ends      == {"completed", "failed", "interrupted"}

TurnStatuses == Ends \cup {"none", "running", "paused"}

Key == (1..MaxTurns) \X Item

NoKey == <<0, "none">>

ItemKinds    == {"none", "approval", "work"}
ItemStatuses == {"none", "pending", "running", "completed", "cancelled", "failed"}

Row(kind, status) == [kind |-> kind, status |-> status]

(* status is what the event says of the turn; none if it says nothing.     *)
Event(type, key, row, status) == [type |-> type, key |-> key, row |-> row, status |-> status]

NoEvent     == Event("none", NoKey, Row("none", "none"), "none")
TurnStarted == Event("turn_started", NoKey, Row("none", "none"), "running")
TurnEnded(status) == Event("turn_ended", NoKey, Row("none", "none"), status)

(* CanTransitionTurnStatus, for the statuses that a provider uses.         *)
CanTransitionTurnStatus(from, to) ==
    \/ from = "running" /\ to \in Ends \cup {"paused"}
    \/ from = "paused" /\ to \in {"running", "interrupted", "failed"}
    \/ from = "interrupted" /\ to = "failed"

(* mapNotification and mapFrame.  A codex item says that the turn is       *)
(* running, an omp frame says nothing of it.                               *)
ItemEvent(key, status) ==
    Event("item", key, Row("work", status), IF provider = "codex" THEN "running" ELSE "none")

mapFrame(note) ==
    CASE note.type = "started"   -> ItemEvent(note.key, "running")
      [] note.type = "completed" -> ItemEvent(note.key, "completed")
      [] note.type = "failed"    -> ItemEvent(note.key, "failed")
      [] note.type = "turn"      -> TurnEnded(note.status)

mapNotification(note) ==
    CASE note.type = "started"   -> ItemEvent(note.key, "running")
      [] note.type = "completed" -> ItemEvent(note.key, "completed")
      [] note.type = "turn"      -> TurnEnded(note.status)

MapNote(note) == IF provider = "codex" THEN mapNotification(note) ELSE mapFrame(note)

(* The request names the item it is about, so that the approval replaces   *)
(* that item.                                                              *)
mapServerRequest(key) == Event("approval", key, Row("approval", "pending"), "paused")

(* What a provider offers beyond turns, of what the run uses.              *)
codexCapabilities == {"resume", "approval"}
ompCapabilities   == {"resume"}

Supports(capability) ==
    capability \in (IF provider = "codex" THEN codexCapabilities ELSE ompCapabilities)

(* The statements of the store: each an upsert of one row.                 *)
PutThread(owned) == threads' = [threads EXCEPT ![Len(threads)] = owned]
PutTurn(id, status) == turns' = [turns EXCEPT ![id] = status]
PutItem(key, row) == items' = [items EXCEPT ![key] = row]

-----------------------------------------------------------------------------
(* The agent (external).                                                   *)

Unplugged == [on |-> FALSE, invoked |-> FALSE, held |-> "none", started |-> FALSE]
Silent    == [pc |-> "off", event |-> NoEvent, turn |-> "none", error |-> FALSE]
Unwatched == [pc |-> "idle", signaled |-> FALSE]
Cancelled == [supervisor |-> FALSE, manager |-> FALSE]

Note(type, key, status) == [type |-> type, key |-> key, status |-> status]

Asleep == [state |-> "off", begun |-> 0, id |-> 0, prompts |-> 0, phase |-> [i \in Item |-> "new"], settled |-> TRUE]

Fault(kind) ==
    /\ kind \in Faults \ faults /\ Cardinality(faults) < MaxFaults
    /\ faults' = faults \cup {kind}

Working == agent.state = "working"
Alive   == agent.state # "dead"

KeyOf(i) == <<agent.begun, i>>

(* broadcast: a subscriber that has room gets the message; without one it  *)
(* is dropped.  A full channel blocks the reader.                          *)
Emit(note) ==
    IF wire.on THEN Len(notes) < Buffer /\ notes' = Append(notes, note) ELSE UNCHANGED notes

Phase(i, p) == agent' = [agent EXCEPT !.phase[i] = p]

StartItem(i) ==
    /\ Working /\ agent.phase[i] = "new"
    /\ Phase(i, "started") /\ Emit(Note("started", KeyOf(i), "none"))
    /\ UNCHANGED <<provider, run, store, answers, sup, process, handler, requests, sent, faults>>

(* broadcastRequest, as broadcast.                                         *)
EmitRequest(key) ==
    IF wire.on THEN Len(requests) < Buffer /\ requests' = Append(requests, key) ELSE UNCHANGED requests

RequestApproval(i) ==
    /\ Supports("approval")
    /\ Working /\ agent.phase[i] = "started"
    /\ Phase(i, "asked") /\ EmitRequest(KeyOf(i))
    /\ UNCHANGED <<provider, run, store, answers, sup, process, handler, notes, sent, faults>>

FinishItem(i) ==
    /\ Working /\ agent.phase[i] \in {"started", "decided"}
    /\ Phase(i, "finished")
    /\ \E type \in (IF provider = "codex" THEN {"completed"} ELSE {"completed", "failed"}) :
          Emit(Note(type, KeyOf(i), "none"))
    /\ UNCHANGED <<provider, run, store, answers, sup, process, handler, requests, sent, faults>>

(* turn/completed, or prompt_result.  An omp session may settle later.     *)
EndTurn(status) ==
    /\ Working /\ agent.settled
    /\ status = "completed" => \A i \in Item : agent.phase[i] # "asked"
    /\ \E settled \in {provider = "codex", TRUE} :
          /\ agent' = [agent EXCEPT !.state = IF settled THEN "ended" ELSE @, !.settled = settled]
          /\ Emit(Note(IF settled THEN "turn" ELSE "yield", NoKey, status))
    /\ UNCHANGED <<provider, run, store, answers, sup, process, handler, requests, sent, faults>>

SettleSession ==
    /\ Working /\ ~agent.settled
    /\ agent' = [agent EXCEPT !.state = "ended"]
    /\ Emit(Note("settled", NoKey, "none"))
    /\ UNCHANGED <<provider, run, store, answers, sup, process, handler, requests, sent, faults>>

(* The process ends: readLoop closes the channels once they are read.      *)
Close ==
    /\ Alive /\ Fault("agent")
    /\ agent' = [agent EXCEPT !.state = "dead"]
    /\ UNCHANGED <<provider, run, store, answers, sup, process, handler, notes, requests, sent>>

-----------------------------------------------------------------------------
(* ExecuteExternalRun.                                                     *)

GoesOn(step) == sup' = [sup EXCEPT !.pc = step]

StoreFails == Fault("store")

(* A call to the agent: to a process that has ended, or one that goes wrong.*)
CallFails == (~Alive /\ UNCHANGED faults) \/ Fault("call")

(* The admission of the run is module Admission's; queued stands for a     *)
(* claim.                                                                  *)
ExecuteExternalRun ==
    /\ sup.pc = "idle" /\ run = "queued" /\ agent.begun < MaxTurns
    /\ \/ GoesOn("thread") /\ UNCHANGED faults
       \/ StoreFails /\ UNCHANGED sup
    /\ UNCHANGED <<provider, run, store, answers, process, handler, outside>>

(* codex has one process for all its threads; omp starts one for each.     *)
codexCreateThread == Alive /\ UNCHANGED agent
ompCreateThread   == agent' = [Asleep EXCEPT !.begun = agent.begun]

(* The thread is on record before its id is in the run's metadata.         *)
CreateThread ==
    /\ sup.pc = "thread" /\ ~bound
    /\ \/ /\ IF provider = "codex" THEN codexCreateThread ELSE ompCreateThread
          /\ threads' = Append(threads, TRUE) /\ GoesOn("bind") /\ UNCHANGED faults
       \/ (CallFails \/ StoreFails) /\ GoesOn("idle") /\ UNCHANGED <<threads, agent>>
    /\ UNCHANGED <<provider, run, bound, turns, items, approvals, given, answers, process, handler,
                   notes, requests, sent>>

persistThreadID ==
    /\ sup.pc = "bind"
    /\ \/ bound' = TRUE /\ GoesOn("start") /\ UNCHANGED faults
       \/ StoreFails /\ GoesOn("idle") /\ UNCHANGED bound
    /\ UNCHANGED <<provider, run, threads, turns, items, approvals, given, answers, process, handler, outside>>

(* The resumed thread is written without the metadata that names its run:  *)
(* no provider returns it, and Manager.ResumeThread does not carry it over.*)
(* omp finds the process it has started for the thread, be it dead or not. *)
codexResumeThread == Alive
ompResumeThread   == Supports("resume")

ResumeThread ==
    /\ sup.pc = "thread" /\ bound
    /\ \/ /\ IF provider = "codex" THEN codexResumeThread ELSE ompResumeThread
          /\ PutThread(FALSE)
          /\ GoesOn("start") /\ UNCHANGED faults
       \/ (CallFails \/ StoreFails) /\ GoesOn("idle") /\ UNCHANGED threads
    /\ UNCHANGED <<provider, run, bound, turns, items, approvals, given, answers, process, handler, outside>>

(* A turn of the agent.  A codex turn id is new; an omp turn is named by   *)
(* the number of the request in its process, and a prompt that omp answers *)
(* by itself invokes no agent.                                             *)
Begun(id, invoked) ==
    /\ agent' = [Asleep EXCEPT !.state = IF invoked THEN "working" ELSE "ended", !.begun = agent.begun + 1,
                               !.id = id, !.prompts = agent.prompts + 1]
    /\ wire' = [on |-> TRUE, invoked |-> invoked, held |-> "none", started |-> FALSE]

codexRunTurn == Begun(agent.begun + 1, TRUE)
ompRunTurn   == \E invoked \in BOOLEAN : Begun(agent.prompts + 1, invoked)

(* markActive: omp refuses a turn until the stream of the last has gone.   *)
Active == provider = "omp" /\ wire.on /\ UNCHANGED faults

(* The subscriptions precede the call, so no message is lost.              *)
RunTurn ==
    /\ sup.pc = "start"
    /\ \/ /\ Alive /\ ~wire.on
          /\ IF provider = "codex" THEN codexRunTurn ELSE ompRunTurn
          /\ notes' = <<>> /\ requests' = <<>> /\ out' = <<>> /\ stream' = <<>>
          /\ rec' = [Silent EXCEPT !.pc = "read"]
          /\ ctx' = [supervisor |-> TRUE, manager |-> TRUE]
          /\ GoesOn("mark") /\ UNCHANGED <<pending, sent, faults>>
       \/ /\ CallFails \/ StoreFails \/ Active
          /\ GoesOn("idle") /\ UNCHANGED <<process, outside>>
    /\ UNCHANGED <<provider, run, store, answers, handler>>

(* The turn has begun: an approval may have paused the run already.  An    *)
(* error, of the event too, cancels the turn and leaves the run.           *)
markStarted ==
    /\ sup.pc = "mark"
    /\ \/ run' = "running" /\ sup' = [pc |-> "watch", signaled |-> FALSE] /\ UNCHANGED <<ctx, faults>>
       \/ /\ (StoreFails /\ run' = run) \/ (Fault("publish") /\ run' = "running")
          /\ GoesOn("idle")
          /\ ctx' = Cancelled
    /\ UNCHANGED <<provider, store, answers, wire, out, rec, stream, pending, handler, outside>>

(* The handler of the run waits no longer: stop cancels the supervision,   *)
(* unless an approval has made the handler return.                         *)
TimeOut ==
    /\ sup.pc = "watch" /\ ~sup.signaled /\ Fault("timeout")
    /\ ctx' = Cancelled
    /\ sup' = [sup EXCEPT !.signaled = TRUE]
    /\ UNCHANGED <<provider, run, store, answers, wire, out, rec, stream, pending, handler, outside>>

-----------------------------------------------------------------------------
(* streamTurn of the provider.                                             *)

Send(event) == Len(out) < Buffer /\ out' = Append(out, event)

Unsubscribe == wire' = Unplugged /\ notes' = <<>> /\ requests' = <<>>

StreamStart ==
    /\ wire.on /\ ~wire.started
    /\ Send(TurnStarted)
    /\ wire' = [wire EXCEPT !.started = TRUE]
    /\ UNCHANGED <<provider, run, store, answers, sup, ctx, rec, stream, pending, handler, outside, faults>>

StreamNotInvoked ==
    /\ wire.on /\ wire.started /\ ~wire.invoked
    /\ Send(TurnEnded("completed"))
    /\ Unsubscribe
    /\ UNCHANGED <<provider, run, store, answers, sup, ctx, rec, stream, pending, handler, agent, sent, faults>>

(* One message; a terminal event ends the stream.  A prompt that yields is *)
(* held back until the session settles.                                    *)
Pass(note) == Send(MapNote(note)) /\ notes' = Tail(notes) /\ UNCHANGED <<wire, requests>>

codexStream(note) ==
    \/ note.type = "turn" /\ Send(MapNote(note)) /\ Unsubscribe
    \/ note.type # "turn" /\ Pass(note)

ompStream(note) ==
    \/ /\ note.type = "yield"
       /\ wire' = [wire EXCEPT !.held = note.status]
       /\ notes' = Tail(notes) /\ UNCHANGED <<out, requests>>
    \/ note.type = "settled" /\ Send(TurnEnded(wire.held)) /\ Unsubscribe
    \/ note.type = "turn" /\ Send(MapNote(note)) /\ Unsubscribe
    \/ note.type \in {"started", "completed", "failed"} /\ Pass(note)

StreamNote ==
    /\ wire.on /\ wire.started /\ wire.invoked /\ notes # <<>>
    /\ IF provider = "codex" THEN codexStream(Head(notes)) ELSE ompStream(Head(notes))
    /\ UNCHANGED <<provider, run, store, answers, sup, ctx, rec, stream, pending, handler, agent, sent, faults>>

(* One request: it can be answered from now on.                            *)
StreamRequest ==
    /\ wire.on /\ wire.started /\ requests # <<>>
    /\ Send(mapServerRequest(Head(requests)))
    /\ pending' = pending \cup {Head(requests)}
    /\ requests' = Tail(requests)
    /\ UNCHANGED <<provider, run, store, answers, sup, ctx, wire, rec, stream, handler, agent, notes, sent, faults>>

(* The context has ended, or the channel of notifications is closed.       *)
StreamStops ==
    /\ wire.on
    /\ \/ ~ctx.manager
       \/ wire.started /\ wire.invoked /\ agent.state = "dead" /\ notes = <<>>
    /\ Unsubscribe
    /\ UNCHANGED <<provider, run, store, answers, sup, ctx, out, rec, stream, pending, handler, agent, sent, faults>>

-----------------------------------------------------------------------------
(* recordRun: every event is written, shown to the bridge and passed on.   *)

RecorderStops(error) ==
    /\ rec' = [Silent EXCEPT !.error = error]
    /\ ctx' = [ctx EXCEPT !.manager = FALSE]

(* persistEvent.  Its notion of the turn is its own: it does not read what *)
(* RespondApproval has written.                                            *)
persistEvent ==
    /\ rec.pc = "read" /\ ctx.manager /\ out # <<>>
    /\ out' = Tail(out)
    /\ LET e       == Head(out)
           moves   == e.status \notin {"none", rec.turn}
           item    == e.type \in {"item", "approval"}
           refused == item /\ moves /\ ~CanTransitionTurnStatus(rec.turn, e.status)
           row     == IF item THEN [items EXCEPT ![e.key] = e.row] ELSE items
       IN  \/ /\ ~refused /\ items' = row
              /\ IF moves \/ ~item THEN PutTurn(agent.id, e.status) ELSE UNCHANGED turns
              /\ rec' = [rec EXCEPT !.pc = IF e.type = "approval" THEN "insert" ELSE "forward",
                                    !.event = e, !.turn = IF moves THEN e.status ELSE @]
              /\ UNCHANGED <<ctx, faults>>
           \/ /\ IF refused THEN UNCHANGED faults ELSE StoreFails
              /\ items' \in {items, row} /\ UNCHANGED turns
              /\ RecorderStops(TRUE)
    /\ UNCHANGED <<provider, run, bound, threads, approvals, given, answers, sup, wire, stream,
                   pending, handler, outside>>

(* Bridge.HandleEvent: the approval, once for an item ...                  *)
InsertApproval ==
    /\ rec.pc = "insert"
    /\ \/ /\ threads[Len(threads)]
          /\ approvals' = approvals \cup {rec.event.key}
          /\ rec' = [rec EXCEPT !.pc = IF rec.event.key \in approvals THEN "forward" ELSE "pause"]
          /\ UNCHANGED <<ctx, faults>>
       \/ /\ (~threads[Len(threads)] /\ UNCHANGED faults) \/ StoreFails
          /\ RecorderStops(TRUE) /\ UNCHANGED approvals
    /\ UNCHANGED <<provider, run, bound, threads, turns, items, given, answers, sup, wire, out,
                   stream, pending, handler, outside>>

(* ... the run, whatever its status, and the event.                        *)
PauseRun ==
    /\ rec.pc = "pause"
    /\ \/ run' = "paused" /\ rec' = [rec EXCEPT !.pc = "forward"] /\ UNCHANGED <<ctx, faults>>
       \/ /\ (StoreFails /\ run' = run) \/ (Fault("publish") /\ run' = "paused")
          /\ RecorderStops(TRUE)
    /\ UNCHANGED <<provider, store, answers, sup, wire, out, stream, pending, handler, outside>>

Forward ==
    /\ rec.pc = "forward" /\ Len(stream) < Buffer
    /\ stream' = Append(stream, rec.event)
    /\ rec' = [rec EXCEPT !.pc = "read", !.event = NoEvent]
    /\ UNCHANGED <<provider, run, store, answers, sup, ctx, wire, out, pending, handler, outside, faults>>

(* The provider closed its channel, or the context has ended.              *)
RecorderEnds ==
    /\ rec.pc \in {"read", "forward"}
    /\ ~ctx.manager \/ (rec.pc = "read" /\ ~wire.on /\ out = <<>>)
    /\ RecorderStops(FALSE)
    /\ UNCHANGED <<provider, run, store, answers, sup, wire, out, stream, pending, handler, outside, faults>>

-----------------------------------------------------------------------------
(* supervise.                                                              *)

EndSupervision(status) ==
    /\ run' = status
    /\ sup' = Unwatched
    /\ ctx' = Cancelled

Watching == sup.pc = "watch"

(* An approval lets the handler of the run return.                         *)
Suspend ==
    /\ Watching /\ stream # <<>> /\ Head(stream).type = "approval"
    /\ stream' = Tail(stream)
    /\ sup' = [sup EXCEPT !.signaled = TRUE]
    /\ UNCHANGED <<provider, run, store, answers, ctx, wire, out, rec, pending, handler, outside, faults>>

SkipEvent ==
    /\ Watching /\ stream # <<>> /\ Head(stream).type \in {"turn_started", "item"}
    /\ stream' = Tail(stream)
    /\ UNCHANGED <<provider, run, store, answers, sup, ctx, wire, out, rec, pending, handler, outside, faults>>

(* The UPDATE fails: the supervision ends, and the run keeps its status.   *)
Unwritten == EndSupervision(run) /\ Fault("outcome")

(* VerifyExternalRunCompletion passes the work, or fails the run.          *)
completeRun ==
    /\ Watching /\ stream # <<>> /\ Head(stream) = TurnEnded("completed")
    /\ stream' = Tail(stream)
    /\ \/ EndSupervision("completed") /\ UNCHANGED faults
       \/ EndSupervision("failed") /\ Fault("gate")
       \/ Unwritten
    /\ UNCHANGED <<provider, store, answers, wire, out, rec, pending, handler, outside>>

\* Slip: a stream that ends without a terminal event ends the supervision only.
ForgetRun ==
    /\ Watching
    /\ \/ stream # <<>> /\ Head(stream).type = "turn_ended" /\ Head(stream).status # "completed"
          /\ EndSupervision("failed")
       \/ rec.pc = "off" /\ stream = <<>> /\ EndSupervision(run)
    /\ stream' = <<>>
    /\ UNCHANGED <<provider, store, answers, wire, out, rec, pending, handler, outside, faults>>

(* failRun: the turn failed or was interrupted, the stream has an error or *)
(* ended without a terminal event, or the supervisor's context has ended.  *)
failRun ==
    /\ Watching
    /\ \/ ~ctx.supervisor
       \/ rec.error
       \/ stream # <<>> /\ Head(stream).type = "turn_ended" /\ Head(stream).status # "completed"
       \/ rec.pc = "off" /\ stream = <<>>
    /\ (EndSupervision("failed") /\ UNCHANGED faults) \/ Unwritten
    /\ stream' = <<>>
    /\ UNCHANGED <<provider, store, answers, wire, out, rec, pending, handler, outside>>

-----------------------------------------------------------------------------
(* Answers.                                                                *)

(* The API answers once (Gate); the service may answer over it.            *)
AnswerApproval(key, response) ==
    /\ key \in approvals
    /\ given[key] = {} \/ ("twice" \in Faults /\ response \notin given[key])
    /\ given' = [given EXCEPT ![key] = @ \cup {response}]
    /\ answers' = answers \cup {<<key, response>>}
    /\ UNCHANGED <<provider, run, bound, threads, turns, items, approvals, sup, process, handler, outside, faults>>

Handles(r, step) == handler' = [handler EXCEPT ![r].pc = step]

(* The subscription acknowledges a message whose handler returns an error. *)
Done(r) ==
    /\ answers' = answers \ {<<handler[r].key, r>>}
    /\ handler' = [handler EXCEPT ![r] = [pc |-> "idle", key |-> NoKey]]

Receive(r, key) ==
    /\ handler[r].pc = "idle" /\ <<key, r>> \in answers
    /\ handler' = [handler EXCEPT ![r] = [pc |-> "read", key |-> key]]
    /\ UNCHANGED <<provider, run, store, answers, sup, process, outside, faults>>

(* RespondApproval's reads: only a pending approval of a paused turn.  One *)
(* that was answered is not an error.                                      *)
ReadApproval(r) ==
    /\ handler[r].pc = "read"
    /\ LET key  == handler[r].key
           item == items[key]
       IN  \/ /\ item.kind = "approval" /\ item.status \in {"completed", "cancelled"}
              /\ Handles(r, "resume") /\ UNCHANGED <<answers, faults>>
           \/ /\ item = Row("approval", "pending") /\ turns[key[1]] = "paused"
              /\ Handles(r, "mark") /\ UNCHANGED <<answers, faults>>
           \/ /\ \/ item.kind # "approval"
                 \/ item.status = "running"
                 \/ item.status = "pending" /\ turns[key[1]] # "paused"
              /\ Done(r) /\ UNCHANGED faults
           \/ StoreFails /\ Done(r)
    /\ UNCHANGED <<provider, run, store, sup, process, outside>>

(* The item is marked as being dispatched.                                 *)
MarkDispatch(r) ==
    /\ handler[r].pc = "mark"
    /\ \/ /\ PutItem(handler[r].key, Row("approval", "running"))
          /\ Handles(r, "send") /\ UNCHANGED <<answers, faults>>
       \/ StoreFails /\ Done(r) /\ UNCHANGED items
    /\ UNCHANGED <<provider, run, bound, threads, turns, approvals, given, sup, process, outside>>

Decide(r, key) ==
    /\ sent' = [sent EXCEPT ![key] = Append(@, r)]
    /\ agent' = IF key[1] = agent.begun /\ agent.phase[key[2]] = "asked"
                THEN [agent EXCEPT !.phase[key[2]] = "decided"] ELSE agent

Refuse(r) ==
    /\ PutItem(handler[r].key, Row("approval", "pending"))
    /\ Done(r)

\* Slip: the request is looked up but not taken.
SendKeeps(r) ==
    /\ handler[r].pc = "send"
    /\ LET key == handler[r].key IN
       \/ key \in pending /\ Alive /\ Decide(r, key) /\ Handles(r, "final")
          /\ UNCHANGED <<items, answers, pending>>
       \/ key \notin pending /\ Refuse(r) /\ UNCHANGED <<pending, sent, agent>>
    /\ UNCHANGED <<provider, run, bound, threads, turns, approvals, given, sup, ctx, wire, out,
                   rec, stream, notes, requests, faults>>

(* Provider.RespondApproval takes the request, and puts it back if the     *)
(* agent cannot be written to.                                             *)
SendDecision(r) ==
    /\ handler[r].pc = "send"
    /\ LET key == handler[r].key IN
       \/ /\ key \in pending /\ Alive
          /\ pending' = pending \ {key}
          /\ Decide(r, key) /\ Handles(r, "final") /\ UNCHANGED <<items, answers, faults>>
       \/ /\ (key \notin pending /\ UNCHANGED faults) \/ CallFails
          /\ Refuse(r) /\ UNCHANGED <<pending, sent, agent>>
    /\ UNCHANGED <<provider, run, bound, threads, turns, approvals, given, sup, ctx, wire, out,
                   rec, stream, notes, requests>>

FinalItem(r) ==
    /\ handler[r].pc = "final"
    /\ \/ /\ PutItem(handler[r].key, Row("approval", IF r = "approved" THEN "completed" ELSE "cancelled"))
          /\ Handles(r, "turn") /\ UNCHANGED <<answers, faults>>
       \/ StoreFails /\ Done(r) /\ UNCHANGED items
    /\ UNCHANGED <<provider, run, bound, threads, turns, approvals, given, sup, process, outside>>

(* The turn as it was read, running: whatever became of it since.          *)
ResumeTurn(r) ==
    /\ handler[r].pc = "turn"
    /\ \/ /\ PutTurn(handler[r].key[1], "running")
          /\ Handles(r, "resume") /\ UNCHANGED <<answers, faults>>
       \/ StoreFails /\ Done(r) /\ UNCHANGED turns
    /\ UNCHANGED <<provider, run, bound, threads, items, approvals, given, sup, process, outside>>

(* respondAgentRuntimeApproval: the run, if it is paused.  (Its task is    *)
(* module Pipeline's.)                                                     *)
ResumeRun(r) ==
    /\ handler[r].pc = "resume"
    /\ \/ run' = (IF run = "paused" THEN "running" ELSE run) /\ UNCHANGED faults
       \/ StoreFails /\ UNCHANGED run
    /\ Done(r)
    /\ UNCHANGED <<provider, store, sup, process, outside>>

(* The worker dies, and its agent with it.  Messages are delivered again.  *)
Crash ==
    /\ Fault("crash")
    /\ sup' = Unwatched
    /\ ctx' = Cancelled
    /\ wire' = Unplugged /\ out' = <<>> /\ stream' = <<>>
    /\ rec' = Silent
    /\ pending' = {}
    /\ handler' = [r \in Responses |-> [pc |-> "idle", key |-> NoKey]]
    /\ agent' = [Asleep EXCEPT !.begun = agent.begun]
    /\ notes' = <<>> /\ requests' = <<>>
    /\ UNCHANGED <<provider, run, store, answers, sent>>

-----------------------------------------------------------------------------
TurnsInit ==
    /\ provider \in Provider
    /\ run = "queued" /\ bound = FALSE /\ threads = <<>>
    /\ turns = [t \in 1..MaxTurns |-> "none"]
    /\ items = [k \in Key |-> Row("none", "none")]
    /\ approvals = {} /\ given = [k \in Key |-> {}] /\ answers = {}
    /\ sup = Unwatched
    /\ ctx = Cancelled
    /\ wire = Unplugged
    /\ out = <<>> /\ stream = <<>> /\ notes = <<>> /\ requests = <<>>
    /\ rec = Silent
    /\ pending = {}
    /\ handler = [r \in Responses |-> [pc |-> "idle", key |-> NoKey]]
    /\ agent = Asleep
    /\ sent = [k \in Key |-> <<>>]
    /\ faults = {}

AgentStep ==
    \/ \E i \in Item : StartItem(i) \/ RequestApproval(i) \/ FinishItem(i)
    \/ \E status \in Ends : EndTurn(status)
    \/ SettleSession \/ Close

loadOrCreateThread == CreateThread \/ persistThreadID \/ ResumeThread

ExecuteStep == ExecuteExternalRun \/ loadOrCreateThread \/ RunTurn \/ markStarted

StreamStep == StreamStart \/ StreamNotInvoked \/ StreamNote \/ StreamRequest \/ StreamStops

RecordStep == persistEvent \/ InsertApproval \/ PauseRun \/ Forward \/ RecorderEnds

SuperviseStep == Suspend \/ SkipEvent \/ completeRun \/ failRun

RespondStep(r) ==
    \/ ReadApproval(r) \/ MarkDispatch(r) \/ SendDecision(r)
    \/ FinalItem(r) \/ ResumeTurn(r) \/ ResumeRun(r)

TurnsNext ==
    \/ AgentStep \/ ExecuteStep \/ StreamStep \/ RecordStep \/ SuperviseStep
    \/ \E r \in Responses : RespondStep(r)
    \/ \E key \in Key, r \in Responses : AnswerApproval(key, r) \/ Receive(r, key)
    \/ TimeOut \/ Crash

TurnsSpec == TurnsInit /\ [][TurnsNext]_turnsVars

(* The goroutines of a worker that does not crash go on.  Nothing makes the*)
(* agent do anything, a person answer or a fault happen.                   *)
FairSpec ==
    /\ TurnsSpec
    /\ WF_turnsVars(ExecuteStep) /\ WF_turnsVars(StreamStep) /\ WF_turnsVars(RecordStep) /\ WF_turnsVars(SuperviseStep)
    /\ \A r \in Responses : WF_turnsVars(RespondStep(r))

-----------------------------------------------------------------------------
(* Properties.                                                             *)

Events == { NoEvent, TurnStarted } \cup { TurnEnded(s) : s \in Ends }
          \cup { mapServerRequest(k) : k \in Key }
          \cup { Event("item", k, Row("work", s), t) :
                    k \in Key, s \in {"running", "completed", "failed"}, t \in {"running", "none"} }

(* Every variable has its type; a turn, an item and a run have the statuses*)
(* of protocol.go and agent.go only, whoever writes them.                  *)
TurnsTypeOK ==
    /\ provider \in Providers
    /\ run \in {"queued", "running", "paused", "completed", "failed"}
    /\ bound \in BOOLEAN /\ threads \in Seq(BOOLEAN)
    /\ turns \in [1..MaxTurns -> TurnStatuses]
    /\ items \in [Key -> [kind : ItemKinds, status : ItemStatuses]]
    /\ approvals \subseteq Key /\ given \in [Key -> SUBSET Responses] /\ answers \subseteq Key \X Responses
    /\ sup \in [pc : {"idle", "thread", "bind", "start", "mark", "watch"}, signaled : BOOLEAN]
    /\ ctx \in [supervisor : BOOLEAN, manager : BOOLEAN]
    /\ wire \in [on : BOOLEAN, invoked : BOOLEAN, held : Ends \cup {"none"}, started : BOOLEAN]
    /\ out \in Seq(Events) /\ stream \in Seq(Events)
    /\ rec \in [pc : {"off", "read", "insert", "pause", "forward"}, event : Events,
                turn : TurnStatuses, error : BOOLEAN]
    /\ pending \subseteq Key
    /\ handler \in [Responses -> [pc : {"idle", "read", "mark", "send", "final", "turn", "resume"},
                                  key : Key \cup {NoKey}]]
    /\ sent \in [Key -> Seq(Responses)] /\ faults \subseteq Faults
    /\ bound => threads # <<>>

(* "The generic bridge grants only the single requested action" (codex/    *)
(* approval.go:109).  A request of the agent is answered at most once, and *)
(* by a response that a person gave to this very request: with answers that*)
(* come twice and contradict each other, two handlers at work, failures of *)
(* every statement and crashes between the marking, the dispatch and the   *)
(* result.                                                                 *)
DecidedOnce ==
    \A k \in Key : /\ Len(sent[k]) <= 1
                   /\ \A n \in DOMAIN sent[k] : sent[k][n] \in given[k]

(* A turn that is over ends its run: the last event, or the end of the     *)
(* stream, passes three goroutines and two contexts, any of which may stop *)
(* first, and the supervisor still writes completed or failed.  Unless the *)
(* worker dies, or that very UPDATE fails: completeRun then returns,       *)
(* failRun does not look, and the run stays as it was.                     *)
EndedTurnEndsRun ==
    sup.pc = "watch" /\ agent.state \in {"ended", "dead"} ~>
        run \in {"completed", "failed"} \/ {"crash", "outcome"} \cap faults # {}

=============================================================================
