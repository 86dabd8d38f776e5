----------------------------- MODULE Callbacks -----------------------------
(***************************************************************************)
(* What goes out: the signed callback that tells the platform a task came  *)
(* from of its pull request or its failure, and the messages to the chats. *)
(*                                                                         *)
(* A worker has one subscription for each kind of event, and a             *)
(* subscription handles one message at a time.  The receiver of the        *)
(* callbacks and the chats are external: a call may fail, or be carried    *)
(* out and its answer lost.  Callback and chats come after the effect they *)
(* tell of, and what becomes of them decides nothing: the message is       *)
(* acknowledged.  A worker that crashes before that gets it again.         *)
(***************************************************************************)
EXTENDS Naturals, Sequences, FiniteSetsExt

CONSTANTS
    Task,           \* tasks
    Chat,           \* the Slack and Discord integrations of the organisation
    Attempts,       \* attempts at a callback
    MaxNotices,     \* bound on the events that are published
    MaxPulls,       \* bound on the pull requests of a task
    MaxWorkerFalls  \* bound on the crashes of the worker

ASSUME CallbacksAssumption ==
    /\ IsFiniteSet(Task) /\ IsFiniteSet(Chat)
    /\ Attempts \in 1..10 /\ {MaxNotices, MaxPulls, MaxWorkerFalls} \subseteq Nat

(* The subscriptions: approval.approved, approval.rejected,                *)
(* approval.requested, tasks.completed and tasks.failed.                   *)
Subject == {"approved", "rejected", "requested", "completed", "failed"}

VARIABLES
    live,      \* tasks that are not deleted
    optIn,     \* the events a task wants a callback of
    waiting,   \* the messages of a subscription that are not acknowledged
    handler,   \* the handler of a subscription
    notices,   \* how often something of a task was published on a subject
    pulls,     \* the pull requests of a task: how many, and whether the last is open
    receiver,  \* the platform: the event ids it knows, and what it acted on
    told,      \* chats that were told of a task
    falls

tidings      == <<live, optIn, notices>>
deliveryVars == <<tidings, waiting, handler, pulls, receiver, told, falls>>

EventType == {"build.failed", "build.pr_created"}
Quiet     == [pc |-> "idle"]

-----------------------------------------------------------------------------
(* What the handlers hear of, from the modules Pipeline and Gate.          *)

Notice(s, t) ==
    /\ MapThenSumSet(LAMBDA x : notices[x], Subject \X Task) < MaxNotices
    /\ notices' = [notices EXCEPT ![<<s, t>>] = @ + 1]
    /\ waiting' = [waiting EXCEPT ![s] = Append(@, t)]
    /\ UNCHANGED <<live, optIn, handler, pulls, receiver, told, falls>>

TaskDeleted(t) ==
    /\ t \in live /\ live' = live \ {t}
    /\ UNCHANGED <<optIn, notices, waiting, handler, pulls, receiver, told, falls>>

PullRequestClosed(t) ==
    /\ pulls[t].open /\ pulls' = [pulls EXCEPT ![t].open = FALSE]
    /\ UNCHANGED <<tidings, waiting, handler, receiver, told, falls>>

-----------------------------------------------------------------------------
(* The callback.                                                           *)

(* A callback is due if the task is there and its specification asks for   *)
(* callbacks of this event.                                                *)
callbackEventAllowed(t, e)    == e \in optIn[t]
loadExternalCallbackSpec(t, e) == t \in live /\ callbackEventAllowed(t, e)

\* Slip: every attempt has an id of its own.
eventIDPerAttempt(c) == <<c.event, c.task, c.attempt>>

(* The id is the same in every attempt and every delivery: one for the     *)
(* failure of a task, one for each pull request.                           *)
eventID(c) == <<c.event, c.task, IF c.event = "build.failed" THEN 0 ELSE c.pull>>

Calling(s, t, e, n) == [pc |-> "call", task |-> t, event |-> e, pull |-> n, attempt |-> 1]

Acknowledge(s) ==
    /\ handler' = [handler EXCEPT ![s] = Quiet]
    /\ waiting' = [waiting EXCEPT ![s] = Tail(@)]

(* What follows the callback: tasks.failed is told to the chats, the       *)
(* answers to an approval are done.                                        *)
Proceed(s) ==
    IF s = "failed"
    THEN handler' = [handler EXCEPT ![s] = [pc |-> "chats", task |-> handler[s].task, left |-> Chat]]
         /\ UNCHANGED waiting
    ELSE Acknowledge(s)

(* The handler goes on to the callback if one is due, and past it if not.  *)
Begin(s, t, e, n) ==
    IF loadExternalCallbackSpec(t, e)
    THEN handler' = [handler EXCEPT ![s] = Calling(s, t, e, n)] /\ UNCHANGED waiting
    ELSE IF s = "failed"
    THEN handler' = [handler EXCEPT ![s] = [pc |-> "chats", task |-> t, left |-> Chat]] /\ UNCHANGED waiting
    ELSE Acknowledge(s)

Pending(s) == handler[s] = Quiet /\ waiting[s] # <<>>

(* An approved pull request is created, unless GitHub already has one that *)
(* is open, or fails; then there is nothing to call about.                 *)
HandlePullRequestApproved ==
    LET t == Head(waiting["approved"]) IN
    /\ Pending("approved")
    /\ \/ /\ t \in live /\ ~pulls[t].open /\ pulls[t].made < MaxPulls
          /\ pulls' = [pulls EXCEPT ![t] = [made |-> @.made + 1, open |-> TRUE]]
          /\ Begin("approved", t, "build.pr_created", pulls[t].made + 1)
       \/ Acknowledge("approved") /\ UNCHANGED pulls
    /\ UNCHANGED <<tidings, receiver, told, falls>>

HandleApprovalRejected ==
    /\ Pending("rejected") /\ Begin("rejected", Head(waiting["rejected"]), "build.failed", 0)
    /\ UNCHANGED <<tidings, pulls, receiver, told, falls>>

HandleTaskFailed ==
    /\ Pending("failed") /\ Begin("failed", Head(waiting["failed"]), "build.failed", 0)
    /\ UNCHANGED <<tidings, pulls, receiver, told, falls>>

(* One attempt.  The receiver acts on an id it does not know.  The answer  *)
(* is good, or there is none, a 5xx or a 429, which is tried again, or any *)
(* other, which is not.                                                    *)
Attempt(s, arrives, answer) ==
    LET c == handler[s] IN
    /\ c.pc = "call"
    /\ answer = "ok" => arrives
    /\ receiver' = IF arrives /\ eventID(c) \notin receiver.known
                   THEN [known |-> receiver.known \cup {eventID(c)},
                         acts  |-> [receiver.acts EXCEPT ![<<c.event, c.task>>] = @ + 1]]
                   ELSE receiver
    /\ IF answer = "again" /\ c.attempt < Attempts
       THEN handler' = [handler EXCEPT ![s].attempt = @ + 1] /\ UNCHANGED waiting
       ELSE Proceed(s)
    /\ UNCHANGED <<tidings, pulls, told, falls>>

notifyExternalTaskCallback(s) ==
    \E arrives \in BOOLEAN, answer \in {"ok", "again", "no"} : Attempt(s, arrives, answer)

-----------------------------------------------------------------------------
(* The chats.                                                              *)

HandleForChats(s) ==
    /\ s \in {"requested", "completed"} /\ Pending(s)
    /\ handler' = [handler EXCEPT ![s] = [pc |-> "chats", task |-> Head(waiting[s]), left |-> Chat]]
    /\ UNCHANGED <<tidings, waiting, pulls, receiver, told, falls>>

(* A task that is deleted has no organisation.                             *)
lookupTaskOrganization(t) == t \in live

(* PostMessage, SendMessage or SendWebhook: one chat that fails, or has no *)
(* channel, does not keep the next from being told.                        *)
SendTo(s, c) ==
    LET h == handler[s] IN
    /\ h.pc = "chats" /\ c \in h.left /\ lookupTaskOrganization(h.task)
    /\ handler' = [handler EXCEPT ![s].left = @ \ {c}]
    /\ told' \in {told, told \cup {<<c, h.task>>}}
    /\ UNCHANGED <<tidings, waiting, pulls, receiver, falls>>

Told(s) ==
    /\ handler[s].pc = "chats"
    /\ handler[s].left = {} \/ ~lookupTaskOrganization(handler[s].task)
    /\ Acknowledge(s)
    /\ UNCHANGED <<tidings, pulls, receiver, told, falls>>

(* The handlers of the worker are gone; no message was acknowledged.       *)
WorkerFalls ==
    /\ falls < MaxWorkerFalls /\ falls' = falls + 1
    /\ handler' = [s \in Subject |-> Quiet]
    /\ UNCHANGED <<tidings, waiting, pulls, receiver, told>>

-----------------------------------------------------------------------------
DeliveryInit ==
    /\ live = Task /\ optIn \in [Task -> SUBSET EventType]
    /\ waiting = [s \in Subject |-> <<>>] /\ handler = [s \in Subject |-> Quiet]
    /\ notices = [x \in Subject \X Task |-> 0]
    /\ pulls = [t \in Task |-> [made |-> 0, open |-> FALSE]]
    /\ receiver = [known |-> {}, acts |-> [x \in EventType \X Task |-> 0]]
    /\ told = {} /\ falls = 0

DeliveryNext ==
    \/ \E t \in Task : TaskDeleted(t) \/ PullRequestClosed(t) \/ \E s \in Subject : Notice(s, t)
    \/ HandlePullRequestApproved \/ HandleApprovalRejected \/ HandleTaskFailed
    \/ \E s \in Subject :
          notifyExternalTaskCallback(s) \/ HandleForChats(s) \/ Told(s) \/ \E c \in Chat : SendTo(s, c)
    \/ WorkerFalls

-----------------------------------------------------------------------------
(* Properties.                                                             *)

DeliveryTypeOK ==
    /\ live \subseteq Task /\ optIn \in [Task -> SUBSET EventType] /\ falls \in 0..MaxWorkerFalls
    /\ notices \in [Subject \X Task -> 0..MaxNotices]
    /\ pulls \in [Task -> [made : 0..MaxPulls, open : BOOLEAN]]
    /\ \A s \in Subject : /\ handler[s].pc \in {"idle", "call", "chats"}
                          /\ handler[s] # Quiet => waiting[s] # <<>> /\ handler[s].task = Head(waiting[s])
    /\ receiver.acts \in [EventType \X Task -> Nat] /\ told \subseteq Chat \X Task

Occurred(e, t) ==
    IF e = "build.pr_created" THEN pulls[t].made ELSE notices[<<"failed", t>>] + notices[<<"rejected", t>>]

(* A receiver that ignores an event_id it knows acts no more often than a  *)
(* pull request was created or the task failed, however many attempts of   *)
(* notifyExternalTaskCallback reached it unanswered and however many times *)
(* a worker that crashed got the message again.                            *)
ReceiverActsOnce == \A e \in EventType, t \in Task : receiver.acts[<<e, t>>] <= Occurred(e, t)

=============================================================================
