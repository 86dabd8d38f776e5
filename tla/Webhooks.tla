------------------------------ MODULE Webhooks ------------------------------
(***************************************************************************)
(* What comes in from GitHub, Linear and the chats: the webhook endpoints  *)
(* of the API, which publish every event on the WEBHOOKS stream and handle *)
(* those of an integration at once; the consumer of the worker, which      *)
(* makes tasks of issues; and the integrations that both look up.          *)
(*                                                                         *)
(* The consumer is subscribed to webhooks.*, what it publishes itself      *)
(* included, and does not look at the subject of a message.  One worker    *)
(* handles a message at a time; the subscription acknowledges a message    *)
(* when its handler returns, whatever it returns.                          *)
(***************************************************************************)
EXTENDS Naturals, Sequences, FiniteSets

CONSTANTS
    Issue,       \* issues, commands and payloads of the providers
    Provider,    \* the types of the integrations: a subset of Providers
    Request,     \* the requests an integration endpoint serves at a time
    MaxSends,    \* bound on the events that are sent
    MaxTasks,    \* bound on the tasks of one origin
    MaxChanges,  \* bound on the changes of integrations
    MaxCrashes   \* bound on the crashes of the worker

Providers == {"linear", "slack", "discord", "webhook"}

ASSUME WebhooksAssumption ==
    /\ IsFiniteSet(Issue) /\ Provider \subseteq Providers /\ IsFiniteSet(Request)
    /\ {MaxSends, MaxTasks, MaxChanges, MaxCrashes} \subseteq Nat

VARIABLES
    sends,         \* events that were sent
    integrations,  \* the integrations table
    verify,        \* VerifyIntegration: the provider it is at, or none
    request,       \* IntegrationWebhook
    stream,        \* the WEBHOOKS stream
    consumer,      \* Handle of the worker
    tasks,         \* how many tasks there are of an origin
    receipts,      \* how often webhooks.received of an issue was delivered
    changes,
    crashes

table       == <<integrations, verify, changes>>
intakeVars  == <<sends, table, request, stream, consumer, tasks, receipts, crashes>>

-----------------------------------------------------------------------------
(* Messages.  What matters of an event is its source, its type, whether it *)
(* has its payload and names a repository, and the issue.                  *)

IssueTypes == {"issues", "Issue"}
Types      == IssueTypes \cup {"command", "other"}

Received(source, type, i) ==
    [subject |-> "received", source |-> source, type |-> type, payload |-> TRUE,
     repo |-> source = "github", issue |-> i]

\* Slip: the event is published as it came.
processedWhole(m) == [m EXCEPT !.subject = "processed"]

(* publishWebhookProcessed passes the payload on and no repository,        *)
(* publishWebhookFailed neither.                                           *)
processed(m) == [m EXCEPT !.subject = "processed", !.repo = FALSE]
failed(m)    == [m EXCEPT !.subject = "failed", !.repo = FALSE, !.payload = FALSE]

Origins == {"github", "linear", "linear_id", "chat", "webhook"}
Origin  == Origins \X Issue

insertTask(o) ==
    /\ tasks[o] < MaxTasks
    /\ tasks' = [tasks EXCEPT ![o] = @ + 1]

-----------------------------------------------------------------------------
(* The endpoints of the API.  A request whose signature is wrong, or that  *)
(* only asks for an answer, changes nothing; neither does one whose event  *)
(* cannot be published.                                                    *)

publishWebhookEvent(source, type, i) ==
    /\ sends < MaxSends /\ sends' = sends + 1
    /\ stream' = Append(stream, Received(source, type, i))
    /\ UNCHANGED <<table, request, consumer, tasks, receipts, crashes>>

GitHubWebhook(i) == \E type \in {"issues", "other"} : publishWebhookEvent("github", type, i)
LinearWebhook(i) == \E type \in {"Issue", "other"} : publishWebhookEvent("linear", type, i)
SlackWebhook(i)   == publishWebhookEvent("slack", "other", i)
DiscordWebhook(i) == publishWebhookEvent("discord", "other", i)

Free == [pc |-> "free"]

(* The event type the stream is told: an issue of Linear has its own.      *)
extractLinearEventType(p) == IF p = "linear" THEN {"Issue", "other"} ELSE {"command"}

(* An integration that is not deleted is looked up, whatever its status.   *)
lookupIntegration(p) == integrations[p] \notin {"absent", "deleted"}

(* The event is published before it is handled.                            *)
IntegrationWebhook(c, p, i) ==
    /\ request[c] = Free /\ lookupIntegration(p)
    /\ sends < MaxSends /\ sends' = sends + 1
    /\ \E type \in extractLinearEventType(p) : stream' = Append(stream, Received(p, type, i))
    /\ request' = [request EXCEPT ![c] = [pc |-> "handle", provider |-> p, issue |-> i]]
    /\ UNCHANGED <<table, consumer, tasks, receipts, crashes>>

(* The request is answered; the time the integration was synced is left    *)
(* out.                                                                    *)
touchIntegrationSync(c) == request' = [request EXCEPT ![c] = Free]

Refused(c) ==
    /\ request[c].pc \in {"handle", "insert"}
    /\ request' = [request EXCEPT ![c] = Free]
    /\ UNCHANGED <<sends, table, stream, consumer, tasks, receipts, crashes>>

(* handleLinearEvent: the task of an issue, by the id of the issue, is     *)
(* looked up and then inserted or updated.                                 *)
LinearLookup(c) ==
    /\ request[c].pc = "handle" /\ request[c].provider = "linear"
    /\ IF tasks[<<"linear_id", request[c].issue>>] = 0
       THEN request' = [request EXCEPT ![c].pc = "insert"]
       ELSE touchIntegrationSync(c)
    /\ UNCHANGED <<sends, table, stream, consumer, tasks, receipts, crashes>>

LinearInsert(c) ==
    /\ request[c].pc = "insert"
    /\ insertTask(<<"linear_id", request[c].issue>>)
    /\ touchIntegrationSync(c)
    /\ UNCHANGED <<sends, table, stream, consumer, receipts, crashes>>

(* The create command of a chat.  (The others are module Gate's.)          *)
CommandCreate(c) ==
    /\ request[c].pc = "handle" /\ request[c].provider \in {"slack", "discord"}
    /\ insertTask(<<"chat", request[c].issue>>)
    /\ touchIntegrationSync(c)
    /\ UNCHANGED <<sends, table, stream, consumer, receipts, crashes>>

handleGenericWebhookTask(c) ==
    /\ request[c].pc = "handle" /\ request[c].provider = "webhook"
    /\ insertTask(<<"webhook", request[c].issue>>)
    /\ touchIntegrationSync(c)
    /\ UNCHANGED <<sends, table, stream, consumer, receipts, crashes>>

-----------------------------------------------------------------------------
(* Integrations.                                                           *)

(* Pending, error and disconnected are alike to those who look.            *)
Statuses == {"absent", "unconnected", "connected", "deleted"}

Change(p, status) ==
    /\ changes < MaxChanges /\ changes' = changes + 1
    /\ integrations' = [integrations EXCEPT ![p] = status]
    /\ UNCHANGED <<sends, request, stream, consumer, tasks, receipts, crashes>>

(* With a token or a URL, which is tried out, it is connected.             *)
CreateIntegration(p) ==
    /\ integrations[p] = "absent"
    /\ \E status \in {"unconnected", "connected"} : Change(p, status)
    /\ UNCHANGED verify

(* The status is what the request says, or connected with a new token.     *)
UpdateIntegration(p) ==
    /\ lookupIntegration(p)
    /\ \E status \in Statuses \ {"absent", "deleted"} : Change(p, status)
    /\ UNCHANGED verify

DeleteIntegration(p) ==
    /\ lookupIntegration(p)
    /\ Change(p, "deleted")
    /\ UNCHANGED verify

(* The credentials that were read are tried out, and then the status of    *)
(* whatever row there is by now is written.                                *)
VerifyRead(p) ==
    /\ verify = "none" /\ lookupIntegration(p)
    /\ changes < MaxChanges /\ changes' = changes + 1
    /\ verify' = p
    /\ UNCHANGED <<sends, integrations, request, stream, consumer, tasks, receipts, crashes>>

VerifyWrite ==
    /\ verify # "none" /\ verify' = "none"
    /\ \E status \in {"unconnected", "connected"} :
          integrations' = IF lookupIntegration(verify)
                          THEN [integrations EXCEPT ![verify] = status] ELSE integrations
    /\ UNCHANGED <<sends, changes, request, stream, consumer, tasks, receipts, crashes>>

-----------------------------------------------------------------------------
(* The consumer.                                                           *)

Message == Head(stream)

Step(pc) == consumer' = [consumer EXCEPT !.pc = pc]

Receive ==
    /\ consumer.pc = "idle" /\ stream # <<>>
    /\ Step("handle")
    /\ receipts' = IF Message.subject = "received" THEN [receipts EXCEPT ![Message.issue] = @ + 1] ELSE receipts
    /\ UNCHANGED <<sends, table, request, stream, tasks, crashes>>

(* The integration of the team of a Linear issue: it has to be connected.  *)
lookupLinearIntegration == "linear" \in Provider /\ integrations["linear"] = "connected"

(* The task an event is to make, if any: an issue of GitHub that was opened*)
(* in a repository that is known, or an issue of Linear of a team that is. *)
handleGitHub(m) == IF m.type = "issues" /\ m.repo THEN {<<"github", m.issue>>} ELSE {}
handleLinear(m) == IF m.type = "Issue" /\ lookupLinearIntegration THEN {<<"linear", m.issue>>} ELSE {}

TaskOf(m) ==
    CASE m.source = "github" -> handleGitHub(m)
      [] m.source = "linear" -> handleLinear(m)
      [] OTHER               -> {}

Readable(m) == m.source \in {"github", "linear"} /\ m.type \in IssueTypes => m.payload

createTask ==
    /\ consumer.pc = "handle" /\ Readable(Message)
    /\ \E o \in TaskOf(Message) : insertTask(o)
    /\ Step("announce")
    /\ UNCHANGED <<sends, table, request, stream, receipts, crashes>>

Ignore ==
    /\ consumer.pc = "handle" /\ Readable(Message) /\ TaskOf(Message) = {}
    /\ Step("processed")
    /\ UNCHANGED <<sends, table, request, stream, tasks, receipts, crashes>>

(* The payload cannot be read, or the database does not answer.            *)
HandleFails ==
    /\ consumer.pc = "handle" /\ (~Readable(Message) \/ TaskOf(Message) # {})
    /\ Step("failed")
    /\ UNCHANGED <<sends, table, request, stream, tasks, receipts, crashes>>

publishTaskCreated ==
    /\ consumer.pc = "announce"
    /\ Step("processed")
    /\ UNCHANGED <<sends, table, request, stream, tasks, receipts, crashes>>

publishWebhookProcessed ==
    /\ consumer.pc = "processed"
    /\ stream' \in {stream, Append(stream, processed(Message))}
    /\ Step("ack")
    /\ UNCHANGED <<sends, table, request, tasks, receipts, crashes>>

publishWebhookFailed ==
    /\ consumer.pc = "failed"
    /\ stream' \in {stream, Append(stream, failed(Message))}
    /\ Step("ack")
    /\ UNCHANGED <<sends, table, request, tasks, receipts, crashes>>

ack ==
    /\ consumer.pc = "ack"
    /\ stream' = Tail(stream)
    /\ Step("idle")
    /\ UNCHANGED <<sends, table, request, tasks, receipts, crashes>>

(* A message that is not acknowledged is delivered again, now or after     *)
(* what was waiting.                                                       *)
ConsumerCrash ==
    /\ consumer.pc # "idle" /\ crashes < MaxCrashes /\ crashes' = crashes + 1
    /\ Step("idle")
    /\ stream' \in {stream, Append(Tail(stream), Message)}
    /\ UNCHANGED <<sends, table, request, tasks, receipts>>

-----------------------------------------------------------------------------
IntakeInit ==
    /\ sends = 0 /\ crashes = 0 /\ changes = 0 /\ verify = "none"
    /\ \E status \in {"absent", "connected"} : integrations = [p \in Provider |-> status]
    /\ request = [c \in Request |-> Free]
    /\ stream = <<>> /\ consumer = [pc |-> "idle"]
    /\ tasks = [o \in Origin |-> 0] /\ receipts = [i \in Issue |-> 0]

Send ==
    \/ \E i \in Issue : GitHubWebhook(i) \/ LinearWebhook(i) \/ SlackWebhook(i) \/ DiscordWebhook(i)
    \/ \E c \in Request, p \in Provider, i \in Issue : IntegrationWebhook(c, p, i)

HandleAtOnce(c) ==
    LinearLookup(c) \/ LinearInsert(c) \/ CommandCreate(c) \/ handleGenericWebhookTask(c) \/ Refused(c)

ChangeIntegrations ==
    \/ \E p \in Provider : CreateIntegration(p) \/ UpdateIntegration(p) \/ DeleteIntegration(p) \/ VerifyRead(p)
    \/ VerifyWrite

Handle ==
    \/ Receive \/ createTask \/ Ignore \/ HandleFails \/ publishTaskCreated
    \/ publishWebhookProcessed \/ publishWebhookFailed \/ ack

IntakeNext ==
    Send \/ (\E c \in Request : HandleAtOnce(c)) \/ ChangeIntegrations \/ Handle \/ ConsumerCrash

-----------------------------------------------------------------------------
(* Properties.                                                             *)

IntakeTypeOK ==
    /\ sends \in 0..MaxSends /\ crashes \in 0..MaxCrashes /\ changes \in 0..MaxChanges
    /\ integrations \in [Provider -> Statuses]
    /\ verify \in Provider \cup {"none"}
    /\ \A c \in Request : request[c].pc \in {"free", "handle", "insert"}
    /\ \A n \in DOMAIN stream : stream[n].type \in Types /\ stream[n].issue \in Issue
    /\ consumer.pc \in {"idle", "handle", "announce", "processed", "failed", "ack"}
    /\ (consumer.pc # "idle" => stream # <<>>)
    /\ tasks \in [Origin -> 0..MaxTasks]
    /\ receipts \in [Issue -> Nat]

TasksWithin(origins) ==
    \A i \in Issue : \A o \in origins : tasks[<<o, i>>] <= receipts[i]

(* The consumer makes at most one task of an issue of GitHub for each time *)
(* its webhook was delivered: what it publishes about the event and is     *)
(* delivered itself, again and again, makes none.                          *)
GitHubTaskPerEvent == TasksWithin({"github"})

(* The same of an issue of Linear too.                                     *)
TaskPerEvent == TasksWithin({"github", "linear"})

=============================================================================
