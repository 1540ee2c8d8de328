--------------------------- MODULE ApprovalRegistry ---------------------------
(***************************************************************************)
(* One-shot sandbox escalations: a tool call that needs to leave the       *)
(* sandbox registers a request (src/approval.rs), posts a prompt with two  *)
(* buttons to the channel the turn came from, and waits for a decision or  *)
(* a timeout.  A button press is a Discord interaction                     *)
(* (src/channels/discord.rs): its handler looks the request up, queues a   *)
(* resolution, and then closes the prompt; the gateway's approval listener *)
(* (src/gateway/mod.rs) takes resolutions off that queue and resolves the  *)
(* registry.  Requesters, handlers and the listener are separate tasks,    *)
(* and only the lock on the registry and the queue order them.             *)
(*                                                                         *)
(* The prompts are kept by Discord and outlive the process; the registry,  *)
(* its id counter, the queue and the handlers do not.                      *)
(***************************************************************************)
EXTENDS Naturals, Sequences, FiniteSets

CONSTANTS
    Requests,       \* tool calls that ask for an escalation, each once
    Users,          \* Discord users who can press a button
    Requester,      \* requesting_user_id of each request
    QueueCapacity,  \* of the approval mpsc channel (1024 in the code)
    MaxClicks,      \* bound: button presses
    MaxRestarts     \* bound: process restarts

ASSUME ApprovalConstantsAssumption ==
    /\ Requester \in [Requests -> Users]
    /\ QueueCapacity \in Nat \ {0}
    /\ MaxClicks \in Nat
    /\ MaxRestarts \in Nat

VARIABLES
    nextId,     \* the AtomicU64 the ids are numbered from
    pending,    \* the registry: id -> request
    at,         \* where each request's task is
    id,         \* id of each request, 0 before it has one; on its prompt too
    answer,     \* content of each request's oneshot channel
    outcome,    \* what request_approval returned to the tool call
    prompt,     \* each request's message on Discord
    clicks,     \* interactions, in the order the buttons were pressed
    queue,      \* resolutions on their way to the gateway's listener
    restarts

vars == <<nextId, pending, at, id, answer, outcome, prompt, clicks, queue,
          restarts>>
requesterVars == <<at, id, outcome>>
registryVars == <<nextId, pending, answer>>

None == "none"
Decisions == {"Approved", "Denied"}
Ids == 1..Cardinality(Requests)
Interactions ==
    [prompt : Requests, user : Users, decision : Decisions,
     at : {"clicked", "sending", "acking", "over"}]
Resolutions == [id : Ids, user : Users, decision : Decisions]

Init ==
    /\ nextId = 1
    /\ pending = <<>>
    /\ at = [r \in Requests |-> "idle"]
    /\ id = [r \in Requests |-> 0]
    /\ answer = [r \in Requests |-> None]
    /\ outcome = [r \in Requests |-> None]
    /\ prompt = [r \in Requests |-> None]
    /\ clicks = <<>>
    /\ queue = <<>>
    /\ restarts = 0

Without(map, key) == [k \in DOMAIN map \ {key} |-> map[k]]

-----------------------------------------------------------------------------
(* The requester: GatewayApprovalRequester::request_approval                *)

Register(r) ==
    /\ at[r] = "idle"
    /\ at' = [at EXCEPT ![r] = "sending"]
    /\ id' = [id EXCEPT ![r] = nextId]
    /\ nextId' = nextId + 1
    /\ pending' = [i \in DOMAIN pending \cup {nextId} |->
                       IF i = nextId THEN r ELSE pending[i]]
    /\ UNCHANGED <<answer, outcome, prompt, clicks, queue, restarts>>

\* The prompt is on Discord, and its buttons work, before the call that
\* posts it returns.
PromptPosted(r) ==
    /\ at[r] = "sending" /\ prompt[r] = None
    /\ prompt' = [prompt EXCEPT ![r] = "shown"]
    /\ UNCHANGED <<requesterVars, registryVars, clicks, queue, restarts>>

SendReturns(r) ==
    /\ at[r] = "sending" /\ prompt[r] # None
    /\ at' = [at EXCEPT ![r] = "waiting"]
    /\ UNCHANGED <<id, outcome, registryVars, prompt, clicks, queue, restarts>>

End(r, result) ==
    /\ at' = [at EXCEPT ![r] = "over"]
    /\ outcome' = [outcome EXCEPT ![r] = result]

\* The `?` after send_approval_request returns without touching the registry.
\* The request may have reached Discord all the same.
SendFails(r) ==
    /\ at[r] = "sending"
    /\ End(r, "SendFailed")
    /\ UNCHANGED <<id, registryVars, prompt, clicks, queue, restarts>>

Decide(r, decision) ==
    /\ at' = [at EXCEPT ![r] = "removing"]
    /\ outcome' = [outcome EXCEPT ![r] = decision]
    /\ UNCHANGED <<id, registryVars, prompt, clicks, queue, restarts>>

\* wait_for_decision: the timeout polls the receiver first, so it expires
\* only while there is no answer.  (The sender lives in the registry entry
\* and is used when the entry goes, so the receiver never sees it dropped.)
ReceiveDecision(r) ==
    /\ at[r] = "waiting" /\ answer[r] # None
    /\ Decide(r, answer[r])

\* Slips: silence counts as consent; an expired wait is started again.
TimeoutApproves(r) ==
    /\ at[r] = "waiting" /\ answer[r] = None
    /\ Decide(r, "Approved")

TimeoutWaitsAgain(r) ==
    /\ at[r] = "waiting" /\ answer[r] = None
    /\ UNCHANGED vars

TimeoutElapses(r) ==
    /\ at[r] = "waiting" /\ answer[r] = None
    /\ Decide(r, "TimedOut")

RemovePending(r) ==
    /\ at[r] = "removing"
    /\ pending' = Without(pending, id[r])
    /\ at' = [at EXCEPT ![r] = IF outcome[r] = "TimedOut"
                               THEN "deleting" ELSE "over"]
    /\ UNCHANGED <<nextId, answer, id, outcome, prompt, clicks, queue, restarts>>

\* Deleting the expired prompt; a failure is only logged.
DeletePrompt(r) ==
    /\ at[r] = "deleting"
    /\ at' = [at EXCEPT ![r] = "over"]
    /\ prompt' \in {prompt, [prompt EXCEPT ![r] = "deleted"]}
    /\ UNCHANGED <<id, outcome, registryVars, clicks, queue, restarts>>

\* The tool calls of one response share a task (join_all): a panic in one of
\* them drops the others at whatever await they have reached.
TaskPanics(r) ==
    /\ at[r] \in {"sending", "waiting", "removing", "deleting"}
    /\ End(r, "Dropped")
    /\ UNCHANGED <<id, registryVars, prompt, clicks, queue, restarts>>

-----------------------------------------------------------------------------
(* The Discord handler: handle_approval_interaction                         *)

Click(r, u, decision) ==
    /\ prompt[r] = "shown"
    /\ Len(clicks) < MaxClicks
    /\ clicks' = Append(clicks, [prompt |-> r, user |-> u,
                                 decision |-> decision, at |-> "clicked"])
    /\ UNCHANGED <<requesterVars, registryVars, prompt, queue, restarts>>

ClickAt(c, place) == clicks' = [clicks EXCEPT ![c].at = place]

\* evaluate_approval_interaction, on the request the registry has under the
\* id the button carries: inactive, not the requester's, or authorized.
Evaluate(c) ==
    LET click == clicks[c]
        i == id[click.prompt]
        authorized == /\ i \in DOMAIN pending
                      /\ Requester[pending[i]] = click.user
    IN  /\ click.at = "clicked"
        /\ ClickAt(c, IF authorized THEN "sending" ELSE "over")
        /\ UNCHANGED <<requesterVars, registryVars, prompt, queue, restarts>>

QueueResolution(c) ==
    /\ clicks[c].at = "sending"
    /\ Len(queue) < QueueCapacity
    /\ queue' = Append(queue, [id |-> id[clicks[c].prompt],
                               user |-> clicks[c].user,
                               decision |-> clicks[c].decision])
    /\ ClickAt(c, "acking")
    /\ UNCHANGED <<requesterVars, registryVars, prompt, restarts>>

\* The acknowledgement replaces the prompt by "Approval request closed", if
\* the prompt is still there and the call succeeds.
AckInteraction(c) ==
    /\ clicks[c].at = "acking"
    /\ \/ /\ prompt[clicks[c].prompt] = "shown"
          /\ prompt' = [prompt EXCEPT ![clicks[c].prompt] = "closed"]
       \/ UNCHANGED prompt
    /\ ClickAt(c, "over")
    /\ UNCHANGED <<requesterVars, registryVars, queue, restarts>>

-----------------------------------------------------------------------------
(* The gateway's approval listener and the process                          *)

\* The receiver exists from Register until the decision, an error or a
\* panic; sending to a dropped one is ignored.
HasReceiver(r) == at[r] \in {"sending", "waiting"}

\* Slip: the entry is looked up but not taken out.
ResolveKeepsEntry ==
    LET resolution == Head(queue)
        r == pending[resolution.id]
        accepted == /\ resolution.id \in DOMAIN pending
                    /\ Requester[r] = resolution.user
    IN  /\ queue # <<>>
        /\ queue' = Tail(queue)
        /\ answer' = IF accepted /\ HasReceiver(r)
                     THEN [answer EXCEPT ![r] = resolution.decision]
                     ELSE answer
        /\ UNCHANGED <<nextId, pending, requesterVars, prompt, clicks, restarts>>

\* ApprovalRegistry::resolve, under the registry's lock.
Resolve ==
    LET resolution == Head(queue)
        r == pending[resolution.id]
        accepted == /\ resolution.id \in DOMAIN pending
                    /\ Requester[r] = resolution.user
    IN  /\ queue # <<>>
        /\ queue' = Tail(queue)
        /\ pending' = IF accepted THEN Without(pending, resolution.id)
                                  ELSE pending
        /\ answer' = IF accepted /\ HasReceiver(r)
                     THEN [answer EXCEPT ![r] = resolution.decision]
                     ELSE answer
        /\ UNCHANGED <<nextId, requesterVars, prompt, clicks, restarts>>

\* Every task dies and the registry starts anew, numbering from 1.
Restart ==
    LET dies(r) == at[r] \notin {"idle", "over"} IN
    /\ restarts < MaxRestarts
    /\ restarts' = restarts + 1
    /\ nextId' = 1
    /\ pending' = <<>>
    /\ queue' = <<>>
    /\ clicks' = [c \in DOMAIN clicks |-> [clicks[c] EXCEPT !.at = "over"]]
    /\ at' = [r \in Requests |-> IF dies(r) THEN "over" ELSE at[r]]
    /\ outcome' = [r \in Requests |-> IF dies(r) THEN "Dropped" ELSE outcome[r]]
    /\ UNCHANGED <<answer, id, prompt>>

RequesterStep(r) ==
    \/ PromptPosted(r) \/ SendReturns(r) \/ SendFails(r)
    \/ ReceiveDecision(r) \/ TimeoutElapses(r)
    \/ RemovePending(r) \/ DeletePrompt(r)

HandlerStep(c) == Evaluate(c) \/ QueueResolution(c) \/ AckInteraction(c)

\* Every request and every press is dealt with, and nobody acts any more.
Quiescent ==
    /\ \A r \in Requests : at[r] = "over"
    /\ \A c \in DOMAIN clicks : clicks[c].at = "over"
    /\ queue = <<>>
    /\ UNCHANGED vars

Next ==
    \/ \E r \in Requests : Register(r) \/ RequesterStep(r) \/ TaskPanics(r)
    \/ \E r \in Requests, u \in Users, decision \in Decisions :
           Click(r, u, decision)
    \/ \E c \in DOMAIN clicks : HandlerStep(c)
    \/ Resolve
    \/ Restart
    \/ Quiescent

Spec == Init /\ [][Next]_vars

\* A task that can take a step does: requesters (whose timer fires), handlers
\* and the listener.  Users need not press anything, no task need panic.
FairSpec ==
    /\ Spec
    /\ \A r \in Requests : WF_vars(RequesterStep(r))
    /\ \A c \in 1..MaxClicks : WF_vars(c \in DOMAIN clicks /\ HandlerStep(c))
    /\ WF_vars(Resolve)

-----------------------------------------------------------------------------
(* Properties                                                               *)

\* The variables hold what the code's types allow.
TypeOK ==
    /\ nextId \in 1..Cardinality(Requests) + 1
    /\ DOMAIN pending \subseteq Ids
    /\ \A i \in DOMAIN pending : pending[i] \in Requests
    /\ at \in [Requests -> {"idle", "sending", "waiting", "removing",
                            "deleting", "over"}]
    /\ id \in [Requests -> {0} \cup Ids]
    /\ answer \in [Requests -> {None} \cup Decisions]
    /\ outcome \in [Requests -> {None, "TimedOut", "SendFailed", "Dropped"}
                                    \cup Decisions]
    /\ prompt \in [Requests -> {None, "shown", "closed", "deleted"}]
    /\ clicks \in Seq(Interactions) /\ Len(clicks) <= MaxClicks
    /\ queue \in Seq(Resolutions) /\ Len(queue) <= QueueCapacity
    /\ restarts \in 0..MaxRestarts

\* A request that is still to be decided can be: as long as its task has a
\* receiver with nothing in it, the registry has it under its own id, so no
\* press of its requester is lost before the timeout.
Answerable ==
    \A r \in Requests :
        HasReceiver(r) /\ answer[r] = None =>
            id[r] \in DOMAIN pending /\ pending[id[r]] = r

\* One decision per request: once a decision has been put in its channel the
\* request has left the registry, so a second resolution, of a double press
\* or of both buttons, finds nothing to resolve.
DecidedIsGone ==
    \A r \in Requests :
        answer[r] # None => \A i \in DOMAIN pending : pending[i] # r

\* The registry holds on to a request that nobody waits for only when its
\* prompt could not be sent or its task panicked: wait_for_decision
\* removes every other.
NoForgottenEntries ==
    \A i \in DOMAIN pending :
        \/ at[pending[i]] \in {"sending", "waiting", "removing"}
        \/ outcome[pending[i]] \in {"SendFailed", "Dropped"}

\* The registry agrees with the tasks that wait (register, resolve,
\* wait_for_decision): it has every request that can still be decided, none
\* that has been, and none that was forgotten.
RegistryAgrees == Answerable /\ DecidedIsGone /\ NoForgottenEntries

\* The requester of r pressed the button for this decision on r's own prompt.
PressedOn(r, decision) ==
    \E c \in DOMAIN clicks :
        /\ clicks[c].prompt = r
        /\ clicks[c].user = Requester[r]
        /\ clicks[c].decision = decision

\* "Stable identifier used by the UI callback to resolve the request": what
\* the requester approved is the action his prompt showed.
ApprovedAsShown ==
    \A r \in Requests : outcome[r] = "Approved" => PressedOn(r, "Approved")

\* What does hold of every decision: the requester himself made it, on the
\* request's own prompt or on a prompt left over with the same id.
DecidedByRequester ==
    \A r \in Requests : outcome[r] \in Decisions =>
        \/ PressedOn(r, outcome[r])
        \/ \E old \in Requests \ {r} :
               /\ id[old] = id[r]
               /\ \E c \in DOMAIN clicks :
                      /\ clicks[c].prompt = old
                      /\ clicks[c].user = Requester[r]
                      /\ clicks[c].decision = outcome[r]

\* Nobody waits for ever: every request is answered, times out or fails, and
\* every press is dealt with and its resolution taken off the queue, handlers
\* that a full queue blocks included.  (The bounds end requests and presses.)
Settled ==
    /\ \A r \in Requests : at[r] \in {"idle", "over"}
    /\ \A c \in DOMAIN clicks : clicks[c].at = "over"
    /\ queue = <<>>
EverythingSettles == <>[]Settled

=============================================================================
