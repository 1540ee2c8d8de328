---------------------------- MODULE ChannelCommands ----------------------------
(***************************************************************************)
(* The slash commands /new, /status, /stop and /tools                      *)
(* (handle_slash_command of src/channels/discord.rs, execute_command of    *)
(* src/gateway/mod.rs).  Discord's handler queues the command and waits    *)
(* ten seconds for the gateway's single command task, which goes on with   *)
(* the command whether or not someone still waits.                         *)
(*                                                                         *)
(* One conversation of one agent, owned by ann; direct messages are open   *)
(* to ann alone.                                                           *)
(***************************************************************************)
EXTENDS InboundPolicy

CONSTANTS
    Interactions,    \* the slash commands that are given
    BackgroundRuns,  \* background runs of the conversation's agent
    MaxSequence      \* bound: sessions of the conversation

ASSUME CommandsAssumption ==
    /\ IsFiniteSet(Interactions) /\ IsFiniteSet(BackgroundRuns)
    /\ MaxSequence \in Nat \ {0}

VARIABLES
    slash,         \* the commands as Discord's handler sees them; did, found and
                   \* spared are history: whether a /new renewed, what runs a
                   \* /stop found and which of them it could not stop
    commandQueue,
    executing,     \* what the command task is doing
    sequence,      \* the conversation's active session
    toolRuns

commandVars == <<slash, commandQueue, executing, sequence, toolRuns>>

CommandRouting == [EmptyRouting EXCEPT !.dm = [Unset EXCEPT !.allow = {{"ann"}}]]
Owners == {"ann"}
NotGiven == [phase |-> "idle", kind |-> "none", user |-> "none", place |-> "none",
             answer |-> "none", count |-> 0, did |-> FALSE, found |-> {}, spared |-> {}]
Idle == [stage |-> "idle", command |-> "none", listed |-> {}, killed |-> 0]

CommandsInit ==
    /\ slash = [c \in Interactions |-> NotGiven]
    /\ commandQueue = <<>> /\ executing = Idle /\ sequence = 1
    /\ toolRuns = [r \in BackgroundRuns |-> [kind |-> "process", status |-> "none", session |-> 0]]

-----------------------------------------------------------------------------
(* The channel's side                                                       *)

\* Deferring the answer may fail, and then the command goes no further.
HandleSlashCommand(c) ==
    /\ slash[c] = NotGiven
    /\ \E kind \in {"new", "status", "stop", "tools"}, user \in Users,
          place \in {"dm", "channel"}, deferred \in BOOLEAN :
           /\ slash' = [slash EXCEPT ![c] =
                  [NotGiven EXCEPT !.phase = IF deferred THEN "waiting" ELSE "lost",
                                   !.kind = kind, !.user = user, !.place = place]]
           /\ commandQueue' = IF deferred THEN Append(commandQueue, c)
                              ELSE commandQueue
    /\ UNCHANGED <<executing, sequence, toolRuns>>

\* timeout(10 s): the receiver is dropped, the command is not.
CommandTimesOut(c) ==
    /\ slash[c].phase = "waiting"
    /\ slash' = [slash EXCEPT ![c].phase = "answered", ![c].answer = "timed out"]
    /\ UNCHANGED <<commandQueue, executing, sequence, toolRuns>>

\* edit_response, which may fail.
ShowAnswer(c) ==
    /\ slash[c].phase = "answered"
    /\ \E phase \in {"shown", "lost"} : slash' = [slash EXCEPT ![c].phase = phase]
    /\ UNCHANGED <<commandQueue, executing, sequence, toolRuns>>

-----------------------------------------------------------------------------
(* The gateway's side                                                       *)

\* reply_tx.send: nothing happens when nobody waits any more.
SendCommandResponse(commands, c, answer, count) ==
    IF commands[c].phase # "waiting" THEN commands
    ELSE [commands EXCEPT ![c].phase = "answered", ![c].answer = answer,
                          ![c].count = count]

Respond(c, answer) ==
    /\ slash' = SendCommandResponse(slash, c, answer, 0)
    /\ executing' = Idle
    /\ UNCHANGED <<sequence, toolRuns>>

\* /new: the store moves on, which may fail; the worker is removed next.
NewSession(c) ==
    \/ /\ sequence < MaxSequence
       /\ sequence' = sequence + 1
       /\ slash' = [slash EXCEPT ![c].did = TRUE]
       /\ executing' = [Idle EXCEPT !.stage = "removing", !.command = c]
       /\ UNCHANGED toolRuns
    \/ Respond(c, "failed")

\* /stop works through the running runs of the active session.
RunningRuns == {r \in BackgroundRuns : toolRuns[r].status = "running"
                             /\ toolRuns[r].session = sequence}
StopCommand(c) ==
    /\ executing' = [Idle EXCEPT !.stage = "stopping", !.command = c,
                                 !.listed = RunningRuns]
    /\ slash' = [slash EXCEPT ![c].found = RunningRuns]
    /\ UNCHANGED <<sequence, toolRuns>>

\* Slip: everyone may use commands.
ExecuteForAnyone ==
    /\ executing = Idle /\ commandQueue # <<>>
    /\ commandQueue' = Tail(commandQueue)
    /\ LET c == Head(commandQueue)
       IN \/ slash[c].kind = "new" /\ NewSession(c)
          \/ slash[c].kind # "new" /\ Respond(c, "done")
\* execute_command: the route, the session, the agent and its owners are looked
\* up in this order, and the first that fails answers.
ExecuteCommand ==
    /\ executing = Idle /\ commandQueue # <<>>
    /\ commandQueue' = Tail(commandQueue)
    /\ LET c == Head(commandQueue)
           kind == slash[c].kind
       IN \/ Respond(c, "failed")
          \/ /\ ResolveCommandTarget(CommandRouting, slash[c]) = <<>>
             /\ Respond(c, "not allowed here")
          \/ /\ ResolveCommandTarget(CommandRouting, slash[c]) # <<>>
             /\ IF slash[c].user \notin Owners THEN Respond(c, "owners only")
                ELSE \/ kind = "new" /\ NewSession(c)
                     \/ kind = "stop" /\ StopCommand(c)
                     \/ kind \in {"status", "tools"} /\ Respond(c, "done")

\* The rest of /new: the replaced session's worker is forgotten.
FinishNewSession ==
    /\ executing.stage = "removing"
    /\ Respond(executing.command, "renewed")
    /\ UNCHANGED commandQueue

\* kill_for_session: a run that has ended in the meantime counts as stopped;
\* one that goes on is stopped if it is a process and kill can be run.
KillForSession(r) ==
    /\ executing.stage = "stopping" /\ r \in executing.listed
    /\ \/ /\ toolRuns[r].status = "ended" \/ toolRuns[r].kind = "process"
          /\ executing' = [executing EXCEPT !.listed = @ \ {r}, !.killed = @ + 1]
          /\ toolRuns' = [toolRuns EXCEPT ![r].status = "ended"]
          /\ UNCHANGED slash
       \/ /\ toolRuns[r].status = "running"
          /\ executing' = [executing EXCEPT !.listed = @ \ {r}]
          /\ slash' = [slash EXCEPT ![executing.command].spared = @ \cup {r}]
          /\ UNCHANGED toolRuns
    /\ UNCHANGED <<commandQueue, sequence>>

\* "No running background tasks were found.", or how many were stopped.
FinishStop ==
    /\ executing.stage = "stopping" /\ executing.listed = {}
    /\ slash' = SendCommandResponse(slash, executing.command,
                  IF executing.killed = 0 THEN "none found" ELSE "stopped",
                  executing.killed)
    /\ executing' = Idle
    /\ UNCHANGED <<commandQueue, sequence, toolRuns>>

-----------------------------------------------------------------------------
(* The runs                                                                 *)

StartRun(r) ==
    /\ toolRuns[r].status = "none"
    /\ \E kind \in {"process", "delegated"} :
           toolRuns' = [toolRuns EXCEPT ![r] =
               [kind |-> kind, status |-> "running", session |-> sequence]]
    /\ UNCHANGED <<slash, commandQueue, executing, sequence>>

RunEnds(r) ==
    /\ toolRuns[r].status = "running"
    /\ toolRuns' = [toolRuns EXCEPT ![r].status = "ended"]
    /\ UNCHANGED <<slash, commandQueue, executing, sequence>>

CommandsNext ==
    \/ \E c \in Interactions : HandleSlashCommand(c) \/ CommandTimesOut(c) \/ ShowAnswer(c)
    \/ ExecuteCommand \/ FinishNewSession \/ FinishStop
    \/ \E r \in BackgroundRuns : KillForSession(r) \/ StartRun(r) \/ RunEnds(r)

-----------------------------------------------------------------------------
\* Every session after the first was asked for by one /new of an owner, and what
\* a command is answered in time is what happened; one that timed out may have
\* happened all the same.
CommandsAreAccountedFor ==
    LET done == {c \in Interactions : slash[c].did}
    IN /\ sequence = 1 + Cardinality(done)
       /\ \A c \in done : slash[c].kind = "new" /\ slash[c].user \in Owners
       /\ \A c \in Interactions :
              /\ slash[c].answer = "renewed" => c \in done
              /\ slash[c].answer \in {"stopped", "none found", "done"} =>
                     slash[c].user \in Owners
              /\ c \in done =>
                     \/ slash[c].answer \in {"renewed", "timed out"}
                     \/ executing.stage = "removing" /\ executing.command = c

\* What /stop answers is how many of the runs it found have stopped.  Those it
\* could not stop it passes over: it also says that none was found when all that
\* run are delegated.
StopsAreCounted ==
    \A c \in Interactions : slash[c].answer \in {"stopped", "none found"} =>
        LET stopped == slash[c].found \ slash[c].spared
        IN /\ slash[c].count = Cardinality(stopped)
           /\ slash[c].answer = "none found" <=> stopped = {}
           /\ \A r \in stopped : toolRuns[r].status = "ended"

\* Every message goes where the most specific setting that applies says, only
\* those who are allowed wake the agent, commands act on the conversation they
\* are given in, for owners only, a renewal is what /new says and the count of a
\* /stop is of runs that have stopped, which need not be all that ran
\* (src/config/routing.rs:62-93, src/channels/policy.rs:20-41,
\* src/gateway/mod.rs:268-326, 424-445, 564-595,
\* src/channels/discord.rs:109-161, 350-405).
InboundIsGoverned ==
    /\ RouteFollowsPolicy /\ DiscordWakesRightly
    /\ CommandsAreAccountedFor /\ StopsAreCounted

\* The inbound side by itself: commands are worked through while messages are
\* asked about.
InboundNext ==
    \/ CommandsNext /\ UNCHANGED question
    \/ (AskRoute \/ AskDiscord) /\ UNCHANGED commandVars
InboundSpec ==
    CommandsInit /\ QuestionInit /\ [][InboundNext]_<<commandVars, question>>

=============================================================================
