------------------------------ MODULE ToolCalls ------------------------------
(***************************************************************************)
(* Tool calls from the model's request to their result (src/dispatch.rs,   *)
(* src/tools/mod.rs, src/sandbox): a call is looked up in the registry of  *)
(* its run, authorised and planned, and runs in a sandbox or, when its     *)
(* target is outside of it and its user approves, without one.  The calls  *)
(* of one response run at once, beside those of delegated runs and of      *)
(* other sessions.                                                         *)
(*                                                                         *)
(* Arguments are abstracted to whether they are valid, ask for the         *)
(* background and aim outside the sandbox (FileRouting and ExecPreflight   *)
(* decide that).  DefaultHostSandbox never reports a permission denial, so *)
(* the executor's branch that asks after one is not taken.                 *)
(***************************************************************************)
EXTENDS Naturals, FiniteSets

CONSTANTS
    CallSlots,      \* calls under way together
    ToolUsers,      \* "system" speaks for scheduled jobs and completions
    ToolNames       \* the built-in tools considered

VARIABLES
    setting,        \* the agent's ToolsConfig and owner_ids
    calls,          \* each call: its request and how far it is
    run             \* what each call set going, which may outlive it

toolVars == <<setting, calls, run>>

GuestTools == {"read", "edit", "glob", "grep", "list"}
WebTools == {"web_fetch", "web_search"}
Delegating == {"summon", "task"}
Spawning == Delegating \cup {"exec"}
Sandboxable == GuestTools \cup WebTools \cup {"exec"}

Requests == [name : ToolNames \cup {"skill", "ghost"}, user : ToolUsers,
             delegated : BOOLEAN, valid : BOOLEAN, background : BOOLEAN,
             outside : BOOLEAN]

Settings == [disabled : SUBSET (ToolNames \cap {"exec"}), restricted : BOOLEAN,
             sandboxed : BOOLEAN, allowBackground : BOOLEAN,
             owners : {{}} \cup {{u} : u \in ToolUsers \ {"system"}}]

NoOutcome == [at |-> "none", outside |-> FALSE, acted |-> FALSE]
IdleCall == [at |-> "idle"]

ToolsInit ==
    /\ setting \in Settings
    /\ calls = [c \in CallSlots |-> IdleCall]
    /\ run = [c \in CallSlots |-> NoOutcome]

-----------------------------------------------------------------------------
(* The registry                                                             *)

EnabledToolNames == ToolNames \ setting.disabled

\* A skill that has the name of an enabled tool is skipped.
BuildRegistry == EnabledToolNames \cup {"skill"}

\* invoke_agent and invoke_worker: a delegated run cannot delegate or manage
\* background runs.
ActiveTools(delegated) ==
    IF delegated THEN BuildRegistry \ (Delegating \cup {"background"})
    ELSE BuildRegistry

\* set_allow_background(false) comes only with an enabled exec tool;
\* allow_async_tools is false in every delegated run.
WithAsyncDisabled(delegated) == delegated /\ "exec" \in EnabledToolNames

OwnerRestricted(name) ==
    setting.restricted /\ name \notin {"react", "skill"}

ExecutionKind(name) ==
    IF ~setting.sandboxed \/ name \notin Sandboxable THEN "direct"
    ELSE IF name = "exec" THEN "host" ELSE "wasm"

Authorize(req) ==
    \/ ~OwnerRestricted(req.name)
    \/ req.user \in setting.owners

-----------------------------------------------------------------------------
(* Planning and choosing how to run                                         *)

BackgroundAllowed(req) ==
    setting.allowBackground /\ ~req.delegated
        /\ ~WithAsyncDisabled(req.delegated)

Plan(req) ==
    /\ req.valid
    /\ req.name \in Spawning /\ req.background => BackgroundAllowed(req)

ExecuteWeb(req) == ExecutionKind(req.name)

ExecuteFileTool(req) ==
    IF ExecutionKind(req.name) = "wasm" /\ req.outside THEN "ask"
    ELSE ExecutionKind(req.name)

\* Slip: a command that preflight cannot place is run as it is.
ExecuteUnverified(req) ==
    IF ExecutionKind(req.name) = "host" /\ req.outside THEN "direct"
    ELSE ExecutionKind(req.name)

ExecuteExec(req) ==
    IF ExecutionKind(req.name) = "host" /\ req.outside THEN "ask"
    ELSE ExecutionKind(req.name)

Execute(req) ==
    IF req.name \in WebTools THEN ExecuteWeb(req)
    ELSE IF req.name \in GuestTools THEN ExecuteFileTool(req)
    ELSE IF req.name = "exec" THEN ExecuteExec(req)
    ELSE "direct"

Refusals == {"unknown", "forbidden", "invalid", "denied"}

Verdict(req) ==
    IF req.name \notin ActiveTools(req.delegated) THEN "unknown"
    ELSE IF ~Authorize(req) THEN "forbidden"
    ELSE IF ~Plan(req) THEN "invalid"
    ELSE Execute(req)

-----------------------------------------------------------------------------
(* The life of a call                                                       *)

At(c, where) == calls[c].at = where
Done(c, result) ==
    calls' = [calls EXCEPT ![c] = [@ EXCEPT !.at = "done", !.result = result]]

\* The command, request or guest is started; a background run is accepted at
\* once and goes on by itself.
Launch(c, call, outside) ==
    /\ run' = [run EXCEPT ![c] = [at |-> "going", outside |-> outside,
                                  acted |-> FALSE]]
    /\ calls' = [calls EXCEPT ![c] =
           IF call.req.name \in Spawning /\ call.req.background
           THEN [call EXCEPT !.at = "done", !.result = "accepted"]
           ELSE [call EXCEPT !.at = "running"]]
    /\ UNCHANGED setting

ExecuteToolCall(c, req) ==
    /\ At(c, "idle")
    /\ LET verdict == Verdict(req)
           call == [at |-> "idle", req |-> req, approved |-> FALSE,
                    result |-> "none"]
           moved(where, result) ==
               /\ calls' = [calls EXCEPT ![c] = [call EXCEPT !.at = where,
                                                             !.result = result]]
               /\ UNCHANGED <<setting, run>>
       IN CASE verdict \in Refusals -> moved("done", verdict)
            [] verdict = "ask" -> moved("asking", "none")
            [] verdict = "host" -> moved("preparing", "none")
            [] verdict \in {"direct", "wasm"} ->
                   Launch(c, call, verdict = "direct")

\* request_tool_escalation; the answer comes from ApprovalRegistry, which has a
\* timeout of its own.
Approved(c) ==
    /\ At(c, "asking")
    /\ Launch(c, [calls[c] EXCEPT !.approved = TRUE], TRUE)

NotApproved(c) ==
    /\ At(c, "asking")
    /\ Done(c, "denied")
    /\ UNCHANGED <<setting, run>>

\* The sandbox is initialised and the command wrapped, each with a timeout.
PrepareCommand(c) ==
    /\ At(c, "preparing")
    /\ Launch(c, calls[c], FALSE)

PrepareFails(c) ==
    /\ At(c, "preparing")
    /\ Done(c, "error")
    /\ UNCHANGED <<setting, run>>

\* What was set going reads or writes its target: with its call waiting, in the
\* background, or after its call was given up.
RunActs(c) ==
    /\ run[c].at = "going" /\ ~run[c].acted
    /\ run' = [run EXCEPT ![c].acted = TRUE]
    /\ UNCHANGED <<setting, calls>>

RunEnds(c) ==
    /\ run[c].at = "going"
    /\ run' = [run EXCEPT ![c].at = "over"]
    /\ IF At(c, "running")
       THEN Done(c, IF run[c].acted THEN "ok" ELSE "error")
       ELSE UNCHANGED calls
    /\ UNCHANGED setting

\* Guests, commands and requests have a timeout; other direct tools do not.
HasTimeout(c) ==
    \/ ~run[c].outside
    \/ calls[c].req.name \in WebTools \cup {"exec"}

\* A guest's thread and an unsandboxed command go on unheeded; a sandboxed
\* command is killed and a request is dropped.
Outlives(c) ==
    \/ ExecutionKind(calls[c].req.name) = "wasm"
    \/ calls[c].req.name = "exec" /\ run[c].outside

\* Slip: only sandboxed runs have a timeout.
SandboxedTimesOut(c) ==
    /\ At(c, "running") /\ ~run[c].outside
    /\ Done(c, "timed_out")
    /\ run' = [run EXCEPT ![c].at = IF Outlives(c) THEN "going" ELSE "over"]
    /\ UNCHANGED setting

RunTimesOut(c) ==
    /\ At(c, "running") /\ HasTimeout(c)
    /\ Done(c, "timed_out")
    /\ run' = [run EXCEPT ![c].at = IF Outlives(c) THEN "going" ELSE "over"]
    /\ UNCHANGED setting

ToolsNext ==
    \E c \in CallSlots :
        \/ \E req \in Requests : ExecuteToolCall(c, req)
        \/ Approved(c) \/ NotApproved(c)
        \/ PrepareCommand(c) \/ PrepareFails(c)
        \/ RunActs(c) \/ RunEnds(c) \/ RunTimesOut(c)

ToolsSpec == ToolsInit /\ [][ToolsNext]_toolVars

\* What comes without anyone's help: timers, and short work on local state.
CallProgress(c) ==
    \/ Approved(c) \/ NotApproved(c)
    \/ PrepareCommand(c) \/ PrepareFails(c)
    \/ RunTimesOut(c)
    \/ At(c, "running") /\ ~HasTimeout(c)
          /\ calls[c].req.name \notin Delegating /\ RunEnds(c)

-----------------------------------------------------------------------------
(* Properties                                                               *)

\* Whatever is or was set going, also what its call no longer waits for, was
\* within the rights of its call (authorize, request_tool_escalation): the tool
\* is in the registry of its run, its user may use it, and it runs outside a
\* configured sandbox only because that user approved this very call; and a
\* call that was refused set nothing going.
RunsAreEntitled ==
    \A c \in CallSlots : run[c] # NoOutcome =>
        LET req == calls[c].req IN
        /\ calls[c].result \notin Refusals
        /\ req.name \in ActiveTools(req.delegated)
        /\ setting.restricted /\ req.name \notin {"react", "skill"} =>
               req.user \in setting.owners
        /\ setting.sandboxed /\ req.name \in Sandboxable /\ run[c].outside =>
               calls[c].approved
        /\ ~(req.delegated /\ calls[c].result = "accepted")

\* A tool call always returns to its turn, though what it started may hang: its
\* waits all have a timeout (request_approval, exec_shell_command,
\* run_wasm_guest, prepare_command_for_exec, fetch_url_markdown) or are short
\* work on local state.
EveryCallReturns ==
    \A c \in CallSlots :
        ~At(c, "idle") /\ calls[c].req.name \notin Delegating ~> At(c, "done")

=============================================================================
