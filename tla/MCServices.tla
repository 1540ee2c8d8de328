------------------------------ MODULE MCServices ------------------------------
(***************************************************************************)
(* The services around the turns, which share no state with each other:    *)
(* scheduled jobs, the token store, the daemon's commands, the log and the *)
(* tool calls.  Each behaviour follows one of them, so that their states   *)
(* add up rather than multiply.                                            *)
(***************************************************************************)
EXTENDS CronScheduler, TokenStore, DaemonControl, LogRotation, ToolCalls

VARIABLE followed

servicesVars == <<cronVars, tokenVars, daemonVars, logVars, toolVars, followed>>

MCSchedules == {{1, 2}}

Init ==
    /\ followed \in {"cron", "tokens", "daemon", "log", "tools"}
    /\ CronInit /\ TokenInit /\ DaemonInit /\ LogInit /\ ToolsInit
    /\ followed # "tokens" => file = EmptyFile /\ rotates
    /\ followed # "tools" => setting = CHOOSE s \in Settings : TRUE

Following(service, others) ==
    /\ followed = service
    /\ UNCHANGED <<others, followed>>

CronStep(A) ==
    /\ Following("cron", <<tokenVars, daemonVars, logVars, toolVars>>)
    /\ A
ToolStep(A) ==
    /\ Following("tools", <<cronVars, tokenVars, daemonVars, logVars>>)
    /\ A

Next ==
    \/ CronStep(CronNext)
    \/ ToolStep(ToolsNext)
    \/ Following("tokens", <<cronVars, daemonVars, logVars, toolVars>>) /\ TokenNext
    \/ Following("daemon", <<cronVars, tokenVars, logVars, toolVars>>) /\ DaemonNext
    \/ Following("log", <<cronVars, tokenVars, daemonVars, toolVars>>) /\ LogNext

\* The runtime runs the scheduler's task (a guard command has a timeout, and
\* the service loop keeps emptying the inbound queue), and the clock goes on;
\* a call's timers fire, an approval request ends at the latest with its own
\* timeout, and a tool without one only works on local state.
FairSpec ==
    /\ Init /\ [][Next]_servicesVars
    /\ WF_servicesVars(CronStep(SchedulerStep))
    /\ WF_servicesVars(CronStep(MinuteElapses))
    /\ \A c \in CallSlots : WF_servicesVars(ToolStep(CallProgress(c)))

=============================================================================
