---------------------------- MODULE DaemonControl ----------------------------
(***************************************************************************)
(* `simpleclaw system start` and `stop` (src/run/daemon.rs): short-lived   *)
(* commands that find the background service through a pid file.  Nothing  *)
(* locks the file, and reading it, looking at the process, removing the    *)
(* file, spawning and writing are steps of their own, so commands given at *)
(* the same time interleave.  A command may be killed, or fail, before any *)
(* of its steps, and the service may die under it at any moment.  Process  *)
(* ids are not reused within the bound.                                    *)
(***************************************************************************)
EXTENDS Integers, FiniteSets

CONSTANTS
    Commands,   \* invocations of start and stop, each once
    MaxPid      \* bound: services ever spawned

ASSUME DaemonAssumption == MaxPid \in Nat

VARIABLES
    pidFile,    \* what the pid file says
    running,    \* service processes that are alive
    cmd,        \* each command: where it is and the pid it goes by
    spawned

daemonVars == <<pidFile, running, cmd, spawned>>

NoPid == 0      \* there is no pid file
Empty == -1     \* it has been opened and not yet written: no pid can be read

Ended == {"ready", "done", "started", "contended", "cut off"}
Under(c) == cmd[c].at \notin Ended

DaemonInit ==
    /\ pidFile = NoPid /\ running = {} /\ spawned = 0
    /\ cmd = [c \in Commands |-> [at |-> "ready", pid |-> NoPid]]

Goto(c, step, pid) == cmd' = [cmd EXCEPT ![c] = [at |-> step, pid |-> pid]]

\* The command fails, or is killed, before its next step.  Once it has spawned
\* a service it leaves that behind, and the pid file as it is.
CutOff(c) ==
    /\ Under(c)
    /\ Goto(c, IF cmd[c].at \in {"opening", "writing"} THEN "cut off" ELSE "done",
            cmd[c].pid)
    /\ UNCHANGED <<pidFile, running, spawned>>

-----------------------------------------------------------------------------
(* start_service                                                            *)

\* A pid file that cannot be parsed ends the command with an error.
StartReadsPid(c) ==
    /\ cmd[c].at = "ready"
    /\ Goto(c, CASE pidFile = NoPid -> "spawn"
                 [] pidFile = Empty -> "done"
                 [] OTHER -> "found", pidFile)
    /\ UNCHANGED <<pidFile, running, spawned>>

\* Slip: a pid file is always taken for a stale one.
StartTakesForStale(c) ==
    /\ cmd[c].at = "found"
    /\ Goto(c, "stale", cmd[c].pid)
    /\ UNCHANGED <<pidFile, running, spawned>>

\* is_process_running: "service already running".
StartLooksForProcess(c) ==
    /\ cmd[c].at = "found"
    /\ Goto(c, IF cmd[c].pid \in running THEN "done" ELSE "stale", cmd[c].pid)
    /\ UNCHANGED <<pidFile, running, spawned>>

\* The file is removed whatever it says by now; that it has gone is an error.
RemoveStalePid(c) ==
    /\ cmd[c].at = "stale"
    /\ Goto(c, IF pidFile = NoPid THEN "done" ELSE "spawn", NoPid)
    /\ pidFile' = NoPid
    /\ UNCHANGED <<running, spawned>>

Spawn(c) ==
    /\ cmd[c].at = "spawn" /\ spawned < MaxPid
    /\ spawned' = spawned + 1
    /\ running' = running \cup {spawned + 1}
    /\ Goto(c, "opening", spawned + 1)
    /\ UNCHANGED pidFile

\* fs::write opens the file, which empties it, and then writes.
OpenPid(c) ==
    /\ cmd[c].at = "opening"
    /\ pidFile' = Empty
    /\ Goto(c, "writing", cmd[c].pid)
    /\ UNCHANGED <<running, spawned>>

\* "contended" (history): another command was under way when the pid was
\* written, and goes by what it read before.
WritePid(c) ==
    /\ cmd[c].at = "writing"
    /\ pidFile' = cmd[c].pid
    /\ Goto(c, IF \E other \in Commands \ {c} : Under(other) THEN "contended"
               ELSE "started", cmd[c].pid)
    /\ UNCHANGED <<running, spawned>>

-----------------------------------------------------------------------------
(* stop_service                                                             *)

\* Without a pid file there is nothing to do.
StopReadsPid(c) ==
    /\ cmd[c].at = "ready"
    /\ Goto(c, IF pidFile \in {NoPid, Empty} THEN "done" ELSE "stopping", pidFile)
    /\ UNCHANGED <<pidFile, running, spawned>>

\* terminate_process, unless the pid is stale.
StopSignals(c) ==
    /\ cmd[c].at = "stopping"
    /\ Goto(c, IF cmd[c].pid \in running THEN "terminated" ELSE "removing", cmd[c].pid)
    /\ UNCHANGED <<pidFile, running, spawned>>

\* wait_for_exit sees the process gone.
StopSeesExit(c) ==
    /\ cmd[c].at \in {"terminated", "killed"}
    /\ cmd[c].pid \notin running
    /\ Goto(c, "removing", cmd[c].pid)
    /\ UNCHANGED <<pidFile, running, spawned>>

\* Five seconds after the first signal comes the second; two seconds after
\* that the command fails and leaves the file in place.
StopTimesOut(c) ==
    /\ cmd[c].at \in {"terminated", "killed"} /\ cmd[c].pid \in running
    /\ Goto(c, IF cmd[c].at = "terminated" THEN "killed" ELSE "done",
            cmd[c].pid)
    /\ UNCHANGED <<pidFile, running, spawned>>

\* The file is removed, whatever it says by now.
StopRemovesPid(c) ==
    /\ cmd[c].at = "removing"
    /\ Goto(c, "done", cmd[c].pid)
    /\ pidFile' = NoPid
    /\ UNCHANGED <<running, spawned>>

\* A service ends, on a signal or by itself.
ServiceExits(pid) ==
    /\ pid \in running
    /\ running' = running \ {pid}
    /\ UNCHANGED <<pidFile, cmd, spawned>>

StartStep(c) ==
    \/ StartReadsPid(c) \/ StartLooksForProcess(c) \/ RemoveStalePid(c)
    \/ Spawn(c) \/ OpenPid(c) \/ WritePid(c)
StopStep(c) ==
    \/ StopReadsPid(c) \/ StopSignals(c) \/ StopSeesExit(c) \/ StopTimesOut(c)
    \/ StopRemovesPid(c)

DaemonNext ==
    \/ \E c \in Commands : StartStep(c) \/ StopStep(c) \/ CutOff(c)
    \/ \E pid \in running : ServiceExits(pid)

DaemonSpec == DaemonInit /\ [][DaemonNext]_daemonVars

-----------------------------------------------------------------------------
(* Properties                                                               *)

DaemonTypeOK ==
    /\ pidFile \in -1..MaxPid
    /\ running \subseteq 1..spawned /\ spawned \in 0..MaxPid
    /\ cmd \in [Commands ->
                   [at : Ended \cup {"found", "stale", "spawn", "opening", "writing",
                                     "stopping", "terminated", "killed", "removing"},
                    pid : -1..MaxPid]]

\* A running service can be stopped, for the pid file names it, whatever starts
\* and stops overlap, fail or are killed after the pid was written
\* (start_service, stop_service).  A service is out of reach in two ways only:
\* its own start failed or was killed between spawning it and having written
\* the pid; or, when the pid was written, another command was under way that
\* had read the file before and then replaced or removed it, as a second start
\* and a stop that waits for an earlier service do.
ServiceIsManaged ==
    \A pid \in running :
        \/ pidFile = pid
        \/ \E c \in Commands :
              cmd[c].pid = pid /\ cmd[c].at \in {"opening", "writing", "contended", "cut off"}

=============================================================================
