--------------------------- MODULE ServicesProofs ---------------------------
(***************************************************************************)
(* Proofs about the parts beside the conversation: the commands that start *)
(* and stop the service, the log it writes, the jobs it schedules, the     *)
(* tools it lets a model use and the tokens it keeps.  Each of the five    *)
(* specifications has its own variables; each section gives the inductive  *)
(* invariant of one of them, shows that every action keeps it, and ends in *)
(* a theorem.                                                              *)
(***************************************************************************)
EXTENDS DaemonControl, CronScheduler, LogRotation, ToolCalls, TokenStore,
        FiniteSetTheorems, SequenceTheorems, TLAPS

-----------------------------------------------------------------------------
(* DaemonControl                                                            *)

\* Where a command is that has spawned the service of its pid.
Spawned == {"opening", "writing", "contended", "cut off", "started"}

\* A command under way that goes by the pid it has read.
GoesBy == {"found", "stopping", "terminated", "killed"}

\* Where a command can be.
CommandSteps == Ended \cup {"found", "stale", "spawn", "opening", "writing",
                            "stopping", "terminated", "killed", "removing"}

\* No pid is known before it was given out.
PidsAreGivenOut == pidFile <= spawned /\ \A c \in Commands : cmd[c].pid <= spawned

\* Every service has its start.
ServicesHaveStarts ==
    \A pid \in running : \E c \in Commands : cmd[c].pid = pid /\ cmd[c].at \in Spawned

\* While a service runs whose pid was written with no other command under way,
\* the file names it and so does every command that has read the file since.
FileIsHeeded ==
    \A c \in Commands : cmd[c].at = "started" /\ cmd[c].pid \in running =>
        /\ pidFile = cmd[c].pid
        /\ \A d \in Commands : Under(d) => cmd[d].at \in GoesBy /\ cmd[d].pid = cmd[c].pid

DaemonInv == DaemonTypeOK /\ PidsAreGivenOut /\ ServicesHaveStarts /\ FileIsHeeded

\* What a step of one command does to the table of commands.
LEMMA Moved ==
    ASSUME NEW c \in Commands, NEW step \in CommandSteps, NEW pid \in -1..MaxPid,
           DaemonTypeOK, Goto(c, step, pid)
    PROVE  /\ cmd' \in [Commands -> [at : CommandSteps, pid : -1..MaxPid]]
           /\ cmd'[c].at = step /\ cmd'[c].pid = pid
           /\ \A d \in Commands \ {c} : cmd'[d] = cmd[d]
<1>1. cmd \in [Commands -> [at : CommandSteps, pid : -1..MaxPid]]
  BY DEF DaemonTypeOK, CommandSteps
<1> QED
  BY <1>1 DEF Goto

\* A start that has spawned its service keeps its pid, and a new service is that
\* of the command that spawns it.
LEMMA StartsAreKept ==
    ASSUME NEW c \in Commands, ServicesHaveStarts,
           \A d \in Commands \ {c} : cmd'[d] = cmd[d],
           cmd[c].at \in Spawned => cmd'[c].at \in Spawned /\ cmd'[c].pid = cmd[c].pid,
           \A pid \in running' : \/ pid \in running
                                 \/ cmd'[c].pid = pid /\ cmd'[c].at \in Spawned
    PROVE  ServicesHaveStarts'
<1> SUFFICES ASSUME NEW pid \in running'
             PROVE  \E d \in Commands : cmd'[d].pid = pid /\ cmd'[d].at \in Spawned
  BY DEF ServicesHaveStarts, Spawned
<1>1. CASE pid \in running
  <2>1. PICK d \in Commands : cmd[d].pid = pid /\ cmd[d].at \in Spawned
    BY <1>1 DEF ServicesHaveStarts
  <2>2. CASE d = c
    BY <2>1, <2>2
  <2>3. CASE d # c
    BY <2>1, <2>3
  <2> QED
    BY <2>2, <2>3
<1>2. CASE pid \notin running
  BY <1>2
<1> QED
  BY <1>1, <1>2

\* A command that heeds the file of another's service may go on as long as it
\* leaves the file alone and either ends or still goes by that pid; a pid is
\* written for others to heed when no other command is under way.
LEMMA FileStaysHeeded ==
    ASSUME NEW c \in Commands, FileIsHeeded,
           \A d \in Commands \ {c} : cmd'[d] = cmd[d],
           cmd'[c].at = "started" =>
               /\ pidFile' = cmd'[c].pid
               /\ ~Under(c)'
               /\ \A d \in Commands \ {c} : ~Under(d),
           \A d \in Commands \ {c} : cmd[d].pid \in running' => cmd[d].pid \in running,
           \A pid \in running :
               (pidFile = pid /\ (Under(c) => cmd[c].at \in GoesBy /\ cmd[c].pid = pid))
               => /\ pidFile' = pid
                  /\ Under(c)' => cmd'[c].at \in GoesBy /\ cmd'[c].pid = pid
    PROVE  FileIsHeeded'
<1> SUFFICES ASSUME NEW e \in Commands, cmd'[e].at = "started", cmd'[e].pid \in running',
                    NEW d \in Commands
             PROVE  /\ pidFile' = cmd'[e].pid
                    /\ Under(d)' => cmd'[d].at \in GoesBy /\ cmd'[d].pid = cmd'[e].pid
  BY DEF FileIsHeeded, GoesBy
<1>1. \A x \in Commands \ {c} : Under(x)' <=> Under(x)
  BY DEF Under, Ended
<1>2. CASE e = c
  BY <1>1, <1>2
<1>3. CASE e # c
  <2>1. cmd[e].at = "started" /\ cmd[e].pid \in running /\ cmd'[e] = cmd[e]
    BY <1>3
  <2>2. /\ pidFile = cmd[e].pid
        /\ \A x \in Commands : Under(x) => cmd[x].at \in GoesBy /\ cmd[x].pid = cmd[e].pid
    BY <2>1 DEF FileIsHeeded
  <2>3. /\ pidFile' = cmd[e].pid
        /\ Under(c)' => cmd'[c].at \in GoesBy /\ cmd'[c].pid = cmd[e].pid
    BY <2>1, <2>2
  <2>4. CASE d = c
    BY <2>1, <2>3, <2>4
  <2>5. CASE d # c
    BY <1>1, <2>1, <2>2, <2>3, <2>5
  <2> QED
    BY <2>4, <2>5
<1> QED
  BY <1>2, <1>3

\* Every step of a command, also one cut off, and the death of a service keep
\* the invariant.
LEMMA DaemonStep == DaemonInv /\ [DaemonNext]_daemonVars => DaemonInv'
<1> SUFFICES ASSUME DaemonInv, [DaemonNext]_daemonVars PROVE DaemonInv'
  OBVIOUS
<1> USE DaemonAssumption DEF NoPid, Empty
<1>a. /\ pidFile \in -1..MaxPid /\ spawned \in 0..MaxPid
      /\ running \subseteq 1..spawned
      /\ cmd \in [Commands -> [at : CommandSteps, pid : -1..MaxPid]]
  BY DEF DaemonInv, DaemonTypeOK, CommandSteps
<1>b. ASSUME pidFile' \in -1..MaxPid, spawned' \in 0..MaxPid, running' \subseteq 1..spawned',
             cmd' \in [Commands -> [at : CommandSteps, pid : -1..MaxPid]]
      PROVE  DaemonTypeOK'
  BY <1>b DEF DaemonTypeOK, CommandSteps
<1>1. ASSUME NEW c \in Commands, StartReadsPid(c) PROVE DaemonInv'
  <2> DEFINE step == CASE pidFile = NoPid -> "spawn"
                 [] pidFile = Empty -> "done"
                 [] OTHER -> "found"
  <2>1. step \in CommandSteps /\ pidFile \in -1..MaxPid /\ Goto(c, step, pidFile)
    BY <1>1, <1>a DEF StartReadsPid, CommandSteps, Ended
  <2>2. /\ cmd' \in [Commands -> [at : CommandSteps, pid : -1..MaxPid]]
        /\ cmd'[c].at = step /\ cmd'[c].pid = pidFile
        /\ \A d \in Commands \ {c} : cmd'[d] = cmd[d]
    BY <2>1, Moved DEF DaemonInv
  <2>3. DaemonTypeOK'
    BY <1>1, <1>a, <1>b, <2>2 DEF StartReadsPid
  <2> QED
    <3>1. PidsAreGivenOut'
      BY <1>1, <1>a, <2>2 DEF StartReadsPid, DaemonInv, PidsAreGivenOut
    <3>2. ServicesHaveStarts'
      <4>1. cmd[c].at \in Spawned => cmd'[c].at \in Spawned /\ cmd'[c].pid = cmd[c].pid
        BY <1>1, <2>2 DEF StartReadsPid, Spawned
      <4>2. \A pid \in running' : \/ pid \in running
                                  \/ cmd'[c].pid = pid /\ cmd'[c].at \in Spawned
        BY <1>1, <2>2 DEF StartReadsPid, Spawned
      <4> QED
        BY <2>2, <4>1, <4>2, StartsAreKept DEF DaemonInv
    <3>3. FileIsHeeded'
      <4>1. cmd'[c].at = "started" =>
               /\ pidFile' = cmd'[c].pid
               /\ ~Under(c)'
               /\ \A d \in Commands \ {c} : ~Under(d)
        BY <1>1, <2>2 DEF StartReadsPid, Under, Ended
      <4>2. \A d \in Commands \ {c} : cmd[d].pid \in running' => cmd[d].pid \in running
        BY <1>1 DEF StartReadsPid
      <4>3. \A pid \in running :
               (pidFile = pid /\ (Under(c) => cmd[c].at \in GoesBy /\ cmd[c].pid = pid))
               => /\ pidFile' = pid
                  /\ Under(c)' => cmd'[c].at \in GoesBy /\ cmd'[c].pid = pid
        BY <1>1, <1>a, <2>2 DEF StartReadsPid, Under, Ended, GoesBy
      <4> QED
        BY <2>2, <4>1, <4>2, <4>3, FileStaysHeeded DEF DaemonInv
    <3> QED
      BY <2>3, <3>1, <3>2, <3>3 DEF DaemonInv
<1>2. ASSUME NEW c \in Commands, StartLooksForProcess(c) PROVE DaemonInv'
  <2> DEFINE step == IF cmd[c].pid \in running THEN "done" ELSE "stale"
  <2>1. step \in CommandSteps /\ cmd[c].pid \in -1..MaxPid /\ Goto(c, step, cmd[c].pid)
    BY <1>2, <1>a DEF StartLooksForProcess, CommandSteps, Ended
  <2>2. /\ cmd' \in [Commands -> [at : CommandSteps, pid : -1..MaxPid]]
        /\ cmd'[c].at = step /\ cmd'[c].pid = cmd[c].pid
        /\ \A d \in Commands \ {c} : cmd'[d] = cmd[d]
    BY <2>1, Moved DEF DaemonInv
  <2>3. DaemonTypeOK'
    BY <1>2, <1>a, <1>b, <2>2 DEF StartLooksForProcess
  <2> QED
    <3>1. PidsAreGivenOut'
      BY <1>2, <1>a, <2>2 DEF StartLooksForProcess, DaemonInv, PidsAreGivenOut
    <3>2. ServicesHaveStarts'
      <4>1. cmd[c].at \in Spawned => cmd'[c].at \in Spawned /\ cmd'[c].pid = cmd[c].pid
        BY <1>2, <2>2 DEF StartLooksForProcess, Spawned
      <4>2. \A pid \in running' : \/ pid \in running
                                  \/ cmd'[c].pid = pid /\ cmd'[c].at \in Spawned
        BY <1>2, <2>2 DEF StartLooksForProcess, Spawned
      <4> QED
        BY <2>2, <4>1, <4>2, StartsAreKept DEF DaemonInv
    <3>3. FileIsHeeded'
      <4>1. cmd'[c].at = "started" =>
               /\ pidFile' = cmd'[c].pid
               /\ ~Under(c)'
               /\ \A d \in Commands \ {c} : ~Under(d)
        BY <1>2, <2>2 DEF StartLooksForProcess, Under, Ended
      <4>2. \A d \in Commands \ {c} : cmd[d].pid \in running' => cmd[d].pid \in running
        BY <1>2 DEF StartLooksForProcess
      <4>3. \A pid \in running :
               (pidFile = pid /\ (Under(c) => cmd[c].at \in GoesBy /\ cmd[c].pid = pid))
               => /\ pidFile' = pid
                  /\ Under(c)' => cmd'[c].at \in GoesBy /\ cmd'[c].pid = pid
        BY <1>2, <1>a, <2>2 DEF StartLooksForProcess, Under, Ended, GoesBy
      <4> QED
        BY <2>2, <4>1, <4>2, <4>3, FileStaysHeeded DEF DaemonInv
    <3> QED
      BY <2>3, <3>1, <3>2, <3>3 DEF DaemonInv
<1>3. ASSUME NEW c \in Commands, RemoveStalePid(c) PROVE DaemonInv'
  <2> DEFINE step == IF pidFile = NoPid THEN "done" ELSE "spawn"
  <2>1. step \in CommandSteps /\ NoPid \in -1..MaxPid /\ Goto(c, step, NoPid)
    <3>1. NoPid \in -1..MaxPid
      OBVIOUS
    <3>2. step \in CommandSteps
      BY DEF CommandSteps, Ended
    <3> QED
      BY <1>3, <3>1, <3>2 DEF RemoveStalePid
  <2>2. /\ cmd' \in [Commands -> [at : CommandSteps, pid : -1..MaxPid]]
        /\ cmd'[c].at = step /\ cmd'[c].pid = NoPid
        /\ \A d \in Commands \ {c} : cmd'[d] = cmd[d]
    BY <2>1, Moved DEF DaemonInv
  <2>3. DaemonTypeOK'
    BY <1>3, <1>a, <1>b, <2>2 DEF RemoveStalePid
  <2> QED
    <3>1. PidsAreGivenOut'
      BY <1>3, <1>a, <2>2 DEF RemoveStalePid, DaemonInv, PidsAreGivenOut
    <3>2. ServicesHaveStarts'
      <4>1. cmd[c].at \in Spawned => cmd'[c].at \in Spawned /\ cmd'[c].pid = cmd[c].pid
        BY <1>3, <2>2 DEF RemoveStalePid, Spawned
      <4>2. \A pid \in running' : \/ pid \in running
                                  \/ cmd'[c].pid = pid /\ cmd'[c].at \in Spawned
        BY <1>3, <2>2 DEF RemoveStalePid, Spawned
      <4> QED
        BY <2>2, <4>1, <4>2, StartsAreKept DEF DaemonInv
    <3>3. FileIsHeeded'
      <4>1. cmd'[c].at = "started" =>
               /\ pidFile' = cmd'[c].pid
               /\ ~Under(c)'
               /\ \A d \in Commands \ {c} : ~Under(d)
        BY <1>3, <2>2 DEF RemoveStalePid, Under, Ended
      <4>2. \A d \in Commands \ {c} : cmd[d].pid \in running' => cmd[d].pid \in running
        BY <1>3 DEF RemoveStalePid
      <4>3. \A pid \in running :
               (pidFile = pid /\ (Under(c) => cmd[c].at \in GoesBy /\ cmd[c].pid = pid))
               => /\ pidFile' = pid
                  /\ Under(c)' => cmd'[c].at \in GoesBy /\ cmd'[c].pid = pid
        BY <1>3, <1>a, <2>2 DEF RemoveStalePid, Under, Ended, GoesBy
      <4> QED
        BY <2>2, <4>1, <4>2, <4>3, FileStaysHeeded DEF DaemonInv
    <3> QED
      BY <2>3, <3>1, <3>2, <3>3 DEF DaemonInv
<1>4. ASSUME NEW c \in Commands, Spawn(c) PROVE DaemonInv'
  <2> DEFINE step == "opening"
  <2>1. step \in CommandSteps /\ spawned + 1 \in -1..MaxPid /\ Goto(c, step, spawned + 1)
    <3>1. spawned + 1 \in -1..MaxPid
      BY <1>4, <1>a DEF Spawn
    <3>2. step \in CommandSteps
      BY DEF CommandSteps
    <3> QED
      BY <1>4, <3>1, <3>2 DEF Spawn
  <2>2. /\ cmd' \in [Commands -> [at : CommandSteps, pid : -1..MaxPid]]
        /\ cmd'[c].at = step /\ cmd'[c].pid = spawned + 1
        /\ \A d \in Commands \ {c} : cmd'[d] = cmd[d]
    BY <2>1, Moved DEF DaemonInv
  <2>3. DaemonTypeOK'
    BY <1>4, <1>a, <1>b, <2>2 DEF Spawn
  <2> QED
    <3>1. PidsAreGivenOut'
      BY <1>4, <1>a, <2>2 DEF Spawn, DaemonInv, PidsAreGivenOut
    <3>2. ServicesHaveStarts'
      <4>1. cmd[c].at \in Spawned => cmd'[c].at \in Spawned /\ cmd'[c].pid = cmd[c].pid
        BY <1>4, <2>2 DEF Spawn, Spawned
      <4>2. \A pid \in running' : \/ pid \in running
                                  \/ cmd'[c].pid = pid /\ cmd'[c].at \in Spawned
        BY <1>4, <2>2 DEF Spawn, Spawned
      <4> QED
        BY <2>2, <4>1, <4>2, StartsAreKept DEF DaemonInv
    <3>3. FileIsHeeded'
      <4>1. cmd'[c].at = "started" =>
               /\ pidFile' = cmd'[c].pid
               /\ ~Under(c)'
               /\ \A d \in Commands \ {c} : ~Under(d)
        BY <1>4, <2>2 DEF Spawn, Under, Ended
      <4>2. \A d \in Commands \ {c} : cmd[d].pid \in running' => cmd[d].pid \in running
        BY <1>4, <1>a DEF Spawn, DaemonInv, PidsAreGivenOut
      <4>3. \A pid \in running :
               (pidFile = pid /\ (Under(c) => cmd[c].at \in GoesBy /\ cmd[c].pid = pid))
               => /\ pidFile' = pid
                  /\ Under(c)' => cmd'[c].at \in GoesBy /\ cmd'[c].pid = pid
        BY <1>4, <1>a, <2>2 DEF Spawn, Under, Ended, GoesBy
      <4> QED
        BY <2>2, <4>1, <4>2, <4>3, FileStaysHeeded DEF DaemonInv
    <3> QED
      BY <2>3, <3>1, <3>2, <3>3 DEF DaemonInv
<1>5. ASSUME NEW c \in Commands, OpenPid(c) PROVE DaemonInv'
  <2> DEFINE step == "writing"
  <2>1. step \in CommandSteps /\ cmd[c].pid \in -1..MaxPid /\ Goto(c, step, cmd[c].pid)
    BY <1>5, <1>a DEF OpenPid, CommandSteps, Ended
  <2>2. /\ cmd' \in [Commands -> [at : CommandSteps, pid : -1..MaxPid]]
        /\ cmd'[c].at = step /\ cmd'[c].pid = cmd[c].pid
        /\ \A d \in Commands \ {c} : cmd'[d] = cmd[d]
    BY <2>1, Moved DEF DaemonInv
  <2>3. DaemonTypeOK'
    BY <1>5, <1>a, <1>b, <2>2 DEF OpenPid
  <2> QED
    <3>1. PidsAreGivenOut'
      BY <1>5, <1>a, <2>2 DEF OpenPid, DaemonInv, PidsAreGivenOut
    <3>2. ServicesHaveStarts'
      <4>1. cmd[c].at \in Spawned => cmd'[c].at \in Spawned /\ cmd'[c].pid = cmd[c].pid
        BY <1>5, <2>2 DEF OpenPid, Spawned
      <4>2. \A pid \in running' : \/ pid \in running
                                  \/ cmd'[c].pid = pid /\ cmd'[c].at \in Spawned
        BY <1>5, <2>2 DEF OpenPid, Spawned
      <4> QED
        BY <2>2, <4>1, <4>2, StartsAreKept DEF DaemonInv
    <3>3. FileIsHeeded'
      <4>1. cmd'[c].at = "started" =>
               /\ pidFile' = cmd'[c].pid
               /\ ~Under(c)'
               /\ \A d \in Commands \ {c} : ~Under(d)
        BY <1>5, <2>2 DEF OpenPid, Under, Ended
      <4>2. \A d \in Commands \ {c} : cmd[d].pid \in running' => cmd[d].pid \in running
        BY <1>5 DEF OpenPid
      <4>3. \A pid \in running :
               (pidFile = pid /\ (Under(c) => cmd[c].at \in GoesBy /\ cmd[c].pid = pid))
               => /\ pidFile' = pid
                  /\ Under(c)' => cmd'[c].at \in GoesBy /\ cmd'[c].pid = pid
        BY <1>5, <1>a, <2>2 DEF OpenPid, Under, Ended, GoesBy
      <4> QED
        BY <2>2, <4>1, <4>2, <4>3, FileStaysHeeded DEF DaemonInv
    <3> QED
      BY <2>3, <3>1, <3>2, <3>3 DEF DaemonInv
<1>6. ASSUME NEW c \in Commands, WritePid(c) PROVE DaemonInv'
  <2> DEFINE step == IF \E other \in Commands \ {c} : Under(other) THEN "contended"
                   ELSE "started"
  <2>1. step \in CommandSteps /\ cmd[c].pid \in -1..MaxPid /\ Goto(c, step, cmd[c].pid)
    BY <1>6, <1>a DEF WritePid, CommandSteps, Ended
  <2>2. /\ cmd' \in [Commands -> [at : CommandSteps, pid : -1..MaxPid]]
        /\ cmd'[c].at = step /\ cmd'[c].pid = cmd[c].pid
        /\ \A d \in Commands \ {c} : cmd'[d] = cmd[d]
    BY <2>1, Moved DEF DaemonInv
  <2>3. DaemonTypeOK'
    BY <1>6, <1>a, <1>b, <2>2 DEF WritePid
  <2> QED
    <3>1. PidsAreGivenOut'
      BY <1>6, <1>a, <2>2 DEF WritePid, DaemonInv, PidsAreGivenOut
    <3>2. ServicesHaveStarts'
      <4>1. cmd[c].at \in Spawned => cmd'[c].at \in Spawned /\ cmd'[c].pid = cmd[c].pid
        BY <1>6, <2>2 DEF WritePid, Spawned
      <4>2. \A pid \in running' : \/ pid \in running
                                  \/ cmd'[c].pid = pid /\ cmd'[c].at \in Spawned
        BY <1>6, <2>2 DEF WritePid, Spawned
      <4> QED
        BY <2>2, <4>1, <4>2, StartsAreKept DEF DaemonInv
    <3>3. FileIsHeeded'
      <4>1. cmd'[c].at = "started" =>
               /\ pidFile' = cmd'[c].pid
               /\ ~Under(c)'
               /\ \A d \in Commands \ {c} : ~Under(d)
        BY <1>6, <2>2 DEF WritePid, Under, Ended
      <4>2. \A d \in Commands \ {c} : cmd[d].pid \in running' => cmd[d].pid \in running
        BY <1>6 DEF WritePid
      <4>3. \A pid \in running :
               (pidFile = pid /\ (Under(c) => cmd[c].at \in GoesBy /\ cmd[c].pid = pid))
               => /\ pidFile' = pid
                  /\ Under(c)' => cmd'[c].at \in GoesBy /\ cmd'[c].pid = pid
        BY <1>6, <1>a, <2>2 DEF WritePid, Under, Ended, GoesBy
      <4> QED
        BY <2>2, <4>1, <4>2, <4>3, FileStaysHeeded DEF DaemonInv
    <3> QED
      BY <2>3, <3>1, <3>2, <3>3 DEF DaemonInv
<1>7. ASSUME NEW c \in Commands, StopReadsPid(c) PROVE DaemonInv'
  <2> DEFINE step == IF pidFile \in {NoPid, Empty} THEN "done" ELSE "stopping"
  <2>1. step \in CommandSteps /\ pidFile \in -1..MaxPid /\ Goto(c, step, pidFile)
    BY <1>7, <1>a DEF StopReadsPid, CommandSteps, Ended
  <2>2. /\ cmd' \in [Commands -> [at : CommandSteps, pid : -1..MaxPid]]
        /\ cmd'[c].at = step /\ cmd'[c].pid = pidFile
        /\ \A d \in Commands \ {c} : cmd'[d] = cmd[d]
    BY <2>1, Moved DEF DaemonInv
  <2>3. DaemonTypeOK'
    BY <1>7, <1>a, <1>b, <2>2 DEF StopReadsPid
  <2> QED
    <3>1. PidsAreGivenOut'
      BY <1>7, <1>a, <2>2 DEF StopReadsPid, DaemonInv, PidsAreGivenOut
    <3>2. ServicesHaveStarts'
      <4>1. cmd[c].at \in Spawned => cmd'[c].at \in Spawned /\ cmd'[c].pid = cmd[c].pid
        BY <1>7, <2>2 DEF StopReadsPid, Spawned
      <4>2. \A pid \in running' : \/ pid \in running
                                  \/ cmd'[c].pid = pid /\ cmd'[c].at \in Spawned
        BY <1>7, <2>2 DEF StopReadsPid, Spawned
      <4> QED
        BY <2>2, <4>1, <4>2, StartsAreKept DEF DaemonInv
    <3>3. FileIsHeeded'
      <4>1. cmd'[c].at = "started" =>
               /\ pidFile' = cmd'[c].pid
               /\ ~Under(c)'
               /\ \A d \in Commands \ {c} : ~Under(d)
        BY <1>7, <2>2 DEF StopReadsPid, Under, Ended
      <4>2. \A d \in Commands \ {c} : cmd[d].pid \in running' => cmd[d].pid \in running
        BY <1>7 DEF StopReadsPid
      <4>3. \A pid \in running :
               (pidFile = pid /\ (Under(c) => cmd[c].at \in GoesBy /\ cmd[c].pid = pid))
               => /\ pidFile' = pid
                  /\ Under(c)' => cmd'[c].at \in GoesBy /\ cmd'[c].pid = pid
        BY <1>7, <1>a, <2>2 DEF StopReadsPid, Under, Ended, GoesBy
      <4> QED
        BY <2>2, <4>1, <4>2, <4>3, FileStaysHeeded DEF DaemonInv
    <3> QED
      BY <2>3, <3>1, <3>2, <3>3 DEF DaemonInv
<1>8. ASSUME NEW c \in Commands, StopSignals(c) PROVE DaemonInv'
  <2> DEFINE step == IF cmd[c].pid \in running THEN "terminated" ELSE "removing"
  <2>1. step \in CommandSteps /\ cmd[c].pid \in -1..MaxPid /\ Goto(c, step, cmd[c].pid)
    BY <1>8, <1>a DEF StopSignals, CommandSteps, Ended
  <2>2. /\ cmd' \in [Commands -> [at : CommandSteps, pid : -1..MaxPid]]
        /\ cmd'[c].at = step /\ cmd'[c].pid = cmd[c].pid
        /\ \A d \in Commands \ {c} : cmd'[d] = cmd[d]
    BY <2>1, Moved DEF DaemonInv
  <2>3. DaemonTypeOK'
    BY <1>8, <1>a, <1>b, <2>2 DEF StopSignals
  <2> QED
    <3>1. PidsAreGivenOut'
      BY <1>8, <1>a, <2>2 DEF StopSignals, DaemonInv, PidsAreGivenOut
    <3>2. ServicesHaveStarts'
      <4>1. cmd[c].at \in Spawned => cmd'[c].at \in Spawned /\ cmd'[c].pid = cmd[c].pid
        BY <1>8, <2>2 DEF StopSignals, Spawned
      <4>2. \A pid \in running' : \/ pid \in running
                                  \/ cmd'[c].pid = pid /\ cmd'[c].at \in Spawned
        BY <1>8, <2>2 DEF StopSignals, Spawned
      <4> QED
        BY <2>2, <4>1, <4>2, StartsAreKept DEF DaemonInv
    <3>3. FileIsHeeded'
      <4>1. cmd'[c].at = "started" =>
               /\ pidFile' = cmd'[c].pid
               /\ ~Under(c)'
               /\ \A d \in Commands \ {c} : ~Under(d)
        BY <1>8, <2>2 DEF StopSignals, Under, Ended
      <4>2. \A d \in Commands \ {c} : cmd[d].pid \in running' => cmd[d].pid \in running
        BY <1>8 DEF StopSignals
      <4>3. \A pid \in running :
               (pidFile = pid /\ (Under(c) => cmd[c].at \in GoesBy /\ cmd[c].pid = pid))
               => /\ pidFile' = pid
                  /\ Under(c)' => cmd'[c].at \in GoesBy /\ cmd'[c].pid = pid
        BY <1>8, <1>a, <2>2 DEF StopSignals, Under, Ended, GoesBy
      <4> QED
        BY <2>2, <4>1, <4>2, <4>3, FileStaysHeeded DEF DaemonInv
    <3> QED
      BY <2>3, <3>1, <3>2, <3>3 DEF DaemonInv
<1>9. ASSUME NEW c \in Commands, StopSeesExit(c) PROVE DaemonInv'
  <2> DEFINE step == "removing"
  <2>1. step \in CommandSteps /\ cmd[c].pid \in -1..MaxPid /\ Goto(c, step, cmd[c].pid)
    BY <1>9, <1>a DEF StopSeesExit, CommandSteps, Ended
  <2>2. /\ cmd' \in [Commands -> [at : CommandSteps, pid : -1..MaxPid]]
        /\ cmd'[c].at = step /\ cmd'[c].pid = cmd[c].pid
        /\ \A d \in Commands \ {c} : cmd'[d] = cmd[d]
    BY <2>1, Moved DEF DaemonInv
  <2>3. DaemonTypeOK'
    BY <1>9, <1>a, <1>b, <2>2 DEF StopSeesExit
  <2> QED
    <3>1. PidsAreGivenOut'
      BY <1>9, <1>a, <2>2 DEF StopSeesExit, DaemonInv, PidsAreGivenOut
    <3>2. ServicesHaveStarts'
      <4>1. cmd[c].at \in Spawned => cmd'[c].at \in Spawned /\ cmd'[c].pid = cmd[c].pid
        BY <1>9, <2>2 DEF StopSeesExit, Spawned
      <4>2. \A pid \in running' : \/ pid \in running
                                  \/ cmd'[c].pid = pid /\ cmd'[c].at \in Spawned
        BY <1>9, <2>2 DEF StopSeesExit, Spawned
      <4> QED
        BY <2>2, <4>1, <4>2, StartsAreKept DEF DaemonInv
    <3>3. FileIsHeeded'
      <4>1. cmd'[c].at = "started" =>
               /\ pidFile' = cmd'[c].pid
               /\ ~Under(c)'
               /\ \A d \in Commands \ {c} : ~Under(d)
        BY <1>9, <2>2 DEF StopSeesExit, Under, Ended
      <4>2. \A d \in Commands \ {c} : cmd[d].pid \in running' => cmd[d].pid \in running
        BY <1>9 DEF StopSeesExit
      <4>3. \A pid \in running :
               (pidFile = pid /\ (Under(c) => cmd[c].at \in GoesBy /\ cmd[c].pid = pid))
               => /\ pidFile' = pid
                  /\ Under(c)' => cmd'[c].at \in GoesBy /\ cmd'[c].pid = pid
        BY <1>9, <1>a, <2>2 DEF StopSeesExit, Under, Ended, GoesBy
      <4> QED
        BY <2>2, <4>1, <4>2, <4>3, FileStaysHeeded DEF DaemonInv
    <3> QED
      BY <2>3, <3>1, <3>2, <3>3 DEF DaemonInv
<1>10. ASSUME NEW c \in Commands, StopTimesOut(c) PROVE DaemonInv'
  <2> DEFINE step == IF cmd[c].at = "terminated" THEN "killed" ELSE "done"
  <2>1. step \in CommandSteps /\ cmd[c].pid \in -1..MaxPid /\ Goto(c, step, cmd[c].pid)
    BY <1>10, <1>a DEF StopTimesOut, CommandSteps, Ended
  <2>2. /\ cmd' \in [Commands -> [at : CommandSteps, pid : -1..MaxPid]]
        /\ cmd'[c].at = step /\ cmd'[c].pid = cmd[c].pid
        /\ \A d \in Commands \ {c} : cmd'[d] = cmd[d]
    BY <2>1, Moved DEF DaemonInv
  <2>3. DaemonTypeOK'
    BY <1>10, <1>a, <1>b, <2>2 DEF StopTimesOut
  <2> QED
    <3>1. PidsAreGivenOut'
      BY <1>10, <1>a, <2>2 DEF StopTimesOut, DaemonInv, PidsAreGivenOut
    <3>2. ServicesHaveStarts'
      <4>1. cmd[c].at \in Spawned => cmd'[c].at \in Spawned /\ cmd'[c].pid = cmd[c].pid
        BY <1>10, <2>2 DEF StopTimesOut, Spawned
      <4>2. \A pid \in running' : \/ pid \in running
                                  \/ cmd'[c].pid = pid /\ cmd'[c].at \in Spawned
        BY <1>10, <2>2 DEF StopTimesOut, Spawned
      <4> QED
        BY <2>2, <4>1, <4>2, StartsAreKept DEF DaemonInv
    <3>3. FileIsHeeded'
      <4>1. cmd'[c].at = "started" =>
               /\ pidFile' = cmd'[c].pid
               /\ ~Under(c)'
               /\ \A d \in Commands \ {c} : ~Under(d)
        BY <1>10, <2>2 DEF StopTimesOut, Under, Ended
      <4>2. \A d \in Commands \ {c} : cmd[d].pid \in running' => cmd[d].pid \in running
        BY <1>10 DEF StopTimesOut
      <4>3. \A pid \in running :
               (pidFile = pid /\ (Under(c) => cmd[c].at \in GoesBy /\ cmd[c].pid = pid))
               => /\ pidFile' = pid
                  /\ Under(c)' => cmd'[c].at \in GoesBy /\ cmd'[c].pid = pid
        BY <1>10, <1>a, <2>2 DEF StopTimesOut, Under, Ended, GoesBy
      <4> QED
        BY <2>2, <4>1, <4>2, <4>3, FileStaysHeeded DEF DaemonInv
    <3> QED
      BY <2>3, <3>1, <3>2, <3>3 DEF DaemonInv
<1>11. ASSUME NEW c \in Commands, StopRemovesPid(c) PROVE DaemonInv'
  <2> DEFINE step == "done"
  <2>1. step \in CommandSteps /\ cmd[c].pid \in -1..MaxPid /\ Goto(c, step, cmd[c].pid)
    BY <1>11, <1>a DEF StopRemovesPid, CommandSteps, Ended
  <2>2. /\ cmd' \in [Commands -> [at : CommandSteps, pid : -1..MaxPid]]
        /\ cmd'[c].at = step /\ cmd'[c].pid = cmd[c].pid
        /\ \A d \in Commands \ {c} : cmd'[d] = cmd[d]
    BY <2>1, Moved DEF DaemonInv
  <2>3. DaemonTypeOK'
    BY <1>11, <1>a, <1>b, <2>2 DEF StopRemovesPid
  <2> QED
    <3>1. PidsAreGivenOut'
      BY <1>11, <1>a, <2>2 DEF StopRemovesPid, DaemonInv, PidsAreGivenOut
    <3>2. ServicesHaveStarts'
      <4>1. cmd[c].at \in Spawned => cmd'[c].at \in Spawned /\ cmd'[c].pid = cmd[c].pid
        BY <1>11, <2>2 DEF StopRemovesPid, Spawned
      <4>2. \A pid \in running' : \/ pid \in running
                                  \/ cmd'[c].pid = pid /\ cmd'[c].at \in Spawned
        BY <1>11, <2>2 DEF StopRemovesPid, Spawned
      <4> QED
        BY <2>2, <4>1, <4>2, StartsAreKept DEF DaemonInv
    <3>3. FileIsHeeded'
      <4>1. cmd'[c].at = "started" =>
               /\ pidFile' = cmd'[c].pid
               /\ ~Under(c)'
               /\ \A d \in Commands \ {c} : ~Under(d)
        BY <1>11, <2>2 DEF StopRemovesPid, Under, Ended
      <4>2. \A d \in Commands \ {c} : cmd[d].pid \in running' => cmd[d].pid \in running
        BY <1>11 DEF StopRemovesPid
      <4>3. \A pid \in running :
               (pidFile = pid /\ (Under(c) => cmd[c].at \in GoesBy /\ cmd[c].pid = pid))
               => /\ pidFile' = pid
                  /\ Under(c)' => cmd'[c].at \in GoesBy /\ cmd'[c].pid = pid
        BY <1>11, <1>a, <2>2 DEF StopRemovesPid, Under, Ended, GoesBy
      <4> QED
        BY <2>2, <4>1, <4>2, <4>3, FileStaysHeeded DEF DaemonInv
    <3> QED
      BY <2>3, <3>1, <3>2, <3>3 DEF DaemonInv
<1>12. ASSUME NEW c \in Commands, CutOff(c) PROVE DaemonInv'
  <2> DEFINE step == IF cmd[c].at \in {"opening", "writing"} THEN "cut off" ELSE "done"
  <2>1. step \in CommandSteps /\ cmd[c].pid \in -1..MaxPid /\ Goto(c, step, cmd[c].pid)
    BY <1>12, <1>a DEF CutOff, CommandSteps, Ended
  <2>2. /\ cmd' \in [Commands -> [at : CommandSteps, pid : -1..MaxPid]]
        /\ cmd'[c].at = step /\ cmd'[c].pid = cmd[c].pid
        /\ \A d \in Commands \ {c} : cmd'[d] = cmd[d]
    BY <2>1, Moved DEF DaemonInv
  <2>3. DaemonTypeOK'
    BY <1>12, <1>a, <1>b, <2>2 DEF CutOff
  <2> QED
    <3>1. PidsAreGivenOut'
      BY <1>12, <1>a, <2>2 DEF CutOff, DaemonInv, PidsAreGivenOut
    <3>2. ServicesHaveStarts'
      <4>1. cmd[c].at \in Spawned => cmd'[c].at \in Spawned /\ cmd'[c].pid = cmd[c].pid
        <5>1. CASE cmd[c].at \in {"opening", "writing"}
          BY <2>2, <5>1 DEF Spawned
        <5>2. CASE cmd[c].at \notin {"opening", "writing"}
          BY <1>12, <5>2 DEF CutOff, Under, Ended, Spawned
        <5> QED
          BY <5>1, <5>2
      <4>2. \A pid \in running' : \/ pid \in running
                                  \/ cmd'[c].pid = pid /\ cmd'[c].at \in Spawned
        BY <1>12, <2>2 DEF CutOff, Spawned
      <4> QED
        BY <2>2, <4>1, <4>2, StartsAreKept DEF DaemonInv
    <3>3. FileIsHeeded'
      <4>1. cmd'[c].at = "started" =>
               /\ pidFile' = cmd'[c].pid
               /\ ~Under(c)'
               /\ \A d \in Commands \ {c} : ~Under(d)
        BY <1>12, <2>2 DEF CutOff, Under, Ended
      <4>2. \A d \in Commands \ {c} : cmd[d].pid \in running' => cmd[d].pid \in running
        BY <1>12 DEF CutOff
      <4>3. \A pid \in running :
               (pidFile = pid /\ (Under(c) => cmd[c].at \in GoesBy /\ cmd[c].pid = pid))
               => /\ pidFile' = pid
                  /\ Under(c)' => cmd'[c].at \in GoesBy /\ cmd'[c].pid = pid
        BY <1>12, <1>a, <2>2 DEF CutOff, Under, Ended, GoesBy
      <4> QED
        BY <2>2, <4>1, <4>2, <4>3, FileStaysHeeded DEF DaemonInv
    <3> QED
      BY <2>3, <3>1, <3>2, <3>3 DEF DaemonInv
<1>13. ASSUME NEW pid \in running, ServiceExits(pid) PROVE DaemonInv'
  <2>1. DaemonTypeOK'
    BY <1>13, <1>a, <1>b DEF ServiceExits
  <2>2. PidsAreGivenOut' /\ ServicesHaveStarts' /\ FileIsHeeded'
    BY <1>13 DEF ServiceExits, DaemonInv, PidsAreGivenOut, ServicesHaveStarts,
       FileIsHeeded, Under
  <2> QED
    BY <2>1, <2>2 DEF DaemonInv
<1>14. CASE UNCHANGED daemonVars
  BY <1>14 DEF daemonVars, DaemonInv, DaemonTypeOK, PidsAreGivenOut,
     ServicesHaveStarts, FileIsHeeded, Under
<1> QED
  BY <1>1, <1>2, <1>3, <1>4, <1>5, <1>6, <1>7, <1>8, <1>9, <1>10, <1>11, <1>12,
     <1>13, <1>14 DEF DaemonNext, StartStep, StopStep

\* Whatever `system start` and `system stop` commands overlap, fail or are
\* killed, for any number of them: a running service is named by the pid file,
\* unless its own start was cut off before it had written the pid, or another
\* command that had read the file was under way when it did.
THEOREM ServiceStaysManaged == DaemonSpec => []ServiceIsManaged
<1>1. DaemonInit => DaemonInv
  <2> SUFFICES ASSUME DaemonInit PROVE DaemonInv
    OBVIOUS
  <2>1. DaemonTypeOK
    BY DaemonAssumption DEF DaemonInit, DaemonTypeOK, NoPid, Ended
  <2> QED
    BY <2>1 DEF DaemonInit, DaemonInv, PidsAreGivenOut, ServicesHaveStarts,
       FileIsHeeded, Under, Ended, NoPid
<1>2. DaemonInv => ServiceIsManaged
  BY DEF DaemonInv, ServicesHaveStarts, FileIsHeeded, ServiceIsManaged, Spawned
<1> QED
  BY <1>1, <1>2, DaemonStep, PTL DEF DaemonSpec

-----------------------------------------------------------------------------
(* ToolCalls                                                                *)

Verdicts == {"direct", "wasm", "host", "ask"}

\* What a call may be between its request and its result; what it set going
\* goes back to the verdict on its request, or to an approval.
CallShape(call) ==
    call \in [at : {"idle", "asking", "preparing", "running", "done"},
              req : Requests, approved : BOOLEAN,
              result : Refusals \cup {"none", "accepted", "ok", "error",
                                      "timed_out"}]

CallIsJudged(c) ==
    LET call == calls[c] IN
    /\ CallShape(call) /\ call.at # "idle"
    /\ call.at = "asking" => Verdict(call.req) = "ask"
    /\ call.at = "preparing" => Verdict(call.req) = "host"
    /\ call.at # "done" => call.result = "none"
    /\ call.at = "running" => run[c] # NoOutcome
    /\ run[c] = NoOutcome
       \/ /\ run[c] \in [at : {"going", "over"}, outside : BOOLEAN,
                         acted : BOOLEAN]
          /\ call.at \in {"running", "done"}
          /\ Verdict(call.req) \in Verdicts
          /\ call.result \notin Refusals
          /\ call.result = "accepted" =>
                 call.req.name \in Spawning /\ call.req.background
          /\ run[c].outside => Verdict(call.req) = "direct" \/ call.approved

CallsInv ==
    /\ run \in [CallSlots -> [at : {"none", "going", "over"},
                              outside : BOOLEAN, acted : BOOLEAN]]
    /\ DOMAIN calls = CallSlots
    /\ \A c \in CallSlots :
           (calls[c] = IdleCall /\ run[c] = NoOutcome) \/ CallIsJudged(c)

\* A request that is not refused is run in one of four ways (execute).
LEMMA VerdictCases ==
    ASSUME NEW req \in Requests
    PROVE  /\ Verdict(req) \in Refusals \cup Verdicts
           /\ Verdict(req) \in Verdicts =>
                 /\ req.name \in ActiveTools(req.delegated)
                 /\ Authorize(req) /\ Plan(req)
                 /\ Verdict(req) = Execute(req)
<1>1. \A name : ExecutionKind(name) \in Verdicts
  BY DEF ExecutionKind, Verdicts
<1>2. Execute(req) \in Verdicts
  BY <1>1 DEF Execute, ExecuteWeb, ExecuteFileTool, ExecuteExec, Verdicts
<1> QED
  BY <1>2 DEF Verdict, Refusals, Verdicts

\* A sandboxed tool never runs directly by its verdict alone (execution_kind).
LEMMA SandboxedIsNotDirect ==
    ASSUME NEW req \in Requests, setting.sandboxed, req.name \in Sandboxable
    PROVE  Execute(req) # "direct"
BY DEF Execute, ExecuteWeb, ExecuteFileTool, ExecuteExec, ExecutionKind,
   Sandboxable

\* Delegated runs start nothing in the background (with_async_disabled).
LEMMA DelegatedHasNoBackground ==
    ASSUME NEW req \in Requests, Plan(req), req.name \in Spawning, req.background
    PROVE  ~req.delegated
BY DEF Plan, BackgroundAllowed

\* A call whose outcome rests on its verdict is within its rights.
LEMMA JudgedIsEntitled == CallsInv => RunsAreEntitled
<1> SUFFICES ASSUME CallsInv, NEW c \in CallSlots, run[c] # NoOutcome
             PROVE  LET req == calls[c].req IN
                    /\ calls[c].result \notin Refusals
                    /\ req.name \in ActiveTools(req.delegated)
                    /\ setting.restricted /\ req.name \notin {"react", "skill"} =>
                           req.user \in setting.owners
                    /\ setting.sandboxed /\ req.name \in Sandboxable
                          /\ run[c].outside => calls[c].approved
                    /\ ~(req.delegated /\ calls[c].result = "accepted")
  BY DEF RunsAreEntitled
<1>1. CallIsJudged(c)
  BY DEF CallsInv
<1> DEFINE req == calls[c].req
<1>2. req \in Requests /\ Verdict(req) \in Verdicts
  BY <1>1 DEF CallIsJudged, CallShape
<1>3. /\ req.name \in ActiveTools(req.delegated) /\ Authorize(req)
      /\ Plan(req) /\ Verdict(req) = Execute(req)
  BY <1>2, VerdictCases
<1>4. setting.sandboxed /\ req.name \in Sandboxable => Verdict(req) # "direct"
  BY <1>2, <1>3, SandboxedIsNotDirect
<1>5. calls[c].result = "accepted" => ~req.delegated
  BY <1>1, <1>2, <1>3, DelegatedHasNoBackground DEF CallIsJudged
<1>6. run[c].outside => Verdict(req) = "direct" \/ calls[c].approved
  BY <1>1 DEF CallIsJudged
<1>7. calls[c].result \notin Refusals
  BY <1>1 DEF CallIsJudged
<1>8. setting.restricted /\ req.name \notin {"react", "skill"} =>
          req.user \in setting.owners
  BY <1>3 DEF Authorize, OwnerRestricted
<1> QED
  BY <1>3, <1>4, <1>5, <1>6, <1>7, <1>8

\* The configuration is fixed for the life of the process, and with it every
\* verdict.
LEMMA VerdictStays ==
    ASSUME UNCHANGED setting
    PROVE  \A req \in Requests : Verdict(req)' = Verdict(req)
BY DEF Verdict, ActiveTools, BuildRegistry, EnabledToolNames, Authorize,
   OwnerRestricted, Plan, BackgroundAllowed, WithAsyncDisabled, Execute,
   ExecuteWeb, ExecuteFileTool, ExecuteExec, ExecutionKind

\* A step of one call leaves the others as they are.
LEMMA OtherCallsStay ==
    ASSUME CallsInv, UNCHANGED setting, NEW c \in CallSlots,
           DOMAIN calls' = CallSlots,
           run' \in [CallSlots -> [at : {"none", "going", "over"},
                                  outside : BOOLEAN, acted : BOOLEAN]],
           \A d \in CallSlots \ {c} : calls'[d] = calls[d] /\ run'[d] = run[d],
           CallIsJudged(c)'
    PROVE  CallsInv'
<1>1. ASSUME NEW d \in CallSlots, d # c
      PROVE  (calls[d] = IdleCall /\ run[d] = NoOutcome)' \/ CallIsJudged(d)'
  <2>1. calls'[d] = calls[d] /\ run'[d] = run[d]
    BY <1>1
  <2> QED
    BY <1>1, <2>1, VerdictStays DEF CallsInv, CallIsJudged, CallShape
<1> QED
  BY <1>1 DEF CallsInv

\* Every step of a call keeps the invariant.
LEMMA CallStep ==
    ASSUME CallsInv, NEW c \in CallSlots,
           \/ \E req \in Requests : ExecuteToolCall(c, req)
           \/ Approved(c) \/ NotApproved(c)
           \/ PrepareCommand(c) \/ PrepareFails(c)
           \/ RunActs(c) \/ RunEnds(c) \/ RunTimesOut(c)
    PROVE  CallsInv'
<1> DEFINE Runs == [at : {"none", "going", "over"}, outside : BOOLEAN,
                    acted : BOOLEAN]
<1>1. UNCHANGED setting
  <2>1. ASSUME NEW req \in Requests, ExecuteToolCall(c, req)
        PROVE  UNCHANGED setting
    BY <2>1, VerdictCases DEF ExecuteToolCall, Launch, Verdicts
  <2> QED
    BY <2>1 DEF Launch, Approved, NotApproved, PrepareCommand, PrepareFails,
       RunActs, RunEnds, RunTimesOut
<1>2. /\ run[c] \in Runs /\ run \in [CallSlots -> Runs]
      /\ DOMAIN calls = CallSlots
  BY DEF CallsInv
<1>3. \A req \in Requests : Verdict(req)' = Verdict(req)
  BY <1>1, VerdictStays
<1>4. calls[c].at # "idle" => CallIsJudged(c)
  BY DEF CallsInv, IdleCall
<1>5. NoOutcome \in Runs
  BY DEF NoOutcome
\* What Launch makes of a call that its verdict or its user lets go ahead.
<1>6. ASSUME NEW call, CallShape(call), NEW outside \in BOOLEAN,
             call.result = "none", Verdict(call.req) \in Verdicts,
             outside => Verdict(call.req) = "direct" \/ call.approved,
             Launch(c, call, outside)
      PROVE  CallsInv'
  <2> DEFINE newRun == [at |-> "going", outside |-> outside, acted |-> FALSE]
  <2> DEFINE newCall == IF call.req.name \in Spawning /\ call.req.background
                        THEN [call EXCEPT !.at = "done", !.result = "accepted"]
                        ELSE [call EXCEPT !.at = "running"]
  <2>1. run' = [run EXCEPT ![c] = newRun] /\ calls' = [calls EXCEPT ![c] = newCall]
    BY <1>6 DEF Launch
  <2>2. newRun \in Runs /\ newRun # NoOutcome
    BY DEF NoOutcome
  <2>3. /\ run'[c] = newRun /\ calls'[c] = newCall
        /\ run' \in [CallSlots -> Runs] /\ DOMAIN calls' = CallSlots
        /\ \A d \in CallSlots \ {c} : calls'[d] = calls[d] /\ run'[d] = run[d]
    BY <2>1, <2>2, <1>2
  <2>4. /\ CallShape(newCall) /\ newCall.req = call.req
        /\ newCall.approved = call.approved
        /\ \/ newCall.at = "running" /\ newCall.result = "none"
           \/ /\ newCall.at = "done" /\ newCall.result = "accepted"
              /\ call.req.name \in Spawning /\ call.req.background
    BY <1>6 DEF CallShape
  <2>5. call.req \in Requests
    BY <1>6 DEF CallShape
  <2> HIDE DEF newCall
  <2>6. CallIsJudged(c)'
    BY <1>3, <1>6, <2>2, <2>3, <2>4, <2>5 DEF CallIsJudged, CallShape, Refusals
  <2> QED
    BY <1>1, <2>3, <2>6, OtherCallsStay
<1>7. ASSUME NEW result \in Refusals \cup {"ok", "error", "timed_out"},
             CallIsJudged(c), Done(c, result),
             NEW newRun \in Runs, run' = [run EXCEPT ![c] = newRun],
             \/ run[c] = NoOutcome /\ newRun = NoOutcome
             \/ /\ run[c] # NoOutcome /\ result \notin Refusals
                /\ newRun.at \in {"going", "over"}
                /\ newRun.outside = run[c].outside
      PROVE  CallsInv'
  <2> DEFINE newCall == [calls[c] EXCEPT !.at = "done", !.result = result]
  <2>1. calls' = [calls EXCEPT ![c] = newCall]
    BY <1>7 DEF Done
  <2>2. /\ run'[c] = newRun /\ calls'[c] = newCall
        /\ run' \in [CallSlots -> Runs] /\ DOMAIN calls' = CallSlots
        /\ \A d \in CallSlots \ {c} : calls'[d] = calls[d] /\ run'[d] = run[d]
    BY <1>2, <1>7, <2>1
  <2>3. /\ CallShape(newCall) /\ newCall.req = calls[c].req
        /\ newCall.approved = calls[c].approved
        /\ newCall.at = "done" /\ newCall.result = result
        /\ calls[c].req \in Requests
    BY <1>7 DEF CallShape, CallIsJudged
  <2> HIDE DEF newCall
  <2>4. CASE run[c] = NoOutcome /\ newRun = NoOutcome
    <3>1. CallIsJudged(c)'
      BY <1>7, <2>2, <2>3, <2>4 DEF CallIsJudged, CallShape
    <3> QED
      BY <1>1, <2>2, <3>1, OtherCallsStay
  <2>5. CASE run[c] # NoOutcome
    <3>1. newRun \in [at : {"going", "over"}, outside : BOOLEAN, acted : BOOLEAN]
      BY <1>7, <2>5
    <3>2. /\ Verdict(newCall.req) \in Verdicts /\ result # "accepted"
          /\ newRun.outside => Verdict(newCall.req) = "direct"
                               \/ newCall.approved
      BY <1>7, <2>3, <2>5 DEF CallIsJudged, Refusals
    <3>3. CallIsJudged(c)'
      BY <1>3, <1>7, <2>2, <2>3, <2>5, <3>1, <3>2 DEF CallIsJudged, CallShape
    <3> QED
      BY <1>1, <2>2, <3>3, OtherCallsStay
  <2> QED
    BY <1>7, <2>4, <2>5
<1>10. ASSUME NEW req \in Requests, ExecuteToolCall(c, req) PROVE CallsInv'
  <2> DEFINE call == [at |-> "idle", req |-> req, approved |-> FALSE,
                      result |-> "none"]
  <2>1. Verdict(req) \in Refusals \cup Verdicts
    BY VerdictCases
  <2>2. CASE Verdict(req) \in {"direct", "wasm"}
    <3>1. Launch(c, call, Verdict(req) = "direct")
      BY <1>10, <2>2 DEF ExecuteToolCall, Refusals
    <3>2. /\ CallShape(call) /\ call.req = req
          /\ call.result = "none"
      BY DEF CallShape
    <3> HIDE DEF call
    <3> QED
      BY <1>6, <2>1, <2>2, <3>1, <3>2 DEF Verdicts
  <2>3. CASE Verdict(req) \in Refusals \cup {"ask", "host"}
    <3>1. PICK where \in {"done", "asking", "preparing"},
               result \in Refusals \cup {"none"} :
            /\ calls' = [calls EXCEPT ![c] =
                             [call EXCEPT !.at = where, !.result = result]]
            /\ where = "done" => result \in Refusals
            /\ where = "asking" => Verdict(req) = "ask"
            /\ where = "preparing" => Verdict(req) = "host"
            /\ where # "done" => result = "none"
            /\ UNCHANGED run
      BY <1>10, <2>3 DEF ExecuteToolCall, Refusals
    <3>2. /\ calls'[c] = [at |-> where, req |-> req, approved |-> FALSE,
                          result |-> result]
          /\ run' \in [CallSlots -> Runs] /\ DOMAIN calls' = CallSlots
          /\ \A d \in CallSlots \ {c} : calls'[d] = calls[d] /\ run'[d] = run[d]
      BY <1>2, <3>1
    <3>3. run'[c] = NoOutcome
      BY <1>10, <3>1 DEF ExecuteToolCall, At, CallsInv, CallIsJudged, CallShape
    <3>4. CallIsJudged(c)'
      BY <1>3, <3>1, <3>2, <3>3 DEF CallIsJudged, CallShape
    <3> QED
      BY <1>1, <3>2, <3>4, OtherCallsStay
  <2> QED
    BY <2>1, <2>2, <2>3 DEF Verdicts
<1>11. ASSUME Approved(c) PROVE CallsInv'
  <2> DEFINE call == [calls[c] EXCEPT !.approved = TRUE]
  <2>1. CallIsJudged(c) /\ calls[c].at = "asking"
    BY <1>4, <1>11 DEF Approved, At
  <2>2. /\ CallShape(call) /\ call.result = "none" /\ call.approved
        /\ Verdict(call.req) \in Verdicts
    BY <2>1 DEF CallIsJudged, CallShape, Verdicts
  <2>3. Launch(c, call, TRUE)
    BY <1>11 DEF Approved
  <2> HIDE DEF call
  <2> QED
    BY <1>6, <2>2, <2>3
<1>12. ASSUME NotApproved(c) PROVE CallsInv'
  <2>1. CallIsJudged(c) /\ calls[c].at = "asking"
    BY <1>4, <1>12 DEF NotApproved, At
  <2>2. run[c] = NoOutcome /\ "denied" \in Refusals
    BY <2>1 DEF CallIsJudged, Refusals
  <2> QED
    BY <1>2, <1>7, <1>12, <2>1, <2>2 DEF NotApproved
<1>13. ASSUME PrepareCommand(c) PROVE CallsInv'
  <2>1. CallIsJudged(c) /\ calls[c].at = "preparing"
    BY <1>4, <1>13 DEF PrepareCommand, At
  <2>2. /\ CallShape(calls[c]) /\ calls[c].result = "none"
        /\ Verdict(calls[c].req) \in Verdicts
    BY <2>1 DEF CallIsJudged, Verdicts
  <2> QED
    BY <1>6, <1>13, <2>2 DEF PrepareCommand
<1>14. ASSUME PrepareFails(c) PROVE CallsInv'
  <2>1. CallIsJudged(c) /\ calls[c].at = "preparing"
    BY <1>4, <1>14 DEF PrepareFails, At
  <2>2. run[c] = NoOutcome
    BY <2>1 DEF CallIsJudged
  <2> QED
    BY <1>2, <1>7, <1>14, <2>1, <2>2 DEF PrepareFails
<1>15. run[c] # NoOutcome => CallIsJudged(c)
  BY DEF CallsInv
<1>16. ASSUME NEW newRun \in Runs, run' = [run EXCEPT ![c] = newRun],
              UNCHANGED calls, run[c].at = "going",
              newRun.at \in {"going", "over"}, newRun.outside = run[c].outside
       PROVE  CallsInv'
  <2>1. run[c] # NoOutcome /\ CallIsJudged(c)
    BY <1>15, <1>16 DEF NoOutcome
  <2>2. /\ run'[c] = newRun /\ calls'[c] = calls[c]
        /\ run' \in [CallSlots -> Runs] /\ DOMAIN calls' = CallSlots
        /\ \A d \in CallSlots \ {c} : calls'[d] = calls[d] /\ run'[d] = run[d]
    BY <1>2, <1>16
  <2>3. newRun \in [at : {"going", "over"}, outside : BOOLEAN, acted : BOOLEAN]
    BY <1>16
  <2>4. calls[c].req \in Requests /\ newRun # NoOutcome
    BY <1>16, <2>1 DEF CallIsJudged, CallShape, NoOutcome
  <2>5. CallIsJudged(c)'
    BY <1>3, <1>16, <2>1, <2>2, <2>3, <2>4 DEF CallIsJudged, CallShape
  <2> QED
    BY <1>1, <2>2, <2>5, OtherCallsStay
<1>17. ASSUME RunActs(c) PROVE CallsInv'
  <2> DEFINE newRun == [run[c] EXCEPT !.acted = TRUE]
  <2>1. newRun \in Runs /\ newRun.at = "going" /\ newRun.outside = run[c].outside
    BY <1>2, <1>17 DEF RunActs
  <2>2. run' = [run EXCEPT ![c] = newRun]
    BY <1>17 DEF RunActs
  <2> HIDE DEF newRun
  <2> QED
    BY <1>16, <1>17, <2>1, <2>2 DEF RunActs
<1>18. ASSUME RunEnds(c) PROVE CallsInv'
  <2> DEFINE newRun == [run[c] EXCEPT !.at = "over"]
  <2>1. newRun \in Runs /\ newRun.at = "over" /\ newRun.outside = run[c].outside
    BY <1>2
  <2>2. run' = [run EXCEPT ![c] = newRun]
    BY <1>18 DEF RunEnds
  <2>3. run[c].at = "going" /\ run[c] # NoOutcome /\ CallIsJudged(c)
    BY <1>15, <1>18 DEF RunEnds, NoOutcome
  <2> HIDE DEF newRun
  <2>4. CASE At(c, "running")
    <3>1. PICK result \in {"ok", "error"} : Done(c, result)
      BY <1>18, <2>4 DEF RunEnds
    <3>2. result \notin Refusals
      BY DEF Refusals
    <3> QED
      BY <1>7, <2>1, <2>2, <2>3, <3>1, <3>2
  <2>5. CASE ~At(c, "running")
    BY <1>16, <1>18, <2>1, <2>2, <2>3, <2>5 DEF RunEnds
  <2> QED
    BY <2>4, <2>5
<1>19. ASSUME RunTimesOut(c) PROVE CallsInv'
  <2> DEFINE newRun == [run[c] EXCEPT !.at = IF Outlives(c) THEN "going" ELSE "over"]
  <2>1. /\ newRun \in Runs /\ newRun.at \in {"going", "over"}
        /\ newRun.outside = run[c].outside
    BY <1>2
  <2>2. run' = [run EXCEPT ![c] = newRun]
    BY <1>19 DEF RunTimesOut
  <2>3. CallIsJudged(c) /\ run[c] # NoOutcome
    BY <1>4, <1>19 DEF RunTimesOut, At, CallIsJudged
  <2>4. Done(c, "timed_out") /\ "timed_out" \notin Refusals
    BY <1>19 DEF RunTimesOut, Refusals
  <2> HIDE DEF newRun
  <2> QED
    BY <1>7, <2>1, <2>2, <2>3, <2>4
<1> QED
  BY <1>10, <1>11, <1>12, <1>13, <1>14, <1>17, <1>18, <1>19

\* Nothing a model sets going exceeds the rights of its call: the tool is in
\* the registry of its run, its user may use it, it leaves a configured sandbox
\* only with that user's approval of this very call, and delegated runs start
\* nothing in the background.
THEOREM RunsStayEntitled == ToolsSpec => []RunsAreEntitled
<1>1. ToolsInit => CallsInv
  BY DEF ToolsInit, CallsInv, NoOutcome
<1>2. ASSUME CallsInv, [ToolsNext]_toolVars PROVE CallsInv'
  <2>1. CASE ToolsNext
    BY <1>2, <2>1, CallStep DEF ToolsNext
  <2>2. CASE UNCHANGED toolVars
    BY <1>2, <2>2, VerdictStays DEF toolVars, CallsInv, CallIsJudged, CallShape
  <2> QED
    BY <1>2, <2>1, <2>2
<1> QED
  BY <1>1, <1>2, JudgedIsEntitled, PTL DEF ToolsSpec
-----------------------------------------------------------------------------
(* CronScheduler                                                            *)

Ticking == tick.at # "asleep"
Considered == tick.at \in {"guard", "send", "record"}
Listed(j) == Ticking /\ j \in tick.rest
Chosen(j) == tick.at \in {"guard", "send"} /\ tick.job = j

\* What run_tick goes by: the jobs of its list exist, each is taken once, and
\* no firing is written down as later than the tick that made it.
TickIsSound ==
    /\ \A j \in JobIds : jobs[j] # NoJob => jobs[j].last <= minute
    /\ Ticking =>
           /\ tick.now <= minute
           /\ \A j \in tick.rest : jobs[j] # NoJob
           /\ \A j \in JobIds : jobs[j] # NoJob => jobs[j].last <= tick.now
    /\ Considered => tick.job \notin tick.rest /\ jobs[tick.job] # NoJob
    /\ tick.at = "record" =>
           /\ fired # <<>>
           /\ fired[Len(fired)].job = tick.job
           /\ fired[Len(fired)].now = tick.now

\* A firing that was written down is behind the job's last_fired_at for as long
\* as the job may be looked at again, and a job about to fire is due again
\* since every such firing.
RecordIsKept ==
    \A i \in 1..Len(fired) :
        LET j == fired[i].job IN
        /\ jobs[j] # NoJob
        /\ fired[i].recorded /\ (Enabled(j) \/ Listed(j)) =>
               fired[i].now <= jobs[j].last
        /\ fired[i].recorded /\ Chosen(j) =>
               \E t \in jobs[j].schedule : fired[i].now < t /\ t <= tick.now
        /\ fired[i].stale => ~Enabled(j) /\ ~Listed(j) /\ ~Chosen(j)

CronInv == CronTypeOK /\ TickIsSound /\ RecordIsKept /\ FiresAsOftenAsDue

\* Every step of the scheduler, of the cron tool and of the clock keeps the
\* invariant.
LEMMA CronStep == CronInv /\ [CronNext]_cronVars => CronInv'
<1> SUFFICES ASSUME CronInv, [CronNext]_cronVars PROVE CronInv'
  OBVIOUS
<1> USE CronAssumption DEF Never
<1> DEFINE JobRows == [state : {"enabled", "deleted"}, agent : CronAgents,
                       schedule : Schedules, guard : BOOLEAN,
                       last : 0..MaxMinute]
<1> DEFINE Firings == [job : JobIds, now : 1..MaxMinute, stale : BOOLEAN,
                       recorded : BOOLEAN]
<1>a. \A j \in JobIds : jobs[j] = NoJob \/ (jobs[j] # NoJob /\ jobs[j] \in JobRows)
  BY DEF CronInv, CronTypeOK, Jobs, NoJob
<1>b. /\ fired \in Seq(Firings) /\ Len(fired) \in Nat
      /\ \A i \in 1..Len(fired) : fired[i] \in Firings
  <2>1. fired \in Seq(Firings)
    BY DEF CronInv, CronTypeOK
  <2> HIDE DEF Firings
  <2> QED
    BY <2>1
<1>c. /\ Ticking => tick.now \in 1..MaxMinute /\ tick.rest \subseteq JobIds
      /\ Considered => /\ tick.job \in JobIds /\ Ticking
                       /\ tick = [at |-> tick.at, now |-> tick.now,
                                  rest |-> tick.rest, job |-> tick.job]
  BY DEF CronInv, CronTypeOK, Ticks, Ticking, Considered, NoTick
<1>1. ASSUME StartTick PROVE CronInv'
  <2>1. CronTypeOK'
    BY <1>1 DEF StartTick, ListAllEnabled, CronInv, CronTypeOK, Jobs, Ticks, NoTick, NoJob, JobIds
  <2>2. TickIsSound'
    BY <1>1 DEF StartTick, ListAllEnabled, CronInv, CronTypeOK, TickIsSound, Ticking, Considered,
       Jobs, Ticks, NoTick, NoJob, Enabled, JobIds
  <2>3. RecordIsKept'
    BY <1>1, <2>1, <2>2 DEF StartTick, ListAllEnabled, CronInv, CronTypeOK, TickIsSound, Ticking,
       Considered, RecordIsKept, Listed, Chosen, Jobs, Ticks, NoTick, NoJob,
       Enabled, JobIds
  <2>4. FiresAsOftenAsDue'
    BY <1>1, <2>1, <2>2 DEF StartTick, ListAllEnabled, CronInv, CronTypeOK, TickIsSound, Ticking,
       Considered, RecordIsKept, Listed, Chosen, FiresAsOftenAsDue,
       FiresOncePerTime, DeletedFiresAtMostOnce, Jobs, Ticks, NoTick, NoJob,
       Enabled, JobIds
  <2> QED
    BY <2>1, <2>2, <2>3, <2>4 DEF CronInv
<1>2. ASSUME ListFails PROVE CronInv'
  <2>1. CronTypeOK'
    BY SMTT(30), <1>2 DEF ListFails, Fault, CronInv, CronTypeOK, Jobs, Ticks, NoTick, NoJob, JobIds
  <2>2. TickIsSound'
    BY <1>2 DEF ListFails, Fault, CronInv, CronTypeOK, TickIsSound, Ticking, Considered,
       Jobs, Ticks, NoTick, NoJob, Enabled, JobIds
  <2>3. RecordIsKept'
    BY <1>2, <2>1, <2>2 DEF ListFails, Fault, CronInv, CronTypeOK, TickIsSound, Ticking,
       Considered, RecordIsKept, Listed, Chosen, Jobs, Ticks, NoTick, NoJob,
       Enabled, JobIds
  <2>4. FiresAsOftenAsDue'
    BY <1>2, <2>1, <2>2 DEF ListFails, Fault, CronInv, CronTypeOK, TickIsSound, Ticking,
       Considered, RecordIsKept, Listed, Chosen, FiresAsOftenAsDue,
       FiresOncePerTime, DeletedFiresAtMostOnce, Jobs, Ticks, NoTick, NoJob,
       Enabled, JobIds
  <2> QED
    BY <2>1, <2>2, <2>3, <2>4 DEF CronInv
<1>3. ASSUME EndTick PROVE CronInv'
  <2>1. CronTypeOK'
    BY <1>3 DEF EndTick, CronInv, CronTypeOK, Jobs, Ticks, NoTick, NoJob, JobIds
  <2>2. TickIsSound'
    BY <1>3 DEF EndTick, CronInv, CronTypeOK, TickIsSound, Ticking, Considered,
       Jobs, Ticks, NoTick, NoJob, Enabled, JobIds
  <2>3. RecordIsKept'
    BY <1>3, <2>1, <2>2 DEF EndTick, CronInv, CronTypeOK, TickIsSound, Ticking,
       Considered, RecordIsKept, Listed, Chosen, Jobs, Ticks, NoTick, NoJob,
       Enabled, JobIds
  <2>4. FiresAsOftenAsDue'
    BY <1>3, <2>1, <2>2 DEF EndTick, CronInv, CronTypeOK, TickIsSound, Ticking,
       Considered, RecordIsKept, Listed, Chosen, FiresAsOftenAsDue,
       FiresOncePerTime, DeletedFiresAtMostOnce, Jobs, Ticks, NoTick, NoJob,
       Enabled, JobIds
  <2> QED
    BY <2>1, <2>2, <2>3, <2>4 DEF CronInv
<1>4. ASSUME NEW j \in JobIds, ConsiderJob(j) PROVE CronInv'
  <2>a. /\ tick.at = "loop" /\ j \in tick.rest /\ Ticking /\ jobs[j] \in JobRows
        /\ UNCHANGED <<minute, owed, jobs, fired, cronFaults>>
    BY <1>a, <1>4 DEF ConsiderJob, CronInv, TickIsSound, Ticking
  <2>b. /\ tick'.at \in {"loop", "guard", "send"} /\ tick'.now = tick.now
        /\ tick'.rest = tick.rest \ {j}
        /\ tick'.at # "loop" => tick'.job = j /\ ShouldFire(jobs[j], tick.now)
    BY <1>4, <2>a DEF ConsiderJob, CronInv, CronTypeOK, Ticks, NoTick
  <2>1. CronTypeOK'
    <3>1. CASE ShouldFire(jobs[j], tick.now)
      BY <1>4, <1>c, <2>a, <3>1 DEF ConsiderJob, CronInv, CronTypeOK, Ticks
    <3>2. CASE ~ShouldFire(jobs[j], tick.now)
      <4>1. tick' = [tick EXCEPT !.rest = @ \ {j}]
        BY <1>4, <3>2 DEF ConsiderJob
      <4>2. tick \in [at : {"loop"}, now : 1..MaxMinute, rest : SUBSET JobIds]
        BY <2>a DEF CronInv, CronTypeOK, Ticks, NoTick
      <4>3. tick' \in Ticks
        BY <4>1, <4>2 DEF Ticks
      <4> QED
        BY <2>a, <4>3 DEF CronInv, CronTypeOK, Ticks
    <3> QED
      BY <3>1, <3>2
  <2>2. TickIsSound'
    BY <2>a, <2>b, <1>c DEF CronInv, TickIsSound, Ticking, Considered
  <2>3. RecordIsKept'
    <3> SUFFICES ASSUME NEW i \in 1..Len(fired)
                 PROVE  LET k == fired[i].job IN
                   /\ jobs[k] # NoJob
                   /\ fired[i].recorded /\ (Enabled(k) \/ Listed(k)') =>
                          fired[i].now <= jobs[k].last
                   /\ fired[i].recorded /\ Chosen(k)' =>
                          \E t \in jobs[k].schedule :
                              fired[i].now < t /\ t <= tick'.now
                   /\ fired[i].stale => ~Enabled(k) /\ ~Listed(k)' /\ ~Chosen(k)'
      BY <2>a DEF RecordIsKept, Enabled
    <3> DEFINE k == fired[i].job
    <3>1. /\ jobs[k] # NoJob
          /\ fired[i].recorded /\ (Enabled(k) \/ Listed(k)) =>
                 fired[i].now <= jobs[k].last
          /\ fired[i].stale => ~Enabled(k) /\ ~Listed(k)
      BY DEF CronInv, RecordIsKept
    <3>2. (Listed(k)' => Listed(k)) /\ (Chosen(k)' => k = j /\ Listed(k))
      BY <2>a, <2>b DEF Listed, Chosen, Ticking
    <3>3. ASSUME fired[i].recorded, Chosen(k)'
          PROVE  \E t \in jobs[k].schedule : fired[i].now < t /\ t <= tick'.now
      <4>1. k = j /\ fired[i].now <= jobs[k].last /\ ShouldFire(jobs[j], tick.now)
        BY <2>b, <3>1, <3>2, <3>3 DEF Chosen
      <4>2. fired[i].now \in 1..MaxMinute /\ jobs[k].last \in 0..MaxMinute
        BY <1>b, <2>a, <4>1
      <4>3. PICK t \in jobs[j].schedule : jobs[j].last < t /\ t <= tick.now
        BY <4>1, <4>2 DEF ShouldFire
      <4>4. t \in Nat
        BY <2>a, <4>3
      <4> QED
        BY <2>b, <4>1, <4>2, <4>3, <4>4
    <3> QED
      BY <3>1, <3>2, <3>3
  <2>4. FiresAsOftenAsDue'
    BY <2>a DEF CronInv, FiresAsOftenAsDue, FiresOncePerTime,
       DeletedFiresAtMostOnce
  <2> QED
    BY <2>1, <2>2, <2>3, <2>4 DEF CronInv
<1>5. ASSUME NEW passed \in BOOLEAN, GuardReturns(passed) PROVE CronInv'
  <2>1. CronTypeOK'
    <3>1. /\ tick \in [at : {"guard", "send", "record"}, now : 1..MaxMinute,
                       rest : SUBSET JobIds, job : JobIds]
          /\ UNCHANGED <<minute, owed, jobs, fired, cronFaults>>
      BY <1>5 DEF GuardReturns, CronInv, CronTypeOK, Ticks, NoTick
    <3>2. tick' \in Ticks
      BY <1>5, <3>1 DEF GuardReturns, Continue, Ticks
    <3> QED
      BY <3>1, <3>2 DEF CronInv, CronTypeOK, Ticks
  <2>2. TickIsSound'
    BY <1>5 DEF GuardReturns, Continue, CronInv, CronTypeOK, TickIsSound, Ticking, Considered,
       Jobs, Ticks, NoTick, NoJob, Enabled, JobIds
  <2>3. RecordIsKept'
    BY SMTT(30), <1>5, <2>1, <2>2 DEF GuardReturns, Continue, CronInv,
       CronTypeOK, TickIsSound, Ticking,
       Considered, RecordIsKept, Listed, Chosen, Jobs, Ticks, NoTick, NoJob,
       Enabled, JobIds
  <2>4. FiresAsOftenAsDue'
    BY <1>5, <2>1, <2>2 DEF GuardReturns, Continue, CronInv, CronTypeOK, TickIsSound, Ticking,
       Considered, RecordIsKept, Listed, Chosen, FiresAsOftenAsDue,
       FiresOncePerTime, DeletedFiresAtMostOnce, Jobs, Ticks, NoTick, NoJob,
       Enabled, JobIds
  <2> QED
    BY <2>1, <2>2, <2>3, <2>4 DEF CronInv
<1>6. ASSUME SendJob PROVE CronInv'
  <2> DEFINE new == [job |-> tick.job, now |-> tick.now,
                     stale |-> ~Enabled(tick.job), recorded |-> FALSE]
  <2>a. /\ tick.at = "send" /\ Considered /\ Ticking /\ Chosen(tick.job)
        /\ fired' = Append(fired, new)
        /\ UNCHANGED <<minute, owed, jobs, cronFaults>>
    BY <1>6 DEF SendJob, Considered, Ticking, Chosen
  <2>b. tick' = [at |-> "record", now |-> tick.now, rest |-> tick.rest,
                 job |-> tick.job]
    BY <1>6, <1>c, <2>a DEF SendJob
  <2>c. new \in Firings
    BY <1>c, <2>a DEF Enabled
  <2>d. /\ fired' \in Seq(Firings) /\ Len(fired') = Len(fired) + 1
        /\ \A i \in 1..Len(fired) : fired'[i] = fired[i]
        /\ fired'[Len(fired) + 1] = new
    BY <1>b, <2>a, <2>c
  <2>f. /\ Len(fired) \in Nat /\ 1..Len(fired') = 1..(Len(fired) + 1)
        /\ \A i \in 1..Len(fired') : i \in 1..Len(fired) \/ i = Len(fired) + 1
    BY <1>b, <2>d
  <2>e. /\ new.job = tick.job /\ new.now = tick.now /\ ~new.recorded
        /\ new.stale => ~Enabled(tick.job)
    OBVIOUS
  <2> HIDE DEF new
  <2>1. CronTypeOK'
    <3>1. tick' \in Ticks
      BY <1>c, <2>a, <2>b DEF Ticks
    <3> QED
      BY <2>a, <2>d, <3>1 DEF CronInv, CronTypeOK, Ticks
  <2>2. TickIsSound'
    BY <1>b, <1>c, <2>a, <2>b, <2>d, <2>e DEF CronInv, TickIsSound, Ticking, Considered
  <2>3. RecordIsKept'
    <3>1. \A j : (Listed(j)' <=> Listed(j)) /\ ~Chosen(j)'
      BY <2>a, <2>b DEF Listed, Chosen, Ticking
    <3>2. jobs[tick.job] # NoJob /\ ~Listed(tick.job)
      BY <2>a DEF CronInv, TickIsSound, Listed
    <3>3. ASSUME NEW i \in 1..Len(fired')
          PROVE  LET j == fired'[i].job IN
                 /\ jobs[j] # NoJob
                 /\ fired'[i].recorded /\ (Enabled(j) \/ Listed(j)) =>
                        fired'[i].now <= jobs[j].last
                 /\ fired'[i].stale => ~Enabled(j) /\ ~Listed(j)
      <4>1. CASE i \in 1..Len(fired)
        BY <2>a, <2>d, <3>1, <4>1 DEF CronInv, RecordIsKept, Enabled
      <4>2. CASE i = Len(fired) + 1
        BY <2>a, <2>d, <2>e, <3>1, <3>2, <4>2 DEF Enabled
      <4> QED
        BY <2>f, <4>1, <4>2
    <3> QED
      BY <2>a, <3>1, <3>3 DEF RecordIsKept, Enabled
  <2>4. FiresAsOftenAsDue'
    <3>1. FiresOncePerTime'
      <4> SUFFICES ASSUME NEW k \in 1..Len(fired'), NEW i \in 1..(k - 1),
                          fired'[i].job = fired'[k].job, fired'[i].recorded
                   PROVE  \E t \in jobs[fired'[k].job].schedule :
                              fired'[i].now < t /\ t <= fired'[k].now
        BY <2>a DEF FiresOncePerTime
      <4>1. i \in 1..Len(fired) /\ fired'[i] = fired[i]
        BY <2>d, <2>f
      <4>2. CASE k = Len(fired) + 1
        BY ZenonT(30), <2>a, <2>d, <2>e, <4>1, <4>2 DEF CronInv, RecordIsKept
      <4>3. CASE k \in 1..Len(fired)
        BY <2>d, <4>1, <4>3 DEF CronInv, FiresAsOftenAsDue, FiresOncePerTime
      <4> QED
        BY <2>f, <4>2, <4>3
    <3>2. DeletedFiresAtMostOnce'
      <4>1. \A i \in 1..Len(fired) :
                fired[i].job = tick.job => ~fired[i].stale
        BY <2>a DEF CronInv, RecordIsKept
      <4> QED
        BY <2>d, <2>e, <2>f, <4>1 DEF CronInv, FiresAsOftenAsDue,
           DeletedFiresAtMostOnce
    <3> QED
      BY <3>1, <3>2 DEF FiresAsOftenAsDue
  <2> QED
    BY <2>1, <2>2, <2>3, <2>4 DEF CronInv
<1>7. ASSUME SendJobFails PROVE CronInv'
  <2>1. CronTypeOK'
    BY <1>7 DEF SendJobFails, Fault, Continue, CronInv, CronTypeOK, Jobs,
       Ticks, NoTick, NoJob, JobIds
  <2>2. TickIsSound'
    BY <1>7 DEF SendJobFails, Fault, Continue, CronInv, CronTypeOK,
       TickIsSound, Ticking, Considered,
       Jobs, Ticks, NoTick, NoJob, Enabled, JobIds
  <2>3. RecordIsKept'
    BY <1>7, <2>1, <2>2 DEF SendJobFails, Fault, Continue, CronInv, CronTypeOK,
       TickIsSound, Ticking,
       Considered, RecordIsKept, Listed, Chosen, Jobs, Ticks, NoTick, NoJob,
       Enabled, JobIds
  <2>4. FiresAsOftenAsDue'
    BY <1>7, <2>1, <2>2 DEF SendJobFails, Fault, Continue, CronInv, CronTypeOK,
       TickIsSound, Ticking,
       Considered, RecordIsKept, Listed, Chosen, FiresAsOftenAsDue,
       FiresOncePerTime, DeletedFiresAtMostOnce, Jobs, Ticks, NoTick, NoJob,
       Enabled, JobIds
  <2> QED
    BY <2>1, <2>2, <2>3, <2>4 DEF CronInv
<1>8. ASSUME UpdateLastFired PROVE CronInv'
  <2> DEFINE last == Len(fired)
  <2>a. /\ tick.at = "record" /\ Considered /\ Ticking
        /\ UNCHANGED <<minute, owed, cronFaults>>
        /\ tick' = [at |-> "loop", now |-> tick.now, rest |-> tick.rest]
    BY <1>8 DEF UpdateLastFired, Continue, Considered, Ticking
  <2>b. /\ last \in 1..Len(fired) /\ fired[last] \in Firings
        /\ fired[last].job = tick.job /\ fired[last].now = tick.now
    BY <1>b, <2>a, EmptySeq DEF CronInv, TickIsSound
  <2>c. /\ fired' \in Seq(Firings) /\ Len(fired') = Len(fired)
        /\ \A i \in 1..Len(fired) : i # last => fired'[i] = fired[i]
        /\ fired'[last] = [fired[last] EXCEPT !.recorded = TRUE]
    <3> DEFINE new == [fired[last] EXCEPT !.recorded = TRUE]
    <3>1. new \in Firings /\ fired' = [fired EXCEPT ![last] = new]
      BY <1>8, <2>b DEF UpdateLastFired
    <3> HIDE DEF new
    <3>2. /\ fired' \in Seq(Firings) /\ Len(fired') = Len(fired)
          /\ \A i \in 1..Len(fired) :
                 fired'[i] = IF i = last THEN new ELSE fired[i]
      BY <1>b, <2>b, <3>1, ExceptSeq
    <3> QED
      BY <2>b, <3>2 DEF new
  <2>d. \A i \in 1..Len(fired) :
            /\ fired'[i].job = fired[i].job /\ fired'[i].now = fired[i].now
            /\ fired'[i].stale = fired[i].stale
            /\ i # last => fired'[i].recorded = fired[i].recorded
    BY <1>b, <2>b, <2>c
  <2>e. /\ \A j \in JobIds : j # tick.job => jobs'[j] = jobs[j]
        /\ tick.job \in JobIds /\ jobs[tick.job] # NoJob
        /\ Enabled(tick.job) =>
               jobs'[tick.job] = [jobs[tick.job] EXCEPT !.last = tick.now]
        /\ ~Enabled(tick.job) => jobs'[tick.job] = jobs[tick.job]
        /\ jobs' \in [JobIds -> Jobs]
    <3>1. tick.job \in JobIds /\ jobs[tick.job] # NoJob /\ tick.now \in 1..MaxMinute
      BY <1>c, <2>a DEF CronInv, TickIsSound
    <3>2. [jobs[tick.job] EXCEPT !.last = tick.now] \in Jobs
      BY <1>a, <3>1 DEF Jobs
    <3>3. jobs \in [JobIds -> Jobs]
      BY DEF CronInv, CronTypeOK
    <3> QED
      BY <1>8, <3>1, <3>2, <3>3 DEF UpdateLastFired
  <2>f. \A j \in JobIds :
            /\ jobs'[j] # NoJob <=> jobs[j] # NoJob
            /\ Enabled(j)' <=> Enabled(j)
            /\ jobs[j] # NoJob =>
                   /\ jobs'[j].schedule = jobs[j].schedule
                   /\ jobs'[j].last = IF j = tick.job /\ Enabled(j) THEN tick.now
                                      ELSE jobs[j].last
    BY <1>a, <2>e DEF Enabled, NoJob
  <2>1. CronTypeOK'
    <3>1. tick' \in Ticks
      BY <1>c, <2>a DEF Ticks
    <3> QED
      BY <2>a, <2>c, <2>e, <3>1 DEF CronInv, CronTypeOK, Ticks
  <2>2. TickIsSound'
    <3>1. \A j \in JobIds : jobs[j] # NoJob => jobs[j].last <= tick.now
                                              /\ tick.now <= minute
      BY <2>a DEF CronInv, TickIsSound
    <3>2. tick.now \in 1..MaxMinute /\ minute \in 1..MaxMinute
      BY <1>c, <2>a DEF CronInv, CronTypeOK
    <3>3. \A j \in JobIds : jobs'[j] # NoJob =>
              jobs'[j].last <= tick.now /\ jobs'[j].last <= minute
      BY <1>a, <2>f, <3>1, <3>2
    <3> QED
      BY <1>c, <2>a, <2>f, <3>1, <3>3 DEF CronInv, TickIsSound, Ticking, Considered
  <2>3. RecordIsKept'
    <3>1. \A j : (Listed(j)' <=> Listed(j)) /\ ~Chosen(j)'
      BY <2>a DEF Listed, Chosen, Ticking
    <3>2. ~Listed(tick.job)
      BY <2>a DEF CronInv, TickIsSound, Listed
    <3>3. ASSUME NEW i \in 1..Len(fired)
          PROVE  LET j == fired[i].job IN
                 /\ jobs'[j] # NoJob
                 /\ fired'[i].recorded /\ (Enabled(j) \/ Listed(j)) =>
                        fired[i].now <= jobs'[j].last
                 /\ fired[i].stale => ~Enabled(j) /\ ~Listed(j)
      <4> DEFINE j == fired[i].job
      <4>1. j \in JobIds /\ jobs[j] # NoJob /\ jobs[j] \in JobRows
        BY <1>a, <1>b DEF CronInv, RecordIsKept
      <4>2. fired[i].stale => ~Enabled(j) /\ ~Listed(j)
        BY DEF CronInv, RecordIsKept
      <4>3. ASSUME fired'[i].recorded, Enabled(j) \/ Listed(j)
            PROVE  fired[i].now <= jobs'[j].last
        <5>1. CASE i = last
          BY <1>b, <1>c, <2>a, <2>b, <2>f, <3>2, <4>1, <4>3, <5>1
        <5>2. CASE i # last
          <6>1. fired[i].now <= jobs[j].last
            BY <2>d, <4>3, <5>2 DEF CronInv, RecordIsKept
          <6>2. jobs[j].last <= tick.now /\ tick.now \in 1..MaxMinute
            BY <1>c, <2>a, <4>1 DEF CronInv, TickIsSound
          <6> QED
            BY SMTT(30), <1>b, <2>f, <4>1, <6>1, <6>2
        <5> QED
          BY <5>1, <5>2
      <4> QED
        BY <2>f, <4>1, <4>2, <4>3
    <3>4. \A i \in 1..Len(fired) : fired[i].job \in JobIds
      BY <1>b
    <3> QED
      BY <2>c, <2>d, <2>f, <3>1, <3>3, <3>4 DEF RecordIsKept
  <2>4. FiresAsOftenAsDue'
    <3>1. \A i \in 1..Len(fired) : /\ fired[i].job \in JobIds
                                  /\ jobs[fired[i].job] # NoJob
      BY <1>b DEF CronInv, RecordIsKept
    <3>2. FiresOncePerTime'
      <4> SUFFICES ASSUME NEW k \in 1..Len(fired), NEW i \in 1..(k - 1),
                          fired'[i].job = fired'[k].job, fired'[i].recorded
                   PROVE  \E t \in jobs'[fired'[k].job].schedule :
                              fired'[i].now < t /\ t <= fired'[k].now
        BY <2>c DEF FiresOncePerTime
      <4>1. i \in 1..Len(fired) /\ i # last
        BY <1>b
      <4> QED
        BY <2>d, <2>f, <3>1, <4>1 DEF CronInv, FiresAsOftenAsDue, FiresOncePerTime
    <3>3. DeletedFiresAtMostOnce'
      BY SMTT(30), <2>c, <2>d DEF CronInv, FiresAsOftenAsDue, DeletedFiresAtMostOnce
    <3> QED
      BY <3>2, <3>3 DEF FiresAsOftenAsDue
  <2> QED
    BY <2>1, <2>2, <2>3, <2>4 DEF CronInv
<1>9. ASSUME UpdateFails PROVE CronInv'
  <2>1. CronTypeOK'
    BY <1>9 DEF UpdateFails, Fault, Continue, CronInv, CronTypeOK, Jobs, Ticks,
       NoTick, NoJob, JobIds
  <2>2. TickIsSound'
    BY <1>9 DEF UpdateFails, Fault, Continue, CronInv, CronTypeOK, TickIsSound, Ticking, Considered,
       Jobs, Ticks, NoTick, NoJob, Enabled, JobIds
  <2>3. RecordIsKept'
    BY <1>9, <2>1, <2>2 DEF UpdateFails, Fault, Continue, CronInv, CronTypeOK, TickIsSound, Ticking,
       Considered, RecordIsKept, Listed, Chosen, Jobs, Ticks, NoTick, NoJob,
       Enabled, JobIds
  <2>4. FiresAsOftenAsDue'
    BY <1>9, <2>1, <2>2 DEF UpdateFails, Fault, Continue, CronInv, CronTypeOK, TickIsSound, Ticking,
       Considered, RecordIsKept, Listed, Chosen, FiresAsOftenAsDue,
       FiresOncePerTime, DeletedFiresAtMostOnce, Jobs, Ticks, NoTick, NoJob,
       Enabled, JobIds
  <2> QED
    BY <2>1, <2>2, <2>3, <2>4 DEF CronInv
<1>10. ASSUME MinuteElapses PROVE CronInv'
  <2>1. CronTypeOK'
    BY <1>10 DEF MinuteElapses, CronInv, CronTypeOK, Jobs, Ticks, NoTick, NoJob, JobIds
  <2>2. TickIsSound'
    <3>1. minute \in 1..MaxMinute /\ minute' \in 1..MaxMinute /\ minute <= minute'
      BY <1>10, <2>1 DEF MinuteElapses, CronInv, CronTypeOK
    <3>2. UNCHANGED <<jobs, tick, fired>>
      BY <1>10 DEF MinuteElapses
    <3>3. \A j \in JobIds : jobs[j] # NoJob => jobs[j].last <= minute'
      BY <1>a, <3>1 DEF CronInv, TickIsSound
    <3>4. Ticking => tick.now <= minute'
      BY <1>c, <3>1 DEF CronInv, TickIsSound
    <3> QED
      BY <3>2, <3>3, <3>4 DEF CronInv, TickIsSound, Ticking, Considered
  <2>3. RecordIsKept'
    BY <1>10, <2>1, <2>2 DEF MinuteElapses, CronInv, CronTypeOK, TickIsSound, Ticking,
       Considered, RecordIsKept, Listed, Chosen, Jobs, Ticks, NoTick, NoJob,
       Enabled, JobIds
  <2>4. FiresAsOftenAsDue'
    BY <1>10, <2>1, <2>2 DEF MinuteElapses, CronInv, CronTypeOK, TickIsSound, Ticking,
       Considered, RecordIsKept, Listed, Chosen, FiresAsOftenAsDue,
       FiresOncePerTime, DeletedFiresAtMostOnce, Jobs, Ticks, NoTick, NoJob,
       Enabled, JobIds
  <2> QED
    BY <2>1, <2>2, <2>3, <2>4 DEF CronInv
<1>11. ASSUME CronCrash PROVE CronInv'
  <2>1. CronTypeOK'
    BY <1>11 DEF CronCrash, Fault, CronInv, CronTypeOK, Jobs, Ticks, NoTick, NoJob, JobIds
  <2>2. TickIsSound'
    BY <1>11 DEF CronCrash, Fault, CronInv, CronTypeOK, TickIsSound, Ticking, Considered,
       Jobs, Ticks, NoTick, NoJob, Enabled, JobIds
  <2>3. RecordIsKept'
    BY <1>11, <2>1, <2>2 DEF CronCrash, Fault, CronInv, CronTypeOK, TickIsSound, Ticking,
       Considered, RecordIsKept, Listed, Chosen, Jobs, Ticks, NoTick, NoJob,
       Enabled, JobIds
  <2>4. FiresAsOftenAsDue'
    BY <1>11, <2>1, <2>2 DEF CronCrash, Fault, CronInv, CronTypeOK, TickIsSound, Ticking,
       Considered, RecordIsKept, Listed, Chosen, FiresAsOftenAsDue,
       FiresOncePerTime, DeletedFiresAtMostOnce, Jobs, Ticks, NoTick, NoJob,
       Enabled, JobIds
  <2> QED
    BY <2>1, <2>2, <2>3, <2>4 DEF CronInv
<1>12. ASSUME NEW a \in CronAgents, NEW s \in Schedules, NEW g \in BOOLEAN, CreateJob(a, s, g) PROVE CronInv'
  <2>a. PICK new \in JobIds :
            /\ jobs[new] = NoJob
            /\ jobs' = [jobs EXCEPT ![new] = NewJob(a, s, g)]
    BY <1>12 DEF CreateJob
  <2>b. /\ \A j \in JobIds : j # new => jobs'[j] = jobs[j]
        /\ jobs'[new] = NewJob(a, s, g) /\ jobs' \in [JobIds -> Jobs]
    <3>1. jobs \in [JobIds -> Jobs] /\ NewJob(a, s, g) \in Jobs
      BY DEF CronInv, CronTypeOK, Jobs, NewJob
    <3> QED
      BY <2>a, <3>1
  <2>c. UNCHANGED <<minute, owed, tick, fired, cronFaults>>
    BY <1>12 DEF CreateJob
  <2>d. jobs'[new] # NoJob /\ jobs'[new].last = 0
    BY <2>b DEF NewJob, NoJob
  <2>e. \A j \in JobIds : jobs[j] # NoJob => jobs'[j] = jobs[j]
    BY <2>a, <2>b
  <2>1. CronTypeOK'
    BY <2>b, <2>c DEF CronInv, CronTypeOK, Ticks
  <2>2. TickIsSound'
    <3>1. Ticking => tick.now \in 1..MaxMinute /\ tick.rest \subseteq JobIds
      BY <1>c
    <3>2. minute \in 1..MaxMinute
      BY DEF CronInv, CronTypeOK
    <3> QED
      BY <1>c, <2>b, <2>c, <2>d, <2>e, <3>1, <3>2 DEF CronInv, TickIsSound, Ticking, Considered
  <2>3. RecordIsKept'
    <3>1. \A i \in 1..Len(fired) : /\ fired[i].job \in JobIds
                                  /\ jobs[fired[i].job] # NoJob
      BY <1>b DEF CronInv, RecordIsKept
    <3> QED
      BY <2>b, <2>c, <2>e, <3>1 DEF CronInv, RecordIsKept, Listed, Chosen, Ticking,
         Enabled
  <2>4. FiresAsOftenAsDue'
    <3>1. \A i \in 1..Len(fired) : /\ fired[i].job \in JobIds
                                  /\ jobs[fired[i].job] # NoJob
      BY <1>b DEF CronInv, RecordIsKept
    <3> QED
      BY <2>b, <2>c, <2>e, <3>1 DEF CronInv, FiresAsOftenAsDue,
         FiresOncePerTime, DeletedFiresAtMostOnce
  <2> QED
    BY <2>1, <2>2, <2>3, <2>4 DEF CronInv
<1>13. ASSUME NEW a \in CronAgents, NEW j \in JobIds, DeleteJob(a, j) PROVE CronInv'
  <2>a. /\ j \in JobIds /\ Enabled(j) /\ jobs[j] # NoJob /\ jobs[j] \in JobRows
        /\ jobs' = [jobs EXCEPT ![j].state = "deleted"]
        /\ UNCHANGED <<minute, owed, tick, fired, cronFaults>>
    BY <1>a, <1>13 DEF DeleteJob, JobsOf, Enabled, NoJob
  <2>b. /\ \A i \in JobIds : i # j => jobs'[i] = jobs[i]
        /\ jobs'[j] = [jobs[j] EXCEPT !.state = "deleted"]
        /\ jobs' \in [JobIds -> Jobs]
    <3>1. jobs \in [JobIds -> Jobs] /\ [jobs[j] EXCEPT !.state = "deleted"] \in Jobs
      BY <2>a DEF CronInv, CronTypeOK, Jobs
    <3> QED
      BY <2>a, <3>1
  <2>e. \A i \in JobIds :
            /\ jobs'[i] # NoJob <=> jobs[i] # NoJob
            /\ Enabled(i)' => Enabled(i)
            /\ jobs[i] # NoJob => /\ jobs'[i].schedule = jobs[i].schedule
                                 /\ jobs'[i].last = jobs[i].last
    BY <2>a, <2>b DEF Enabled, NoJob
  <2>1. CronTypeOK'
    BY <2>b, <2>a DEF CronInv, CronTypeOK, Ticks
  <2>2. TickIsSound'
    <3>1. Ticking => tick.now \in 1..MaxMinute /\ tick.rest \subseteq JobIds
      BY <1>c
    <3>2. minute \in 1..MaxMinute
      BY DEF CronInv, CronTypeOK
    <3> QED
      BY <1>c, <2>b, <2>a, <2>e, <3>1, <3>2 DEF CronInv, TickIsSound, Ticking, Considered
  <2>3. RecordIsKept'
    <3>1. \A i \in 1..Len(fired) : /\ fired[i].job \in JobIds
                                  /\ jobs[fired[i].job] # NoJob
      BY <1>b DEF CronInv, RecordIsKept
    <3> QED
      BY <2>b, <2>a, <2>e, <3>1 DEF CronInv, RecordIsKept, Listed, Chosen, Ticking,
         Enabled
  <2>4. FiresAsOftenAsDue'
    <3>1. \A i \in 1..Len(fired) : /\ fired[i].job \in JobIds
                                  /\ jobs[fired[i].job] # NoJob
      BY <1>b DEF CronInv, RecordIsKept
    <3> QED
      BY <2>b, <2>a, <2>e, <3>1 DEF CronInv, FiresAsOftenAsDue,
         FiresOncePerTime, DeletedFiresAtMostOnce
  <2> QED
    BY <2>1, <2>2, <2>3, <2>4 DEF CronInv
<1>14. CASE UNCHANGED cronVars
  BY <1>14 DEF cronVars, CronInv, CronTypeOK, TickIsSound, Ticking, Considered,
     RecordIsKept, Listed, Chosen, FiresAsOftenAsDue, FiresOncePerTime,
     DeletedFiresAtMostOnce, Enabled
<1> QED
  BY <1>1, <1>2, <1>3, <1>4, <1>5, <1>6, <1>7, <1>8, <1>9, <1>10, <1>11, <1>12,
     <1>13, <1>14 DEF CronNext, SchedulerStep

\* A job fires as often as it is due, however late or bunched the ticks, and
\* whatever is deleted, fails or crashes meanwhile: a scheduled time of its own
\* lies between two firings of which the first was written down, and a job
\* deleted during a tick fires at most once more.
THEOREM JobsFireAsOftenAsDue == CronSpec => []FiresAsOftenAsDue
<1>1. CronInit => CronInv
  <2> SUFFICES ASSUME CronInit PROVE CronInv
    OBVIOUS
  <2>1. CronTypeOK
    BY CronAssumption DEF CronInit, CronTypeOK, Jobs, Ticks
  <2>2. \A j \in JobIds : jobs[j] = NoJob
    BY DEF CronInit
  <2>3. TickIsSound
    BY <2>2 DEF CronInit, NoTick, TickIsSound, Ticking, Considered
  <2>4. fired = << >> /\ Len(fired) = 0
    BY DEF CronInit
  <2> QED
    BY <2>1, <2>3, <2>4 DEF CronInv, RecordIsKept, FiresAsOftenAsDue,
       FiresOncePerTime, DeletedFiresAtMostOnce
<1>2. CronInv => FiresAsOftenAsDue
  BY DEF CronInv
<1> QED
  BY <1>1, <1>2, CronStep, PTL DEF CronSpec

-----------------------------------------------------------------------------
(* LogRotation                                                              *)

\* The directory: files are created in order and start out empty.
Disks ==
    [active : 0..MaxFiles, dated : [LogDays -> 0..MaxFiles],
     lines : [FileIds -> SUBSET Lines], modified : [FileIds -> 0..MaxDay],
     created : 0..MaxFiles]
DiskOK(d) ==
    /\ d \in Disks
    /\ d.active <= d.created
    /\ \A day \in LogDays : d.dated[day] <= d.created
    /\ \A f \in FileIds : f > d.created => d.lines[f] = {}

In(d, f) == IF f = NoFile THEN {} ELSE d.lines[f]

\* Where a line of the given day is found, or why it is gone.
Filed(d, n, day) ==
    \/ n \in In(d, d.dated[day])
    \/ n \in In(d, d.active) /\ day = d.modified[d.active]
    \/ Cardinality({e \in Daily(d) : e > day}) >= RetainDaily

\* What is so of the directory at a day, given the day of each line: the lines
\* of the active file are all of one day, and every line is filed.
Tidy(d, days, now) ==
    /\ DiskOK(d)
    /\ \A n \in Lines : \A f \in FileIds : n \in d.lines[f] => days[n] # 0
    /\ \A n \in In(d, d.active) :
           days[n] = d.modified[d.active] /\ d.modified[d.active] \in 1..now
    /\ \A n \in Lines : days[n] # 0 => Filed(d, n, days[n])

\* While one process logs at a time: its open file is the active one, and the
\* lines in there are of the day that process goes by.
LogInv ==
    /\ shared \in BOOLEAN
    /\ shared \/
        /\ today \in LogDays /\ lineDay \in [Lines -> 0..MaxDay]
        /\ Tidy(disk, lineDay, today)
        /\ DOMAIN writer = Writers
        /\ \A v, w \in Writers : Open(v) /\ Open(w) => v = w
        /\ \A w \in Writers : Open(w) =>
               /\ writer[w] = [file |-> disk.active, day |-> writer[w].day]
               /\ disk.active # NoFile /\ writer[w].day \in 1..today
               /\ In(disk, disk.active) # {} =>
                      disk.modified[disk.active] = writer[w].day

\* A non-empty set of days has a latest one.
LEMMA LatestExists ==
    ASSUME NEW S \in SUBSET LogDays, S # {}
    PROVE  \E x \in S : \A y \in S : y <= x
<1> DEFINE T == {MaxDay - y : y \in S}
<1> DEFINE R == OpToRel(<, Nat)
<1>1. T \subseteq Nat /\ T # {}
  <2>1. \A y \in S : MaxDay - y \in Nat
    BY LogAssumption DEF LogDays
  <2> QED
    BY <2>1
<1>2. IsWellFoundedOn(R, Nat)
  BY NatLessThanWellFounded
<1>3. PICK m \in T : \A k \in T : ~(<<k, m>> \in R)
  <2> HIDE DEF R, T
  <2> QED
    BY <1>1, <1>2, WFMin
<1>4. \A k \in T : k < m => <<k, m>> \in R
  BY <1>1 DEF OpToRel
<1>5. \A k \in T : ~(k < m)
  BY <1>3, <1>4
<1>6. PICK x \in S : m = MaxDay - x
  BY <1>3
<1>7. \A y \in S : ~(MaxDay - y < MaxDay - x)
  BY <1>5, <1>6
<1>8. \A y \in S : y \in Nat /\ x \in Nat
  BY DEF LogDays
<1> QED
  BY <1>7, <1>8, LogAssumption

\* Sets of days are finite, and smaller ones have fewer members.
LEMMA DaysCount ==
    ASSUME NEW S \in SUBSET LogDays, NEW T \in SUBSET S
    PROVE  /\ Cardinality(S) \in Nat /\ Cardinality(T) \in Nat
           /\ Cardinality(T) <= Cardinality(S)
<1>1. IsFiniteSet(LogDays)
  BY LogAssumption, FS_Interval DEF LogDays
<1>2. IsFiniteSet(S) /\ IsFiniteSet(T)
  BY <1>1, FS_Subset
<1> QED
  BY <1>2, FS_Subset, FS_CardinalityType

\* open: creates the active file when there is none, and loses nothing.
LEMMA OpenActiveKeeps ==
    ASSUME NEW d, DiskOK(d), d.created < MaxFiles
    PROVE  LET e == OpenActive(d) IN
           /\ DiskOK(e) /\ e.active # NoFile
           /\ e.created <= d.created + 1
           /\ d.active # NoFile => e = d
           /\ In(e, e.active) = In(d, d.active)
           /\ In(d, d.active) # {} => e.active = d.active
           /\ e.modified = d.modified /\ e.lines = d.lines
           /\ \A n, day : Filed(d, n, day) => Filed(e, n, day)
<1> DEFINE e == OpenActive(d)
<1> USE LogAssumption DEF NoFile
<1>1. CASE d.active # NoFile
  BY <1>1 DEF OpenActive, DiskOK, Disks
<1>2. CASE d.active = NoFile
  <2>1. /\ e = [d EXCEPT !.active = d.created + 1, !.created = @ + 1]
        /\ e.active = d.created + 1 /\ e.created = d.created + 1
        /\ e.dated = d.dated /\ e.lines = d.lines /\ e.modified = d.modified
    BY <1>2 DEF OpenActive, DiskOK, Disks
  <2>2. d.created + 1 \in FileIds /\ d.created \in Nat
    BY DEF DiskOK, Disks, FileIds
  <2>3. DiskOK(e)
    <3>1. e \in Disks
      <4>1. d.created + 1 \in 0..MaxFiles /\ d \in Disks
        BY <2>2 DEF DiskOK, FileIds
      <4>2. [d EXCEPT !.active = d.created + 1, !.created = @ + 1] \in Disks
        BY <4>1 DEF Disks
      <4> QED
        BY <2>1, <4>2
    <3>2. \A day \in LogDays : d.dated[day] \in Nat /\ d.dated[day] <= d.created
      BY DEF DiskOK, Disks
    <3>3. \A f \in FileIds : f > d.created + 1 => d.lines[f] = {}
      BY <2>2 DEF DiskOK, FileIds
    <3> HIDE DEF e
    <3> QED
      BY <2>1, <2>2, <3>1, <3>2, <3>3 DEF DiskOK
  <2>4. In(e, e.active) = {} /\ In(d, d.active) = {}
    BY <1>2, <2>1, <2>2 DEF In, DiskOK, FileIds
  <2> HIDE DEF e
  <2>5. Daily(e) = Daily(d)
    BY <2>1 DEF Daily
  <2>6. \A n, day : Filed(d, n, day) => Filed(e, n, day)
    BY <2>1, <2>4, <2>5 DEF Filed, In
  <2>7. /\ e.active # NoFile /\ e.created <= d.created + 1
        /\ In(e, e.active) = In(d, d.active) /\ In(d, d.active) = {}
    BY <2>1, <2>2, <2>4
  <2> QED
    BY <1>2, <2>1, <2>3, <2>6, <2>7 DEF e
<1> QED
  BY <1>1, <1>2

\* rotate_active_log_to_day: the day's file takes over the active file's lines,
\* provided that these are of that day.
LEMMA RotateToKeeps ==
    ASSUME NEW d, DiskOK(d), today \in LogDays, NEW to \in LogDays,
           In(d, d.active) # {} => d.modified[d.active] = to
    PROVE  LET e == RotateTo(d, to) IN
           /\ DiskOK(e) /\ e.active = NoFile /\ e.created = d.created
           /\ \A f \in FileIds : \A n \in e.lines[f] :
                  \E g \in FileIds : n \in d.lines[g]
           /\ \A n : \A day \in LogDays : Filed(d, n, day) => Filed(e, n, day)
<1> DEFINE e == RotateTo(d, to)
<1> DEFINE target == d.dated[to]
<1> USE LogAssumption DEF NoFile
<1>1. CASE d.active = NoFile
  BY <1>1 DEF RotateTo
<1>2. CASE d.active # NoFile /\ target = NoFile
  <2>1. /\ e.active = NoFile /\ e.created = d.created /\ e \in Disks
        /\ e.lines = d.lines /\ e.modified = d.modified
        /\ e.dated = [d.dated EXCEPT ![to] = d.active]
    BY <1>2 DEF RotateTo, DiskOK, Disks
  <2>2. /\ e.dated[to] = d.active
        /\ \A day \in LogDays : day # to => e.dated[day] = d.dated[day]
    BY <2>1 DEF DiskOK, Disks
  <2> HIDE DEF e
  <2>3. DiskOK(e)
    BY <2>1, <2>2 DEF DiskOK, Disks
  <2>4. Daily(d) \subseteq Daily(e) /\ Daily(e) \subseteq LogDays
    BY <1>2, <2>2 DEF Daily
  <2>5. ASSUME NEW n, NEW day \in LogDays, Filed(d, n, day)
        PROVE  Filed(e, n, day)
    <3>1. CASE n \in In(d, d.dated[day])
      BY <1>2, <2>1, <2>2, <3>1 DEF Filed, In
    <3>2. CASE n \in In(d, d.active) /\ day = d.modified[d.active]
      BY <1>2, <2>1, <2>2, <3>2 DEF Filed, In
    <3>3. CASE Cardinality({x \in Daily(d) : x > day}) >= RetainDaily
      BY <2>4, <3>3, DaysCount DEF Filed
    <3> QED
      BY <2>5, <3>1, <3>2, <3>3 DEF Filed
  <2> QED
    BY <2>1, <2>3, <2>5 DEF e
<1>3. CASE d.active # NoFile /\ target # NoFile
  <2>1. target \in FileIds /\ d.active \in FileIds /\ d \in Disks
    BY <1>3 DEF DiskOK, Disks, FileIds
  <2>2. e = [d EXCEPT !.lines[target] = @ \cup d.lines[d.active],
                      !.modified[target] = today, !.active = NoFile]
    BY <1>3 DEF RotateTo
  <2>3. /\ e.active = NoFile /\ e.created = d.created /\ e.dated = d.dated
        /\ e.lines = [d.lines EXCEPT ![target] = @ \cup d.lines[d.active]]
        /\ e.modified = [d.modified EXCEPT ![target] = today]
        /\ DOMAIN e = DOMAIN d
        /\ e = [active |-> e.active, dated |-> e.dated, lines |-> e.lines,
                modified |-> e.modified, created |-> e.created]
    <3> HIDE DEF e, target
    <3> QED
      BY <2>1, <2>2 DEF Disks
  <2> HIDE DEF e
  <2>4. /\ e.lines \in [FileIds -> SUBSET Lines]
        /\ e.modified \in [FileIds -> 0..MaxDay]
        /\ e.lines[target] = d.lines[target] \cup d.lines[d.active]
        /\ \A f \in FileIds : f # target => e.lines[f] = d.lines[f]
    BY <2>1, <2>3 DEF Disks, LogDays
  <2>5. e \in Disks
    BY <2>1, <2>3, <2>4 DEF Disks
  <2>6. DiskOK(e)
    BY SMTT(30), <2>1, <2>3, <2>4, <2>5 DEF DiskOK, Disks, FileIds
  <2>7. Daily(e) = Daily(d)
    BY <2>3 DEF Daily
  <2>8. ASSUME NEW n, NEW day \in LogDays, Filed(d, n, day)
        PROVE  Filed(e, n, day)
    <3>1. CASE n \in In(d, d.dated[day])
      <4>1. d.dated[day] \in 0..MaxFiles
        BY <2>1 DEF Disks
      <4> QED
        BY <2>3, <2>4, <3>1, <4>1 DEF Filed, In, FileIds
    <3>2. CASE n \in In(d, d.active) /\ day = d.modified[d.active]
      BY <1>3, <2>3, <2>4, <3>2 DEF Filed, In
    <3>3. CASE Cardinality({x \in Daily(d) : x > day}) >= RetainDaily
      BY <2>7, <3>3 DEF Filed
    <3> QED
      BY <2>8, <3>1, <3>2, <3>3 DEF Filed
  <2>9. \A f \in FileIds : \A n \in e.lines[f] :
            \E g \in FileIds : n \in d.lines[g]
    BY <2>1, <2>4
  <2> QED
    BY <2>3, <2>6, <2>8, <2>9 DEF e
<1> QED
  BY <1>1, <1>2, <1>3

\* prune_daily_logs: what goes has RetainDaily newer files, and these stay.
LEMMA PruneKeeps ==
    ASSUME NEW d, DiskOK(d)
    PROVE  LET e == Prune(d) IN
           /\ DiskOK(e) /\ e.active = d.active /\ e.created = d.created
           /\ e.lines = d.lines /\ e.modified = d.modified
           /\ \A n : \A day \in LogDays : Filed(d, n, day) => Filed(e, n, day)
<1> DEFINE e == Prune(d)
<1> DEFINE Newer(day) == {x \in Daily(d) : x > day}
<1> USE LogAssumption DEF NoFile
<1>1. /\ e.active = d.active /\ e.created = d.created /\ e \in Disks
      /\ e.lines = d.lines /\ e.modified = d.modified
      /\ \A day \in LogDays : e.dated[day] =
             IF Cardinality(Newer(day)) >= RetainDaily THEN NoFile
             ELSE d.dated[day]
  <2> DEFINE dated == [day \in LogDays |->
                 IF Cardinality({x \in Daily(d) : x > day}) >= RetainDaily
                 THEN NoFile ELSE d.dated[day]]
  <2>1. e = [d EXCEPT !.dated = dated]
    BY DEF Prune
  <2>2. dated \in [LogDays -> 0..MaxFiles]
    BY DEF DiskOK, Disks
  <2>3. \A day \in LogDays : dated[day] =
             IF Cardinality(Newer(day)) >= RetainDaily THEN NoFile
             ELSE d.dated[day]
    OBVIOUS
  <2> HIDE DEF dated, e, Newer
  <2> QED
    BY <2>1, <2>2, <2>3 DEF DiskOK, Disks
<1> HIDE DEF e
<1>2. DiskOK(e)
  <2>1. d.created \in Nat
    BY DEF DiskOK, Disks
  <2>2. ASSUME NEW day \in LogDays PROVE e.dated[day] <= d.created
    <3>1. e.dated[day] = 0 \/ e.dated[day] = d.dated[day]
      BY <1>1
    <3>2. d.dated[day] <= d.created /\ 0 <= d.created
      BY <2>1 DEF DiskOK
    <3> QED
      BY <3>1, <3>2
  <2> QED
    BY <1>1, <2>2 DEF DiskOK
<1>3. Daily(d) \subseteq LogDays /\ Daily(e) \subseteq LogDays
  BY DEF Daily
<1>4. Daily(e) = {x \in Daily(d) : ~(Cardinality(Newer(x)) >= RetainDaily)}
  BY <1>1 DEF Daily
<1>5. ASSUME NEW day \in LogDays, Cardinality(Newer(day)) >= RetainDaily
      PROVE  Cardinality({x \in Daily(e) : x > day}) >= RetainDaily
  <2> DEFINE Kept == {x \in Daily(e) : x > day}
  <2> DEFINE Gone == Newer(day) \ Kept
  <2>1. Newer(day) \subseteq LogDays /\ Kept \subseteq Newer(day)
    BY <1>3, <1>4
  <2>2. CASE Gone = {}
    BY <1>5, <2>1, <2>2
  <2>3. CASE Gone # {}
    <3>1. PICK last \in Gone : \A y \in Gone : y <= last
      BY <2>1, <2>3, LatestExists
    <3>2. last \in Daily(d) /\ last > day /\ Cardinality(Newer(last)) >= RetainDaily
      BY <1>4, <3>1
    <3>3. Newer(last) \subseteq Kept
      <4> SUFFICES ASSUME NEW x \in Daily(d), x > last PROVE x \in Kept
        OBVIOUS
      <4>1. x \in Nat /\ last \in Nat /\ day \in Nat
        BY <1>3, <3>2 DEF LogDays
      <4>2. x > day /\ ~(x <= last)
        BY <3>2, <4>1
      <4> QED
        BY <3>1, <4>2
    <3>4. Kept \in SUBSET LogDays
      BY <2>1
    <3> HIDE DEF Kept, Newer
    <3>5. /\ Cardinality(Newer(last)) \in Nat /\ Cardinality(Kept) \in Nat
          /\ Cardinality(Newer(last)) <= Cardinality(Kept)
      BY <3>3, <3>4, DaysCount
    <3>6. Cardinality(Kept) >= RetainDaily
      BY <3>2, <3>5
    <3> QED
      BY <3>6 DEF Kept
  <2> QED
    BY <2>2, <2>3
<1>6. ASSUME NEW n, NEW day \in LogDays, Filed(d, n, day)
      PROVE  Filed(e, n, day)
  <2>1. CASE Cardinality(Newer(day)) >= RetainDaily
    BY <1>5, <2>1 DEF Filed
  <2>2. CASE ~(Cardinality(Newer(day)) >= RetainDaily)
    BY <1>1, <1>6, <2>2 DEF Filed, In
  <2> QED
    BY <2>1, <2>2
<1> QED
  BY <1>1, <1>2, <1>6 DEF e

\* The property is part of the invariant.
LEMMA TidyIsFiled == LogInv => EveryLineIsFiled
BY DEF LogInv, Tidy, EveryLineIsFiled, Filed, In, LinesIn

\* A new writer first files what an earlier day left in the active file.
LEMMA NewWriterStep ==
    ASSUME LogInv, NEW w \in Writers, NewWriter(w)
    PROVE  LogInv'
<1> USE LogAssumption
<1>1. shared' \in BOOLEAN /\ (shared => shared') /\
      (shared' \/ \A v \in Writers : ~Open(v))
  BY DEF NewWriter, LogInv
<1> SUFFICES ASSUME ~shared' PROVE LogInv'
  BY <1>1 DEF LogInv
<1>2. ~shared /\ \A v \in Writers : ~Open(v)
  BY <1>1
<1> DEFINE d1 == OpenActive(disk)
<1> DEFINE d2 == RotateStale(d1)
<1> DEFINE d3 == Prune(d2)
<1> DEFINE d4 == OpenActive(d3)
<1>3. /\ DiskOK(disk) /\ today \in LogDays /\ disk.created + 2 <= MaxFiles
      /\ disk.created \in Nat /\ lineDay \in [Lines -> 0..MaxDay]
      /\ disk' = d4 /\ UNCHANGED <<today, lineDay>>
      /\ writer' = [writer EXCEPT ![w] = [file |-> disk'.active, day |-> today]]
  BY <1>2 DEF LogInv, NewWriter, Tidy, DiskOK, Disks
<1>4. Tidy(disk, lineDay, today)
  BY <1>2 DEF LogInv
<1>5. /\ Tidy(d1, lineDay, today) /\ d1.active \in FileIds
      /\ d1.created + 1 <= MaxFiles /\ d1.created \in Nat
  <2>1. disk.created < MaxFiles
    BY <1>3
  <2> HIDE DEF d1
  <2>2. /\ DiskOK(d1) /\ d1.active # NoFile
        /\ d1.created <= disk.created + 1
        /\ In(d1, d1.active) = In(disk, disk.active)
        /\ In(disk, disk.active) # {} => d1.active = disk.active
        /\ d1.modified = disk.modified /\ d1.lines = disk.lines
        /\ \A n, day : Filed(disk, n, day) => Filed(d1, n, day)
    BY <1>3, <2>1, OpenActiveKeeps DEF d1
  <2>3. d1.created \in Nat /\ d1.active \in FileIds
    BY <2>2 DEF DiskOK, Disks, NoFile, FileIds
  <2>4. \A n \in In(d1, d1.active) :
            lineDay[n] = d1.modified[d1.active] /\ d1.modified[d1.active] \in 1..today
    BY <1>4, <2>2 DEF Tidy
  <2> QED
    BY <1>3, <1>4, <2>2, <2>3, <2>4 DEF Tidy
<1>6. /\ Tidy(d2, lineDay, today) /\ d2.created = d1.created
      /\ In(d2, d2.active) # {} => d2.modified[d2.active] = today
  <2> HIDE DEF d1
  <2>1. CASE d1.lines[d1.active] # {} /\ d1.modified[d1.active] < today
    <3> DEFINE to == d1.modified[d1.active]
    <3>1. d2 = RotateTo(d1, to)
      BY <2>1 DEF RotateStale
    <3>2. to \in LogDays
      <4>1. In(d1, d1.active) = d1.lines[d1.active]
        BY <1>5 DEF In, NoFile, FileIds
      <4>2. to \in 1..today
        BY <1>5, <2>1, <4>1 DEF Tidy
      <4> QED
        BY <1>3, <4>2 DEF LogDays
    <3> HIDE DEF d2
    <3>3. /\ DiskOK(d2) /\ d2.active = NoFile /\ d2.created = d1.created
          /\ \A f \in FileIds : \A n \in d2.lines[f] :
                 \E g \in FileIds : n \in d1.lines[g]
          /\ \A n : \A day \in LogDays : Filed(d1, n, day) => Filed(d2, n, day)
      BY <1>3, <1>5, <3>1, <3>2, RotateToKeeps DEF Tidy
    <3>4. In(d2, d2.active) = {}
      BY <3>3 DEF In
    <3>5. \A n \in Lines : lineDay[n] # 0 => lineDay[n] \in LogDays
      BY <1>3 DEF LogDays
    <3> QED
      BY <1>5, <3>3, <3>4, <3>5 DEF Tidy
  <2>2. CASE ~(d1.lines[d1.active] # {} /\ d1.modified[d1.active] < today)
    <3>1. d2 = d1
      BY <2>2 DEF RotateStale
    <3> HIDE DEF d2
    <3>2. In(d1, d1.active) # {} => d1.modified[d1.active] = today
      <4>1. In(d1, d1.active) = d1.lines[d1.active]
        BY <1>5 DEF In, NoFile, FileIds
      <4>2. In(d1, d1.active) # {} => d1.modified[d1.active] \in 1..today
        BY <1>5 DEF Tidy
      <4>3. today \in Nat
        BY <1>3 DEF LogDays
      <4> QED
        BY <2>2, <4>1, <4>2, <4>3
    <3> QED
      BY <1>5, <3>1, <3>2
  <2> QED
    BY <2>1, <2>2
<1> HIDE DEF d2
<1>7. /\ Tidy(d3, lineDay, today) /\ d3.created = d1.created
      /\ In(d3, d3.active) # {} => d3.modified[d3.active] = today
  <2> HIDE DEF d3
  <2>1. /\ DiskOK(d3) /\ d3.active = d2.active /\ d3.created = d2.created
        /\ d3.lines = d2.lines /\ d3.modified = d2.modified
        /\ \A n : \A day \in LogDays : Filed(d2, n, day) => Filed(d3, n, day)
    BY <1>6, PruneKeeps DEF Tidy, d3
  <2>2. In(d3, d3.active) = In(d2, d2.active)
    BY <2>1 DEF In
  <2>3. \A n \in Lines : lineDay[n] # 0 => lineDay[n] \in LogDays
    BY <1>3 DEF LogDays
  <2> QED
    BY <1>6, <2>1, <2>2, <2>3 DEF Tidy
<1> HIDE DEF d1, d3
<1>8. /\ Tidy(d4, lineDay, today) /\ d4.active # NoFile
      /\ In(d4, d4.active) # {} => d4.modified[d4.active] = today
  <2>1. d3.created < MaxFiles
    BY <1>5, <1>7
  <2> HIDE DEF d4
  <2>2. /\ DiskOK(d4) /\ d4.active # NoFile
        /\ In(d4, d4.active) = In(d3, d3.active)
        /\ In(d3, d3.active) # {} => d4.active = d3.active
        /\ d4.modified = d3.modified /\ d4.lines = d3.lines
        /\ \A n, day : Filed(d3, n, day) => Filed(d4, n, day)
    BY <1>7, <2>1, OpenActiveKeeps DEF d4, Tidy
  <2> QED
    BY <1>7, <2>2 DEF Tidy
<1> HIDE DEF d4
<1>9. Tidy(disk', lineDay', today') /\ today' \in LogDays
      /\ lineDay' \in [Lines -> 0..MaxDay]
  BY <1>3, <1>8
<1>10. /\ DOMAIN writer' = Writers
       /\ writer'[w] = [file |-> disk'.active, day |-> today]
       /\ \A v \in Writers : v # w => ~Open(v)'
  BY <1>2, <1>3 DEF LogInv, Open
<1>11. /\ \A v, u \in Writers : Open(v)' /\ Open(u)' => v = u
       /\ \A v \in Writers : Open(v)' =>
               /\ writer'[v] = [file |-> disk'.active, day |-> writer'[v].day]
               /\ disk'.active # NoFile /\ writer'[v].day \in 1..today
               /\ In(disk', disk'.active) # {} =>
                      disk'.modified[disk'.active] = writer'[v].day
  BY <1>3, <1>8, <1>10 DEF LogDays
<1> QED
  BY ZenonT(30), <1>1, <1>3, <1>9, <1>10, <1>11 DEF LogInv, Tidy, DiskOK, Filed, In,
     Daily, NoFile

\* A line goes to the active file, where all others are of the same day.
LEMMA WriteKeeps ==
    ASSUME NEW d, Tidy(d, lineDay, today), today \in LogDays,
           lineDay \in [Lines -> 0..MaxDay], d.active # NoFile,
           In(d, d.active) # {} => d.modified[d.active] = today,
           NEW n \in Lines, lineDay[n] = 0
    PROVE  LET e == [d EXCEPT !.lines[d.active] = @ \cup {n},
                              !.modified[d.active] = today]
           IN /\ Tidy(e, [lineDay EXCEPT ![n] = today], today)
              /\ e.active = d.active /\ e.modified[e.active] = today
<1> DEFINE act == d.active
<1> DEFINE e == [d EXCEPT !.lines[d.active] = @ \cup {n},
                          !.modified[d.active] = today]
<1> DEFINE days == [lineDay EXCEPT ![n] = today]
<1> USE LogAssumption DEF NoFile
<1>1. d \in Disks /\ act \in FileIds
  BY DEF Tidy, DiskOK, Disks, FileIds
<1>2. /\ e.active = d.active /\ e.created = d.created /\ e.dated = d.dated
      /\ e.lines = [d.lines EXCEPT ![act] = @ \cup {n}]
      /\ e.modified = [d.modified EXCEPT ![act] = today]
      /\ e = [active |-> e.active, dated |-> e.dated, lines |-> e.lines,
              modified |-> e.modified, created |-> e.created]
  <2>1. e = [d EXCEPT !.lines[act] = @ \cup {n}, !.modified[act] = today]
    OBVIOUS
  <2> HIDE DEF e, act
  <2> QED
    BY <1>1, <2>1 DEF Disks
<1> HIDE DEF e
<1>3. /\ e.lines \in [FileIds -> SUBSET Lines]
      /\ e.modified \in [FileIds -> 0..MaxDay]
      /\ e.lines[act] = d.lines[act] \cup {n} /\ e.modified[act] = today
      /\ \A f \in FileIds : f # act => e.lines[f] = d.lines[f]
  BY <1>1, <1>2 DEF Disks, LogDays
<1>4. e \in Disks
  BY <1>1, <1>2, <1>3 DEF Disks
<1>5. DiskOK(e)
  BY <1>1, <1>2, <1>3, <1>4 DEF Tidy, DiskOK, Disks, FileIds
<1>6. /\ days[n] = today /\ today # 0
      /\ \A m \in Lines : m # n => days[m] = lineDay[m]
  BY DEF LogDays
<1> HIDE DEF days
<1>7. \A m \in Lines : \A f \in FileIds : m \in e.lines[f] => days[m] # 0
  BY <1>3, <1>6 DEF Tidy
<1>8. In(e, e.active) = In(d, d.active) \cup {n} /\ In(d, d.active) \subseteq Lines
  BY <1>1, <1>2, <1>3 DEF In, Disks
<1>9. \A m \in In(e, e.active) :
          days[m] = e.modified[e.active] /\ e.modified[e.active] \in 1..today
  BY <1>2, <1>3, <1>6, <1>8 DEF Tidy, LogDays
<1>10. Daily(e) = Daily(d)
  BY <1>2 DEF Daily
<1>11. ASSUME NEW m \in Lines, days[m] # 0 PROVE Filed(e, m, days[m])
  <2>1. CASE m = n
    BY <1>2, <1>3, <1>6, <1>8, <2>1 DEF Filed
  <2>2. CASE m # n
    <3>1. lineDay[m] = days[m] /\ Filed(d, m, lineDay[m])
      BY <1>6, <1>11, <2>2 DEF Tidy
    <3>2. CASE m \in In(d, d.dated[days[m]])
      <4>1. days[m] \in LogDays
        BY <1>11, <3>1 DEF LogDays
      <4>2. d.dated[days[m]] \in 0..MaxFiles
        BY <1>1, <4>1 DEF Disks
      <4> QED
        BY <1>2, <1>3, <3>2, <4>2 DEF Filed, In, FileIds
    <3>3. CASE m \in In(d, d.active) /\ days[m] = d.modified[d.active]
      BY <1>2, <1>3, <1>8, <3>3 DEF Filed
    <3>4. CASE Cardinality({x \in Daily(d) : x > days[m]}) >= RetainDaily
      BY <1>10, <3>4 DEF Filed
    <3> QED
      BY <3>1, <3>2, <3>3, <3>4 DEF Filed
  <2> QED
    BY <2>1, <2>2
<1> QED
  BY <1>2, <1>3, <1>5, <1>7, <1>9, <1>11 DEF Tidy, e, days

\* The first line of a new day files the lines of the last one first.
LEMMA WriteLineStep ==
    ASSUME LogInv, NEW w \in Writers, NEW n \in Lines, WriteLine(w, n)
    PROVE  LogInv'
<1> USE LogAssumption
<1> SUFFICES ASSUME ~shared PROVE LogInv'
  BY DEF LogInv, WriteLine
<1>1. /\ Tidy(disk, lineDay, today) /\ today \in LogDays
      /\ lineDay \in [Lines -> 0..MaxDay] /\ lineDay[n] = 0
      /\ disk.active # NoFile /\ writer[w].day \in 1..today
      /\ writer[w].file = disk.active
      /\ In(disk, disk.active) # {} => disk.modified[disk.active] = writer[w].day
      /\ \A v \in Writers : v # w => ~Open(v)
      /\ DOMAIN writer = Writers /\ disk.created < MaxFiles
  <2>1. Open(w) /\ lineDay[n] = 0 /\ disk.created < MaxFiles
    BY DEF WriteLine
  <2>2. \A v \in Writers : v # w => ~Open(v)
    BY <2>1 DEF LogInv
  <2>3. writer[w] = [file |-> disk.active, day |-> writer[w].day]
    BY <2>1 DEF LogInv
  <2>4. writer[w].file = disk.active
    BY <2>3
  <2> QED
    BY <2>1, <2>2, <2>4 DEF LogInv
<1> DEFINE d == RotateIfNeeded(w, disk)
<1> DEFINE e == [d EXCEPT !.lines[d.active] = @ \cup {n},
                          !.modified[d.active] = today]
<1>2. /\ Tidy(d, lineDay, today) /\ d.active # NoFile
      /\ In(d, d.active) # {} => d.modified[d.active] = today
      /\ writer[w].day = today => d.active = writer[w].file
  <2>1. CASE writer[w].day = today
    BY <1>1, <2>1 DEF RotateIfNeeded
  <2>2. CASE writer[w].day # today
    <3> DEFINE d1 == RotateTo(disk, writer[w].day)
    <3> DEFINE d2 == Prune(d1)
    <3>1. d = OpenActive(d2)
      BY <2>2 DEF RotateIfNeeded
    <3>2. writer[w].day \in LogDays /\ DiskOK(disk)
      BY <1>1 DEF LogDays, Tidy
    <3>3. /\ DiskOK(d1) /\ d1.active = NoFile /\ d1.created = disk.created
          /\ \A f \in FileIds : \A m \in d1.lines[f] :
                 \E g \in FileIds : m \in disk.lines[g]
          /\ \A m : \A day \in LogDays : Filed(disk, m, day) => Filed(d1, m, day)
      <4> HIDE DEF d1
      <4> QED
        BY <1>1, <3>2, RotateToKeeps DEF d1
    <3> HIDE DEF d1
    <3>4. /\ DiskOK(d2) /\ d2.active = NoFile /\ d2.created = disk.created
          /\ d2.lines = d1.lines
          /\ \A m : \A day \in LogDays : Filed(d1, m, day) => Filed(d2, m, day)
      <4> HIDE DEF d2
      <4> QED
        BY <3>3, PruneKeeps DEF d2
    <3> HIDE DEF d2, d
    <3>5. /\ DiskOK(d) /\ d.active # NoFile
          /\ In(d, d.active) = In(d2, d2.active) /\ d.lines = d2.lines
          /\ \A m, day : Filed(d2, m, day) => Filed(d, m, day)
      BY <1>1, <3>1, <3>4, OpenActiveKeeps
    <3>6. In(d, d.active) = {}
      BY <3>4, <3>5 DEF In
    <3>7. \A m \in Lines : lineDay[m] # 0 => lineDay[m] \in LogDays
      BY <1>1 DEF LogDays
    <3> QED
      BY <1>1, <2>2, <3>3, <3>4, <3>5, <3>6, <3>7 DEF Tidy
  <2> QED
    BY <2>1, <2>2
<1>3. /\ disk' = e /\ UNCHANGED <<today, shared>>
      /\ writer' = [writer EXCEPT ![w] = [file |-> d.active, day |-> today]]
      /\ lineDay' = [lineDay EXCEPT ![n] = today]
  <2> HIDE DEF d
  <2> QED
    BY <1>2 DEF WriteLine, d
<1> HIDE DEF d
<1>4. /\ Tidy(e, [lineDay EXCEPT ![n] = today], today)
      /\ e.active = d.active /\ e.modified[e.active] = today
  BY <1>1, <1>2, WriteKeeps
<1> HIDE DEF e
<1>5. /\ Tidy(disk', lineDay', today') /\ today' \in LogDays
      /\ lineDay' \in [Lines -> 0..MaxDay]
  BY <1>1, <1>3, <1>4 DEF LogDays
<1>6. /\ DOMAIN writer' = Writers
      /\ writer'[w] = [file |-> disk'.active, day |-> today']
      /\ \A v \in Writers : v # w => ~Open(v)'
  BY <1>1, <1>3, <1>4 DEF Open
<1>7. /\ \A v, u \in Writers : Open(v)' /\ Open(u)' => v = u
      /\ \A v \in Writers : Open(v)' =>
              /\ writer'[v] = [file |-> disk'.active, day |-> writer'[v].day]
              /\ disk'.active # NoFile /\ writer'[v].day \in 1..today'
              /\ In(disk', disk'.active) # {} =>
                     disk'.modified[disk'.active] = writer'[v].day
  BY <1>1, <1>2, <1>3, <1>4, <1>6 DEF LogDays
<1> QED
  BY <1>3, <1>5, <1>6, <1>7 DEF LogInv, Tidy, DiskOK, Filed, In, Daily, NoFile

\* A process that ends, even half-way through a rotation, loses no line.
LEMMA WriterExitsStep ==
    ASSUME LogInv, NEW w \in Writers, NEW rotating \in BOOLEAN,
           WriterExits(w, rotating)
    PROVE  LogInv'
<1> USE LogAssumption
<1> SUFFICES ASSUME ~shared PROVE LogInv'
  BY DEF LogInv, WriterExits
<1>1. /\ Tidy(disk, lineDay, today) /\ today \in LogDays
      /\ lineDay \in [Lines -> 0..MaxDay] /\ writer[w].day \in LogDays
      /\ In(disk, disk.active) # {} => disk.modified[disk.active] = writer[w].day
      /\ \A v \in Writers : v # w => ~Open(v)
      /\ DOMAIN writer = Writers
      /\ UNCHANGED <<today, lineDay, shared>>
      /\ writer' = [writer EXCEPT ![w] = Closed]
  <2>1. Open(w) /\ UNCHANGED <<today, lineDay, shared>>
        /\ writer' = [writer EXCEPT ![w] = Closed]
    BY DEF WriterExits
  <2>2. \A v \in Writers : v # w => ~Open(v)
    BY <2>1 DEF LogInv
  <2>3. writer[w].day \in 1..today /\ today \in LogDays
    BY <2>1 DEF LogInv
  <2>4. writer[w].day \in LogDays
    BY <2>3 DEF LogDays
  <2> QED
    BY <2>1, <2>2, <2>4 DEF LogInv
<1>2. Tidy(disk', lineDay', today')
  <2>1. CASE disk' = disk
    BY <1>1, <2>1
  <2>2. CASE disk' = RotateTo(disk, writer[w].day)
    <3>1. /\ DiskOK(disk') /\ disk'.active = NoFile
          /\ \A f \in FileIds : \A m \in disk'.lines[f] :
                 \E g \in FileIds : m \in disk.lines[g]
          /\ \A m : \A day \in LogDays :
                 Filed(disk, m, day) => Filed(disk', m, day)
      BY <1>1, <2>2, RotateToKeeps DEF Tidy
    <3>2. In(disk', disk'.active) = {}
      BY <3>1 DEF In
    <3>3. \A m \in Lines : lineDay[m] # 0 => lineDay[m] \in LogDays
      BY <1>1 DEF LogDays
    <3> QED
      BY <1>1, <3>1, <3>2, <3>3 DEF Tidy
  <2> QED
    BY <2>1, <2>2 DEF WriterExits
<1>3. DOMAIN writer' = Writers /\ \A v \in Writers : ~Open(v)'
  BY <1>1 DEF Open
<1> QED
  BY <1>1, <1>2, <1>3 DEF LogInv, Tidy, DiskOK, Filed, In, Daily, NoFile

\* Every line of the log is in the dated file of its day, in the active file
\* until that is rotated, or older than RetainDaily dated files: across
\* restarts, days without a line and deaths in the middle of a rotation, as
\* long as one process logs at a time.
THEOREM LinesStayFiled == LogSpec => []EveryLineIsFiled
<1> USE LogAssumption
<1>1. LogInit => LogInv
  <2> SUFFICES ASSUME LogInit PROVE LogInv
    OBVIOUS
  <2>1. DiskOK(disk) /\ disk.active = NoFile /\ \A f \in FileIds : disk.lines[f] = {}
    BY DEF LogInit, DiskOK, Disks, FileIds, NoFile
  <2>2. \A n \in Lines : lineDay[n] = 0
    BY DEF LogInit
  <2>3. Tidy(disk, lineDay, today)
    BY <2>1, <2>2 DEF Tidy, In
  <2>4. \A w \in Writers : ~Open(w)
    BY DEF LogInit, Open
  <2>5. /\ today \in LogDays /\ DOMAIN writer = Writers
        /\ lineDay \in [Lines -> 0..MaxDay] /\ shared = FALSE
    BY DEF LogInit, LogDays
  <2> QED
    BY <2>3, <2>4, <2>5 DEF LogInv
<1>2. ASSUME LogInv, [LogNext]_logVars PROVE LogInv'
  <2>1. CASE Midnight
    <3>1. /\ UNCHANGED <<disk, writer, lineDay, shared>>
          /\ today' = today + 1 /\ today < MaxDay
      BY <2>1 DEF Midnight
    <3> SUFFICES ASSUME ~shared PROVE LogInv'
      BY <1>2, <3>1 DEF LogInv
    <3>2. today \in LogDays /\ today' \in LogDays /\ 1..today \subseteq 1..today'
      BY <1>2, <3>1 DEF LogInv, LogDays
    <3>3. Tidy(disk, lineDay, today) => Tidy(disk, lineDay, today')
      BY <3>2 DEF Tidy
    <3> QED
      BY <1>2, <3>1, <3>2, <3>3 DEF LogInv, Tidy, DiskOK, Filed, In, Daily,
         NoFile, Open
  <2>2. CASE UNCHANGED logVars
    BY <1>2, <2>2 DEF logVars, LogInv, Tidy, DiskOK, Filed, In, Daily, Open
  <2> QED
    BY <1>2, <2>1, <2>2, NewWriterStep, WriteLineStep, WriterExitsStep
       DEF LogNext
<1> QED
  BY <1>1, <1>2, TidyIsFiled, PTL DEF LogSpec

-----------------------------------------------------------------------------
(* TokenStore: no update of the token file is lost, and a stored refresh    *)
(* token is always one the server accepts, or is about to be replaced by it *)

Holding == {"get", "put", "login", "logout"}
InHand == {"refresh", "want_put", "put"}    \* a turn has a stored token
Pending == {"want_put", "put"}              \* and has exchanged it
LoggingIn == {"want_login", "login"}

(* The lock is held by exactly the caller that is between load and save.   *)
Exclusive == \A c \in Callers : at[c] \in Holding <=> lock = c

(* Turns refresh; the commands log in and out.                             *)
Roles ==
    /\ \A t \in Turns : at[t] \in {"idle", "want_get", "get"} \cup InHand
    /\ at[Cli] \in {"idle", "want_logout", "logout"} \cup LoggingIn

Issued(token) ==
    /\ token.grant \in Grants
    /\ token.gen \in 1..valid[token.grant]

(* Every token in the file or in hand is one that the server has issued.   *)
AllIssued ==
    /\ \A p \in Stored(file) : Issued(file.tokens[p])
    /\ \A t \in Turns : at[t] \in InHand =>
           held[t].profile \in Profiles /\ Issued(held[t].token)

(* The grant of a login is nobody else's until it is written.              *)
LoginIsFresh ==
    at[Cli] \in LoggingIn =>
        /\ held[Cli].profile \in Profiles
        /\ held[Cli].token.grant \in Grants
        /\ held[Cli].token.gen = 1 /\ valid[held[Cli].token.grant] = 1
        /\ \A p \in Stored(file) : file.tokens[p].grant # held[Cli].token.grant
        /\ \A t \in Turns : at[t] \in InHand =>
               held[t].token.grant # held[Cli].token.grant

(* A grant belongs to one profile: a turn writes its token back to where   *)
(* the file has the tokens of the same grant.                              *)
OneProfile ==
    /\ \A p, q \in Stored(file) :
           file.tokens[p].grant = file.tokens[q].grant => p = q
    /\ \A t \in Turns, p \in Stored(file) :
           at[t] \in InHand /\ held[t].token.grant = file.tokens[p].grant
               => held[t].profile = p
    /\ \A t, u \in Turns :
           at[t] \in InHand /\ at[u] \in InHand =>
               (held[t].token.grant = held[u].token.grant
                    => held[t].profile = held[u].profile)

(* A turn that has exchanged its token has the newest one, and with a      *)
(* server that retires tokens it is the only one to have it.               *)
PendingIsNewest ==
    \A t \in Turns : at[t] \in Pending =>
        held[t].token.gen = valid[held[t].token.grant]

PendingIsUnique ==
    rotates => \A t \in Turns : at[t] \in Pending =>
        /\ \A p \in Stored(file) : file.tokens[p] # held[t].token
        /\ \A u \in Turns \ {t} : at[u] \in InHand => held[u].token # held[t].token

(* With one that does not, there is only one token of a grant.             *)
WithoutRotation ==
    ~rotates =>
        /\ \A p \in Stored(file) :
               file.tokens[p].gen = valid[file.tokens[p].grant]
        /\ \A t \in Turns : at[t] \in InHand =>
               held[t].token.gen = valid[held[t].token.grant]

(* The lock layer, and on top of it the tokens.                            *)
LockInv == TokenTypeOK /\ Roles /\ Exclusive /\ HolderSeesFile

TokenInv ==
    /\ AllIssued /\ LoginIsFresh /\ OneProfile
    /\ PendingIsNewest /\ PendingIsUnique /\ WithoutRotation
    /\ StoredIsRefreshable

-----------------------------------------------------------------------------
(* The operations on the loaded data.                                      *)

(* A non-empty set of naturals has a least element.                        *)
LEMMA SmallestExists ==
    ASSUME NEW S, S \subseteq Nat, S # {}
    PROVE  \E x \in S : \A y \in S : x <= y
  <1> DEFINE R == OpToRel(<, Nat)
  <1>1. IsWellFoundedOn(R, Nat)
    BY NatLessThanWellFounded
  <1>2. PICK x \in S : \A y \in S : ~(<<y, x>> \in R)
    <2> HIDE DEF R
    <2> QED
      BY <1>1, WFMin
  <1>3. \A y \in S : y < x => <<y, x>> \in R
    BY DEF OpToRel
  <1>4. \A y \in S : ~(y < x)
    BY <1>2, <1>3
  <1> QED
    BY <1>4

(* The first profile is a profile, or none.                                *)
LEMMA FirstProfileType ==
    ASSUME NEW d PROVE FirstProfile(d) \in 0..NumProfiles
  <1>1. CASE Stored(d) = {}
    BY <1>1, TokenAssumption DEF FirstProfile, NoProfile
  <1>2. CASE Stored(d) # {}
    <2>1. Stored(d) \subseteq Nat /\ Stored(d) \subseteq Profiles
      BY DEF Stored, Profiles
    <2>2. Smallest(Stored(d)) \in Stored(d)
      BY <1>2, <2>1, SmallestExists DEF Smallest
    <2> QED
      BY <1>2, <2>1, <2>2, TokenAssumption DEF FirstProfile, Profiles
  <1> QED
    BY <1>1, <1>2

(* An empty token and an empty file are well-typed.                        *)
LEMMA EmptyTypes ==
    /\ NoToken \in Tokens
    /\ EmptyFile \in Files
    /\ Nothing \in [profile : 0..NumProfiles, token : Tokens]
    /\ Stored(EmptyFile) = {}
  <1>1. NoToken \in Tokens
    BY TokenAssumption DEF NoToken, Tokens
  <1>2. EmptyFile \in Files
    BY <1>1, TokenAssumption DEF EmptyFile, Files, NoProfile
  <1>3. Stored(EmptyFile) = {}
    BY DEF Stored, EmptyFile
  <1> QED
    BY <1>1, <1>2, <1>3, TokenAssumption DEF Nothing, NoProfile

(* Repairing the active profile leaves the tokens alone.                   *)
LEMMA RepairKeepsTokens ==
    ASSUME NEW d \in Files
    PROVE  /\ RepairStaleActive(d) \in Files
           /\ RepairStaleActive(d).tokens = d.tokens
  BY FirstProfileType DEF RepairStaleActive, Files

(* What logout, login and the end of a refresh do to the tokens.           *)
LEMMA ChangesOneToken ==
    ASSUME NEW d \in Files, NEW p \in Profiles, NEW token \in Tokens
    PROVE  /\ Remove(d, p) \in Files
           /\ Remove(d, p).tokens = [d.tokens EXCEPT ![p] = NoToken]
           /\ Upsert(d, p, token) \in Files
           /\ Upsert(d, p, token).tokens = [d.tokens EXCEPT ![p] = token]
           /\ Replace(d, p, token) \in Files
           /\ Replace(d, p, token).tokens = [d.tokens EXCEPT ![p] = token]
  <1>1. p \in 0..NumProfiles
    BY TokenAssumption DEF Profiles
  <1>2. Upsert(d, p, token) \in Files /\ Replace(d, p, token) \in Files
    BY <1>1 DEF Upsert, Replace, Files
  <1>3. /\ Upsert(d, p, token).tokens = [d.tokens EXCEPT ![p] = token]
        /\ Replace(d, p, token).tokens = [d.tokens EXCEPT ![p] = token]
    BY DEF Upsert, Replace, Files
  <1>4. /\ Remove(d, p) \in Files
        /\ Remove(d, p).tokens = [d.tokens EXCEPT ![p] = NoToken]
    <2> DEFINE without == [d EXCEPT !.tokens[p] = NoToken]
    <2>1. /\ without \in Files
          /\ without.tokens = [d.tokens EXCEPT ![p] = NoToken]
      BY EmptyTypes DEF Files
    <2>2. FirstProfile(without) \in 0..NumProfiles
      BY FirstProfileType
    <2>3. Remove(d, p) = IF d.active = p
                         THEN [without EXCEPT !.active = FirstProfile(without)]
                         ELSE without
      BY DEF Remove
    <2> HIDE DEF without
    <2> QED
      BY <2>1, <2>2, <2>3 DEF Files
  <1> QED
    BY <1>2, <1>3, <1>4

-----------------------------------------------------------------------------
(* Types and the lock.                                                     *)

(* The names of the callers are different from each other.                 *)
LEMMA Names == Cli \notin Turns /\ Free \notin Callers /\ Cli \in Callers
  BY TokenAssumption DEF Cli, Free, Callers

(* A caller that is granted the lock goes on with what it wanted.          *)
LEMMA GrantedFacts ==
    \A step \in Waiting :
        /\ Granted(step) \in Holding
        /\ step = "want_get" <=> Granted(step) = "get"
        /\ step = "want_put" <=> Granted(step) = "put"
        /\ step = "want_login" <=> Granted(step) = "login"
        /\ step = "want_logout" <=> Granted(step) = "logout"
  BY DEF Waiting, Granted, Holding

(* Nobody waits or holds at the start.                                     *)
LEMMA LockInit == TokenInit => LockInv
  <1> SUFFICES ASSUME TokenInit PROVE LockInv
    OBVIOUS
  <1>1. file \in Files
    BY EmptyTypes, TokenAssumption DEF TokenInit, Files, NoProfile
  <1>2. TokenTypeOK
    BY <1>1, EmptyTypes, TokenAssumption DEF TokenInit, TokenTypeOK, Callers
  <1>3. Roles /\ Exclusive /\ HolderSeesFile
    BY Names DEF TokenInit, Roles, Exclusive, HolderSeesFile, Holding, Callers
  <1> QED
    BY <1>2, <1>3 DEF LockInv

(* The parts of a token in hand are what Refresh needs of the types.       *)
LEMMA HeldTypes ==
    ASSUME TokenTypeOK, NEW c \in Callers
    PROVE  /\ held[c].profile \in 0..NumProfiles
           /\ held[c].token \in Tokens
           /\ copy[c] \in Files
  BY DEF TokenTypeOK

(* Dropping tokens loses grants only.                                      *)
LEMMA DropType ==
    ASSUME LockInv, NEW c \in Callers, AllIssued, LoginIsFresh
    PROVE  Drop(c) \subseteq Grants
  BY Names DEF Drop, LockInv, Roles, AllIssued, LoginIsFresh, Issued, InHand,
       LoggingIn, Callers

(* Each step keeps the types, the roles and the lock.                      *)
LEMMA LockStep ==
    ASSUME LockInv, TokenInv, [TokenNext]_tokenVars
    PROVE  LockInv'
  <1> USE Names DEF LockInv, Callers
  <1>t. TokenTypeOK
    OBVIOUS
  <1>1. ASSUME NEW c \in Callers, Acquire(c) PROVE LockInv'
    <2>1. TokenTypeOK'
      BY <1>1, GrantedFacts DEF Acquire, TokenTypeOK, Waiting, Holding
    <2>2. Roles'
      BY <1>1, GrantedFacts DEF Acquire, TokenTypeOK, Roles, Waiting, Holding, InHand, LoggingIn
    <2>3. Exclusive' /\ HolderSeesFile'
      BY <1>1, GrantedFacts DEF Acquire, TokenTypeOK, Exclusive, HolderSeesFile, Waiting, Holding
    <2> QED
      BY <2>1, <2>2, <2>3
  <1>2. ASSUME NEW c \in Callers, AcquireTimesOut(c) PROVE LockInv'
    <2>1. TokenTypeOK'
      BY <1>2, DropType, EmptyTypes, TokenAssumption DEF AcquireTimesOut,
         TokenFault, TokenTypeOK, TokenInv
    <2>2. Roles' /\ Exclusive' /\ HolderSeesFile'
      BY <1>2 DEF AcquireTimesOut, TokenTypeOK, Roles, Exclusive, HolderSeesFile, Waiting, Holding
    <2> QED
      BY <2>1, <2>2
  <1>3. ASSUME NEW t \in Turns, NEW o \in Profiles \cup {NoProfile}, BeginTurn(t, o) PROVE LockInv'
    <2>1. o \in 0..NumProfiles
      BY TokenAssumption DEF Profiles, NoProfile
    <2>2. TokenTypeOK'
      BY <1>3, <2>1, EmptyTypes DEF BeginTurn, TokenTypeOK, Waiting, Nothing
    <2>3. Roles' /\ Exclusive' /\ HolderSeesFile'
      BY <1>3 DEF BeginTurn, TokenTypeOK, Roles, Exclusive, HolderSeesFile, Holding
    <2> QED
      BY <2>2, <2>3
  <1>4. ASSUME NEW t \in Turns, NEW e \in BOOLEAN, GetProfile(t, e) PROVE LockInv'
    <2> DEFINE data == RepairStaleActive(copy[t])
               p == LookUp(data, held[t].profile)
    <2>1. data \in Files /\ data.tokens = copy[t].tokens
      BY RepairKeepsTokens, HeldTypes
    <2>2. p \in 0..NumProfiles /\ (p # NoProfile => data.tokens[p] \in Tokens)
      BY <2>1, HeldTypes, FirstProfileType, TokenAssumption DEF LookUp, Files, Profiles, NoProfile
    <2>3. /\ at[t] = "get"
          /\ file' = data /\ lock' = Free /\ copy' = [copy EXCEPT ![t] = EmptyFile]
          /\ \/ /\ p # NoProfile
                /\ at' = [at EXCEPT ![t] = "refresh"]
                /\ held' = [held EXCEPT ![t] = [profile |-> p, token |-> data.tokens[p]]]
             \/ /\ at' = [at EXCEPT ![t] = "idle"]
                /\ held' = [held EXCEPT ![t] = Nothing]
          /\ UNCHANGED <<valid, lost, tokenFaults, rotates>>
      BY <1>4 DEF GetProfile, SaveAndRelease
    <2> HIDE DEF data, p
    <2>4. TokenTypeOK'
      BY <2>1, <2>2, <2>3, EmptyTypes DEF TokenTypeOK
    <2>5. Roles' /\ Exclusive' /\ HolderSeesFile'
      BY <2>3 DEF TokenTypeOK, Roles, Exclusive, HolderSeesFile, Holding, InHand
    <2> QED
      BY <2>4, <2>5
  <1>5. ASSUME NEW t \in Turns, Refresh(t) PROVE LockInv'
    <2>1. held[t].token.grant \in Grants /\ held[t].token \in Tokens
      BY <1>5, HeldTypes DEF Refresh, TokenInv, AllIssued, Issued, InHand
    <2>2. TokenTypeOK'
      BY <1>5, <2>1, TokenAssumption DEF Refresh, TokenTypeOK, Waiting, Tokens
    <2>3. Roles' /\ Exclusive' /\ HolderSeesFile'
      BY <1>5 DEF Refresh, TokenTypeOK, Roles, Exclusive, HolderSeesFile, Holding, InHand
    <2> QED
      BY <2>2, <2>3
  <1>6. ASSUME NEW t \in Turns, RefreshFails(t) PROVE LockInv'
    <2>1. TokenTypeOK'
      BY <1>6, EmptyTypes DEF RefreshFails, TokenTypeOK
    <2>2. Roles' /\ Exclusive' /\ HolderSeesFile'
      BY <1>6 DEF RefreshFails, TokenTypeOK, Roles, Exclusive, HolderSeesFile, Holding
    <2> QED
      BY <2>1, <2>2
  <1>7. ASSUME NEW t \in Turns, UpdateProfile(t) PROVE LockInv'
    <2>1. held[t].profile \in Profiles
      BY <1>7 DEF UpdateProfile, TokenInv, AllIssued, InHand
    <2>2. file' \in Files
      BY <1>7, <2>1, HeldTypes, ChangesOneToken DEF UpdateProfile, SaveAndRelease
    <2>3. TokenTypeOK'
      BY <1>7, <2>2, EmptyTypes DEF UpdateProfile, SaveAndRelease, TokenTypeOK
    <2>4. Roles' /\ Exclusive' /\ HolderSeesFile'
      BY <1>7 DEF UpdateProfile, SaveAndRelease, TokenTypeOK, Roles, Exclusive,
         HolderSeesFile, Holding
    <2> QED
      BY <2>3, <2>4
  <1>8. ASSUME NEW p \in Profiles, Login(p) PROVE LockInv'
    <2>1. PICK g \in Grants :
              /\ valid' = [valid EXCEPT ![g] = 1]
              /\ held' = [held EXCEPT ![Cli] = [profile |-> p, token |-> [grant |-> g, gen |-> 1]]]
      BY <1>8 DEF Login
    <2>2. /\ p \in 0..NumProfiles /\ 1 \in 0..MaxGeneration
          /\ [grant |-> g, gen |-> 1] \in Tokens
      BY TokenAssumption DEF Profiles, Tokens, Grants
    <2>3. TokenTypeOK'
      BY <1>8, <2>1, <2>2 DEF Login, TokenTypeOK, Waiting
    <2>4. Roles' /\ Exclusive' /\ HolderSeesFile'
      BY <1>8 DEF Login, TokenTypeOK, Roles, Exclusive, HolderSeesFile, Holding, LoggingIn
    <2> QED
      BY <2>3, <2>4
  <1>9. ASSUME NEW o \in Profiles \cup {NoProfile}, Logout(o) PROVE LockInv'
    <2>1. o \in 0..NumProfiles
      BY TokenAssumption DEF Profiles, NoProfile
    <2>2. TokenTypeOK'
      BY <1>9, <2>1, EmptyTypes DEF Logout, TokenTypeOK, Waiting, Nothing
    <2>3. Roles' /\ Exclusive' /\ HolderSeesFile'
      BY <1>9 DEF Logout, TokenTypeOK, Roles, Exclusive, HolderSeesFile, Holding
    <2> QED
      BY <2>2, <2>3
  <1>10. ASSUME UpsertProfile PROVE LockInv'
    <2>1. held[Cli].profile \in Profiles
      BY <1>10 DEF UpsertProfile, TokenInv, LoginIsFresh, LoggingIn
    <2>2. file' \in Files
      BY <1>10, <2>1, HeldTypes, ChangesOneToken DEF UpsertProfile, SaveAndRelease
    <2>3. TokenTypeOK'
      BY <1>10, <2>2, EmptyTypes DEF UpsertProfile, SaveAndRelease, CliDone, TokenTypeOK
    <2>4. Roles' /\ Exclusive' /\ HolderSeesFile'
      BY <1>10 DEF UpsertProfile, SaveAndRelease, CliDone, TokenTypeOK, Roles,
         Exclusive, HolderSeesFile, Holding
    <2> QED
      BY <2>3, <2>4
  <1>11. ASSUME RemoveProfile PROVE LockInv'
    <2>1. file' \in Files
      <3>1. RepairStaleActive(copy[Cli]) \in Files /\ copy[Cli] \in Files
        BY RepairKeepsTokens, HeldTypes
      <3>2. \A p \in Stored(RepairStaleActive(copy[Cli])) : Remove(RepairStaleActive(copy[Cli]), p) \in Files
        BY <3>1, EmptyTypes, ChangesOneToken DEF Stored
      <3> QED
        BY <1>11, <3>1, <3>2 DEF RemoveProfile, SaveAndRelease
    <2>2. TokenTypeOK'
      BY <1>11, <2>1, EmptyTypes DEF RemoveProfile, SaveAndRelease, CliDone, TokenTypeOK
    <2>3. Roles' /\ Exclusive' /\ HolderSeesFile'
      BY <1>11 DEF RemoveProfile, SaveAndRelease, CliDone, TokenTypeOK, Roles,
         Exclusive, HolderSeesFile, Holding
    <2> QED
      BY <2>2, <2>3
  <1>12. ASSUME Status PROVE LockInv'
    <2>1. TokenTypeOK'
      BY <1>12, RepairKeepsTokens DEF Status, TokenTypeOK
    <2>2. Roles' /\ Exclusive' /\ HolderSeesFile'
      BY <1>12 DEF Status, TokenTypeOK, Roles, Exclusive, HolderSeesFile, Holding
    <2> QED
      BY <2>1, <2>2
  <1>13. ASSUME NEW group \in SUBSET Callers, Abandon(group) PROVE LockInv'
    <2>1. lost' \subseteq Grants
      BY <1>13, DropType DEF Abandon, TokenTypeOK, TokenInv
    <2>2. TokenTypeOK'
      BY <1>13, <2>1, EmptyTypes, TokenAssumption DEF Abandon, TokenFault, TokenTypeOK
    <2>3. Roles' /\ Exclusive' /\ HolderSeesFile'
      BY <1>13 DEF Abandon, TokenTypeOK, Roles, Exclusive, HolderSeesFile, Holding
    <2> QED
      BY <2>2, <2>3
  <1>14. ASSUME UNCHANGED tokenVars PROVE LockInv'
    BY <1>14 DEF tokenVars, TokenTypeOK, Roles, Exclusive, HolderSeesFile
  <1> QED
    BY <1>1, <1>2, <1>3, <1>4, <1>5, <1>6, <1>7, <1>8, <1>9, <1>10, <1>11, <1>12,
       <1>13, <1>14 DEF TokenNext, LoadOrSaveFails, ProcessDies

-----------------------------------------------------------------------------
(* The tokens.                                                             *)

(* What a file holds depends on its tokens only.                           *)
LEMMA StoredByTokens ==
    ASSUME NEW d, NEW e, d.tokens = e.tokens
    PROVE  Stored(d) = Stored(e)
  BY DEF Stored

(* Nobody has a token at the start.                                        *)
LEMMA TokensInit == TokenInit => TokenInv
  <1> SUFFICES ASSUME TokenInit PROVE TokenInv
    OBVIOUS
  <1>1. Stored(file) = {}
    <2>1. file.tokens = [p \in Profiles |-> NoToken]
      BY DEF TokenInit, EmptyFile
    <2> QED
      BY <2>1 DEF Stored
  <1> QED
    BY <1>1, Names DEF TokenInit, TokenInv, AllIssued, LoginIsFresh, OneProfile,
       PendingIsNewest, PendingIsUnique, WithoutRotation, StoredIsRefreshable,
       InHand, Pending, LoggingIn, Callers

(* A step keeps the tokens in order when it neither changes the file's     *)
(* tokens nor the server's, nobody gains a token, and one that is given up *)
(* was not a newer one than the file's, or counts as lost.                 *)
LEMMA QuietStep ==
    ASSUME LockInv, TokenInv, LockInv',
           file'.tokens = file.tokens, valid' = valid, rotates' = rotates,
           lost \subseteq lost',
           \A t \in Turns :
               /\ at'[t] \in InHand => at[t] \in InHand /\ held'[t] = held[t]
               /\ at'[t] \in Pending => at[t] \in Pending
               /\ at[t] \in Pending /\ at'[t] \notin Pending => Drop(t) \subseteq lost',
           at'[Cli] \in LoggingIn => at[Cli] \in LoggingIn /\ held'[Cli] = held[Cli]
    PROVE  TokenInv'
  <1>1. Stored(file)' = Stored(file)
    BY StoredByTokens
  <1>2. AllIssued' /\ LoginIsFresh'
    BY <1>1 DEF TokenInv, AllIssued, LoginIsFresh, Issued
  <1>3. OneProfile' /\ WithoutRotation'
    BY <1>1 DEF TokenInv, OneProfile, WithoutRotation
  <1>4. PendingIsNewest' /\ PendingIsUnique'
    BY <1>1 DEF TokenInv, PendingIsNewest, PendingIsUnique, Pending, InHand
  <1>5. StoredIsRefreshable'
    <2> SUFFICES ASSUME NEW p \in Stored(file)
                 PROVE  LET token == file.tokens[p] IN
                        \/ token.gen = valid[token.grant]
                        \/ token.grant \in lost'
                        \/ \E t \in Turns :
                            /\ at'[t] \in Pending
                            /\ held'[t].token = [token EXCEPT !.gen = valid[token.grant]]
      BY <1>1 DEF StoredIsRefreshable, Pending
    <2> DEFINE token == file.tokens[p]
    <2>1. CASE token.gen = valid[token.grant] \/ token.grant \in lost
      BY <2>1
    <2>2. ASSUME NEW t \in Turns, at[t] \in Pending, token.gen # valid[token.grant],
                 held[t].token = [token EXCEPT !.gen = valid[token.grant]]
          PROVE  \/ token.grant \in lost'
                 \/ at'[t] \in Pending /\ held'[t] = held[t]
      <3>1. token \in Tokens /\ p \in Profiles
        BY DEF LockInv, TokenTypeOK, Files, Stored
      <3>2. /\ held[t].token.grant = token.grant
            /\ held[t].token.gen = valid[token.grant]
            /\ held[t].token # token
        BY <2>2, <3>1 DEF Tokens
      <3>3. held[t].profile = p
        BY <2>2, <3>2 DEF TokenInv, OneProfile, Pending, InHand
      <3>4. Drop(t) = {token.grant}
        BY <2>2, <3>2, <3>3 DEF Drop, Pending
      <3> QED
        BY <2>2, <3>4 DEF Pending, InHand
    <2> QED
      BY <2>1, <2>2 DEF TokenInv, StoredIsRefreshable, Pending
  <1> QED
    BY <1>2, <1>3, <1>4, <1>5 DEF TokenInv

(* A refresh: the token in hand is the newest one that everybody has, and  *)
(* afterwards nobody but this turn has the newest one.                     *)
LEMMA RefreshStep ==
    ASSUME LockInv, TokenInv, LockInv', NEW t \in Turns, Refresh(t)
    PROVE  TokenInv'
  <1> DEFINE token == held[t].token
             g == token.grant
  <1> USE Names DEF Callers
  <1>1. /\ at[t] = "refresh" /\ at' = [at EXCEPT ![t] = "want_put"]
        /\ token.gen = valid[g] /\ g \in Grants /\ token \in Tokens
        /\ file' = file /\ rotates' = rotates /\ lost' = lost
        /\ held[t].profile \in Profiles /\ valid[g] \in Nat /\ valid[g] >= 1
    BY TokenAssumption, HeldTypes DEF Refresh, TokenInv, AllIssued, Issued,
       InHand, Tokens, LockInv, TokenTypeOK
  <1>2. CASE ~rotates
    <2>1. valid' = valid /\ held' = held
      BY <1>2 DEF Refresh
    <2>2. \A u \in Turns : /\ at'[u] \in InHand <=> at[u] \in InHand
                           /\ at[u] \in Pending => at'[u] \in Pending
      BY <1>1 DEF LockInv, TokenTypeOK, InHand, Pending
    <2>3. at'[Cli] = at[Cli]
      BY <1>1 DEF LockInv, TokenTypeOK
    <2>4. AllIssued' /\ LoginIsFresh' /\ OneProfile' /\ WithoutRotation'
      BY <1>1, <1>2, <2>1, <2>2, <2>3 DEF TokenInv, AllIssued, LoginIsFresh,
         Issued, OneProfile, WithoutRotation
    <2>5. PendingIsNewest' /\ PendingIsUnique' /\ StoredIsRefreshable'
      BY <1>1, <1>2, <2>1, <2>4 DEF PendingIsNewest, PendingIsUnique,
         StoredIsRefreshable, WithoutRotation, InHand, Pending
    <2> QED
      BY <2>4, <2>5 DEF TokenInv
  <1>3. CASE rotates
    <2>1. /\ valid' = [valid EXCEPT ![g] = @ + 1]
          /\ held' = [held EXCEPT ![t].token.gen = @ + 1]
      BY <1>3 DEF Refresh
    <2>2. /\ held'[t].profile = held[t].profile
          /\ held'[t].token = [grant |-> g, gen |-> valid[g] + 1]
          /\ \A c \in Callers \ {t} : held'[c] = held[c] /\ at'[c] = at[c]
          /\ at'[t] = "want_put"
      BY <1>1, <2>1 DEF LockInv, TokenTypeOK, Tokens
    <2>3. \A h \in Grants : valid'[h] = IF h = g THEN valid[g] + 1 ELSE valid[h]
      BY <1>1, <2>1 DEF LockInv, TokenTypeOK
    <2>4. \A u \in Turns : at[u] \in InHand => held[u].token \in Tokens /\ Issued(held[u].token)
      BY HeldTypes DEF LockInv, TokenInv, AllIssued
    <2>5. \A p \in Stored(file) : file.tokens[p] \in Tokens /\ Issued(file.tokens[p])
      BY DEF LockInv, TokenTypeOK, Files, Stored, TokenInv, AllIssued
    <2>6. \A u \in Turns : u # t /\ at[u] \in Pending => held[u].token.grant # g
      <3> SUFFICES ASSUME NEW u \in Turns, u # t, at[u] \in Pending, held[u].token.grant = g
                   PROVE  FALSE
        OBVIOUS
      <3>1. held[u].token.gen = valid[g] /\ held[u].token \in Tokens
        BY <2>4 DEF TokenInv, PendingIsNewest, Pending, InHand
      <3>2. held[u].token = token
        BY <1>1, <3>1 DEF Tokens
      <3> QED
        BY <1>1, <1>3, <3>2 DEF TokenInv, PendingIsUnique, InHand
    <2>7. AllIssued'
      <3>1. ASSUME NEW x, x \in Tokens, Issued(x) PROVE Issued(x)'
        <4>1. x.grant \in Grants /\ x.gen \in 1..valid[x.grant]
          BY <3>1 DEF Issued
        <4>2. /\ valid[x.grant] \in Nat
              /\ valid'[x.grant] \in {valid[x.grant], valid[x.grant] + 1}
          BY <1>1, <2>3, <4>1, TokenAssumption DEF LockInv, TokenTypeOK
        <4>3. x.gen \in 1..valid'[x.grant]
          BY <4>1, <4>2
        <4> QED
          BY <4>1, <4>3 DEF Issued
      <3>2. Issued(held[t].token)'
        BY <1>1, <2>2, <2>3 DEF Issued
      <3>3. \A u \in Turns : at'[u] \in InHand => held'[u].profile \in Profiles /\ Issued(held[u].token)'
        BY <1>1, <2>2, <2>4, <3>1, <3>2 DEF TokenInv, AllIssued
      <3>4. \A p \in Stored(file)' : Issued(file.tokens[p])'
        BY <1>1, <2>5, <3>1
      <3> QED
        BY <3>3, <3>4 DEF AllIssued
    <2>8. LoginIsFresh'
      <3> SUFFICES ASSUME at[Cli] \in LoggingIn PROVE LoginIsFresh'
        BY <2>2 DEF LoginIsFresh
      <3>1. held[Cli].token.grant # g /\ held'[Cli] = held[Cli] /\ at'[Cli] = at[Cli]
        BY <1>1, <2>2 DEF TokenInv, LoginIsFresh, InHand
      <3> QED
        BY <1>1, <2>2, <2>3, <3>1 DEF TokenInv, LoginIsFresh, InHand
    <2>9. OneProfile'
      BY <1>1, <2>2 DEF TokenInv, OneProfile, InHand
    <2>10. PendingIsNewest'
      BY <1>1, <2>2, <2>3, <2>4, <2>6 DEF TokenInv, PendingIsNewest, Issued, Pending, InHand
    <2>11. PendingIsUnique'
      <3>1. \A p \in Stored(file) : file.tokens[p] # held'[t].token
        BY <1>1, <2>2, <2>5 DEF Issued, Tokens
      <3>2. \A u \in Turns \ {t} : at[u] \in InHand => held[u].token # held'[t].token
        BY <1>1, <2>2, <2>4 DEF Issued, Tokens
      <3> QED
        BY <1>1, <1>3, <2>2, <3>1, <3>2 DEF TokenInv, PendingIsUnique, Pending, InHand
    <2>12. WithoutRotation'
      BY <1>1, <1>3 DEF WithoutRotation
    <2>13. StoredIsRefreshable'
      <3> SUFFICES ASSUME NEW p \in Stored(file)
                   PROVE  \/ file.tokens[p].gen = valid'[file.tokens[p].grant]
                          \/ file.tokens[p].grant \in lost
                          \/ \E u \in Turns :
                               /\ at'[u] \in Pending
                               /\ held'[u].token = [file.tokens[p] EXCEPT !.gen = valid'[file.tokens[p].grant]]
        BY <1>1 DEF StoredIsRefreshable, Pending
      <3>1. file.tokens[p] \in Tokens /\ file.tokens[p].grant \in Grants
        BY <2>5 DEF Issued
      <3>2. CASE file.tokens[p].grant = g
        <4>1. held'[t].token = [file.tokens[p] EXCEPT !.gen = valid'[g]]
          BY <1>1, <2>2, <2>3, <3>1, <3>2 DEF Tokens
        <4> QED
          BY <2>2, <3>2, <4>1 DEF Pending
      <3>3. CASE file.tokens[p].grant # g
        <4>1. valid'[file.tokens[p].grant] = valid[file.tokens[p].grant]
          BY <2>3, <3>1, <3>3
        <4>2. ASSUME NEW u \in Turns, at[u] \in Pending,
                     held[u].token = [file.tokens[p] EXCEPT !.gen = valid[file.tokens[p].grant]]
              PROVE  at'[u] \in Pending /\ held'[u] = held[u]
          BY <1>1, <2>2, <4>2 DEF Pending
        <4> QED
          BY <4>1, <4>2 DEF TokenInv, StoredIsRefreshable, Pending
      <3> QED
        BY <3>2, <3>3
    <2> QED
      BY <2>7, <2>8, <2>9, <2>10, <2>11, <2>12, <2>13 DEF TokenInv
  <1> QED
    BY <1>2, <1>3

(* A turn takes a stored token in hand to refresh it.                      *)
LEMMA GetProfileStep ==
    ASSUME LockInv, TokenInv, LockInv', NEW t \in Turns, NEW e \in BOOLEAN, GetProfile(t, e)
    PROVE  TokenInv'
  <1> DEFINE data == RepairStaleActive(copy[t])
             p == LookUp(data, held[t].profile)
  <1> USE Names DEF Callers
  <1>1. copy[t] = file /\ at[t] = "get"
    BY DEF GetProfile, LockInv, HolderSeesFile
  <1>2. file'.tokens = file.tokens /\ data.tokens = file.tokens
    BY <1>1, RepairKeepsTokens, HeldTypes DEF GetProfile, SaveAndRelease, LockInv
  <1>3. \/ /\ p # NoProfile /\ data.tokens[p] # NoToken
           /\ at' = [at EXCEPT ![t] = "refresh"]
           /\ held' = [held EXCEPT ![t] = [profile |-> p, token |-> data.tokens[p]]]
        \/ /\ at' = [at EXCEPT ![t] = "idle"]
           /\ held' = [held EXCEPT ![t] = Nothing]
    BY DEF GetProfile
  <1>4. valid' = valid /\ lost' = lost /\ rotates' = rotates
    BY DEF GetProfile
  <1>5. p \in 0..NumProfiles
    <2>1. data \in Files
      BY <1>1, RepairKeepsTokens, HeldTypes DEF LockInv
    <2> QED
      BY <2>1, HeldTypes, FirstProfileType DEF LockInv, LookUp, Files
  <1> HIDE DEF data, p
  <1>6. CASE at' = [at EXCEPT ![t] = "idle"]
    <2>1. \A u \in Turns : at'[u] \in InHand => at[u] \in InHand /\ held'[u] = held[u]
      BY <1>1, <1>3, <1>6 DEF LockInv, TokenTypeOK, InHand
    <2>2. \A u \in Turns : (at'[u] \in Pending <=> at[u] \in Pending)
      BY <1>1, <1>6 DEF LockInv, TokenTypeOK, Pending
    <2>3. at'[Cli] = at[Cli] /\ held'[Cli] = held[Cli]
      BY <1>3, <1>6 DEF LockInv, TokenTypeOK
    <2> QED
      BY <1>2, <1>4, <2>1, <2>2, <2>3, QuietStep
  <1>7. CASE at' = [at EXCEPT ![t] = "refresh"]
    <2>1. p \in Stored(file) /\ p \in Profiles
      BY <1>2, <1>3, <1>5, <1>7, TokenAssumption DEF Stored, LockInv,
         TokenTypeOK, Profiles, NoProfile
    <2>2. /\ held'[t] = [profile |-> p, token |-> file.tokens[p]]
          /\ at'[t] = "refresh"
          /\ \A c \in Callers \ {t} : held'[c] = held[c] /\ at'[c] = at[c]
      BY <1>1, <1>2, <1>3, <1>7 DEF LockInv, TokenTypeOK
    <2>3. Stored(file)' = Stored(file)
      BY <1>2, StoredByTokens
    <2>4. AllIssued' /\ LoginIsFresh'
      BY <1>1, <1>2, <1>4, <2>1, <2>2, <2>3 DEF TokenInv, AllIssued, LoginIsFresh, Issued, InHand
    <2>5. OneProfile' /\ WithoutRotation'
      BY <1>1, <1>2, <1>4, <2>1, <2>2, <2>3 DEF TokenInv, OneProfile, WithoutRotation, InHand
    <2>6. PendingIsNewest' /\ PendingIsUnique'
      BY <1>1, <1>2, <1>4, <2>1, <2>2, <2>3 DEF TokenInv, PendingIsNewest,
         PendingIsUnique, Pending, InHand
    <2>7. StoredIsRefreshable'
      BY <1>1, <1>2, <1>4, <2>2, <2>3 DEF TokenInv, StoredIsRefreshable
    <2> QED
      BY <2>4, <2>5, <2>6, <2>7 DEF TokenInv
  <1> QED
    BY <1>3, <1>6, <1>7

(* A turn writes the newest token of its grant to the profile it is of.    *)
LEMMA UpdateProfileStep ==
    ASSUME LockInv, TokenInv, LockInv', NEW t \in Turns, UpdateProfile(t)
    PROVE  TokenInv'
  <1> DEFINE p == held[t].profile
             token == held[t].token
  <1> USE Names DEF Callers
  <1>1. /\ at[t] = "put" /\ copy[t] = file
        /\ p \in Profiles /\ token \in Tokens /\ Issued(token)
        /\ token.gen = valid[token.grant]
    BY HeldTypes DEF UpdateProfile, LockInv, HolderSeesFile, TokenInv,
       AllIssued, PendingIsNewest, InHand, Pending
  <1>2. file'.tokens = [file.tokens EXCEPT ![p] = token]
    <2>1. file' = Replace(file, p, token) /\ file \in Files
      BY <1>1 DEF UpdateProfile, SaveAndRelease, LockInv, TokenTypeOK
    <2> HIDE DEF p, token
    <2>2. p \in Profiles /\ token \in Tokens
      BY <1>1
    <2> QED
      BY <2>1, <2>2 DEF Replace, Files
  <1>3. /\ at' = [at EXCEPT ![t] = "idle"] /\ held' = [held EXCEPT ![t] = Nothing]
        /\ valid' = valid /\ lost' = lost /\ rotates' = rotates
    BY DEF UpdateProfile
  <1>4. /\ at'[t] = "idle"
        /\ \A c \in Callers \ {t} : at'[c] = at[c] /\ held'[c] = held[c]
    BY <1>3 DEF LockInv, TokenTypeOK
  <1>5. file.tokens \in [Profiles -> Tokens]
    BY DEF LockInv, TokenTypeOK, Files
  <1>6. Stored(file)' \subseteq Stored(file) \cup {p}
    BY <1>1, <1>2, <1>5 DEF Stored
  <1>7. /\ file'.tokens[p] = token
        /\ \A q \in Profiles \ {p} : file'.tokens[q] = file.tokens[q]
        /\ Stored(file) \subseteq Profiles
    BY <1>1, <1>2, <1>5 DEF Stored
  <1> HIDE DEF p, token
  <1>a. token.grant = held[t].token.grant /\ held[t].profile = p /\ held[t].token = token
    BY DEF p, token
  <1>8. AllIssued' /\ LoginIsFresh'
    BY <1>1, <1>3, <1>4, <1>6, <1>7, <1>a DEF TokenInv, AllIssued, LoginIsFresh, Issued, InHand
  <1>9. OneProfile'
    BY <1>1, <1>3, <1>4, <1>6, <1>7, <1>a DEF TokenInv, OneProfile, InHand
  <1>10. PendingIsNewest' /\ WithoutRotation'
    BY <1>1, <1>3, <1>4, <1>6, <1>7, <1>a DEF TokenInv, PendingIsNewest,
       WithoutRotation, InHand, Pending
  <1>11. PendingIsUnique'
    BY <1>1, <1>3, <1>4, <1>6, <1>7, <1>a DEF TokenInv, PendingIsUnique, InHand, Pending
  <1>12. StoredIsRefreshable'
    <2> SUFFICES ASSUME NEW q \in Stored(file), q # p
                 PROVE  LET x == file.tokens[q] IN
                        \/ x.gen = valid[x.grant]
                        \/ x.grant \in lost
                        \/ \E u \in Turns :
                            /\ at'[u] \in Pending
                            /\ held'[u].token = [x EXCEPT !.gen = valid[x.grant]]
      BY <1>1, <1>3, <1>6, <1>7 DEF StoredIsRefreshable, Pending
    <2>1. file.tokens[q] \in Tokens
      BY <1>5, <1>7
    <2>2. held[t].token # [file.tokens[q] EXCEPT !.gen = valid[file.tokens[q].grant]]
      <3>1. held[t].token.grant # file.tokens[q].grant
        BY <1>1, <1>a DEF TokenInv, OneProfile, InHand
      <3> QED
        BY <2>1, <3>1 DEF Tokens
    <2> QED
      BY <1>4, <2>2 DEF TokenInv, StoredIsRefreshable, Pending
  <1> QED
    BY <1>8, <1>9, <1>10, <1>11, <1>12 DEF TokenInv

(* A login writes a token of a grant that nobody else has.                 *)
LEMMA UpsertProfileStep ==
    ASSUME LockInv, TokenInv, LockInv', UpsertProfile
    PROVE  TokenInv'
  <1> DEFINE p == held[Cli].profile
             token == held[Cli].token
  <1> USE Names DEF Callers
  <1>1. /\ at[Cli] = "login" /\ copy[Cli] = file
        /\ p \in Profiles /\ token \in Tokens /\ Issued(token)
        /\ token.gen = valid[token.grant]
        /\ \A q \in Stored(file) : file.tokens[q].grant # token.grant
        /\ \A t \in Turns : at[t] \in InHand => held[t].token.grant # token.grant
    BY HeldTypes DEF UpsertProfile, LockInv, HolderSeesFile, TokenInv,
       LoginIsFresh, Issued, LoggingIn
  <1>2. file'.tokens = [file.tokens EXCEPT ![p] = token]
    <2>1. file' = Upsert(file, p, token) /\ file \in Files
      BY <1>1 DEF UpsertProfile, SaveAndRelease, LockInv, TokenTypeOK
    <2> HIDE DEF p, token
    <2>2. p \in Profiles /\ token \in Tokens
      BY <1>1
    <2> QED
      BY <2>1, <2>2 DEF Upsert, Files
  <1>3. /\ at' = [at EXCEPT ![Cli] = "idle"]
        /\ held' = [held EXCEPT ![Cli] = Nothing]
        /\ valid' = valid /\ lost' = lost /\ rotates' = rotates
    BY DEF UpsertProfile, CliDone
  <1>4. at'[Cli] = "idle" /\ \A t \in Turns : at'[t] = at[t] /\ held'[t] = held[t]
    BY <1>3 DEF LockInv, TokenTypeOK
  <1>5. file.tokens \in [Profiles -> Tokens]
    BY DEF LockInv, TokenTypeOK, Files
  <1>6. Stored(file)' \subseteq Stored(file) \cup {p}
    BY <1>1, <1>2, <1>5 DEF Stored
  <1>7. /\ file'.tokens[p] = token
        /\ \A q \in Profiles \ {p} : file'.tokens[q] = file.tokens[q]
        /\ Stored(file) \subseteq Profiles
    BY <1>1, <1>2, <1>5 DEF Stored
  <1> HIDE DEF p, token
  <1>8. AllIssued' /\ LoginIsFresh'
    BY <1>1, <1>3, <1>4, <1>6, <1>7 DEF TokenInv, AllIssued, LoginIsFresh, Issued, LoggingIn
  <1>9. OneProfile'
    BY <1>1, <1>3, <1>4, <1>6, <1>7 DEF TokenInv, OneProfile
  <1>10. PendingIsNewest' /\ WithoutRotation'
    BY <1>1, <1>3, <1>4, <1>6, <1>7 DEF TokenInv, PendingIsNewest, WithoutRotation
  <1>11. PendingIsUnique'
    BY <1>1, <1>3, <1>4, <1>6, <1>7 DEF TokenInv, PendingIsUnique, InHand, Pending
  <1>12. StoredIsRefreshable'
    BY <1>1, <1>3, <1>4, <1>6, <1>7 DEF TokenInv, StoredIsRefreshable
  <1> QED
    BY <1>8, <1>9, <1>10, <1>11, <1>12 DEF TokenInv

(* A logout takes a token out of the file.                                 *)
LEMMA RemoveProfileStep ==
    ASSUME LockInv, TokenInv, LockInv', RemoveProfile
    PROVE  TokenInv'
  <1> USE Names DEF Callers
  <1>1. at[Cli] = "logout" /\ copy[Cli] = file
    BY DEF RemoveProfile, LockInv, HolderSeesFile
  <1>2. \A p \in Profiles : file'.tokens[p] \in {file.tokens[p], NoToken}
    <2>1. file \in Files /\ RepairStaleActive(file) \in Files
          /\ RepairStaleActive(file).tokens = file.tokens
      BY RepairKeepsTokens DEF LockInv, TokenTypeOK
    <2>2. \/ file' = file
          \/ \E p \in Profiles : file' = Remove(RepairStaleActive(file), p)
      BY <1>1 DEF RemoveProfile, SaveAndRelease, Stored
    <2>3. CASE file' = file
      BY <2>3
    <2>4. ASSUME NEW p \in Profiles, file' = Remove(RepairStaleActive(file), p)
          PROVE  file'.tokens = [file.tokens EXCEPT ![p] = NoToken]
      BY <2>1, <2>4, EmptyTypes, ChangesOneToken
    <2> QED
      BY <2>1, <2>2, <2>3, <2>4 DEF Files
  <1>3. /\ at' = [at EXCEPT ![Cli] = "idle"]
        /\ held' = [held EXCEPT ![Cli] = Nothing]
        /\ valid' = valid /\ lost' = lost /\ rotates' = rotates
    BY DEF RemoveProfile, CliDone
  <1>4. at'[Cli] = "idle" /\ \A t \in Turns : at'[t] = at[t] /\ held'[t] = held[t]
    BY <1>3 DEF LockInv, TokenTypeOK
  <1>5. \A p \in Stored(file)' : p \in Stored(file) /\ file'.tokens[p] = file.tokens[p]
    BY <1>2 DEF Stored
  <1>6. AllIssued' /\ LoginIsFresh' /\ OneProfile'
    BY <1>3, <1>4, <1>5 DEF TokenInv, AllIssued, LoginIsFresh, Issued, OneProfile, LoggingIn
  <1>7. PendingIsNewest' /\ PendingIsUnique' /\ WithoutRotation' /\ StoredIsRefreshable'
    BY <1>3, <1>4, <1>5 DEF TokenInv, PendingIsNewest, PendingIsUnique,
       WithoutRotation, StoredIsRefreshable
  <1> QED
    BY <1>6, <1>7 DEF TokenInv

(* A login begins with a grant the server has not issued before.           *)
LEMMA LoginStep ==
    ASSUME LockInv, TokenInv, LockInv', NEW p \in Profiles, Login(p)
    PROVE  TokenInv'
  <1> USE Names DEF Callers
  <1>1. PICK g \in Grants :
            /\ valid[g] = 0
            /\ valid' = [valid EXCEPT ![g] = 1]
            /\ held' = [held EXCEPT ![Cli] = [profile |-> p, token |-> [grant |-> g, gen |-> 1]]]
    BY DEF Login
  <1>2. file' = file /\ lost' = lost /\ rotates' = rotates
    BY DEF Login
  <1>3. /\ \A t \in Turns : at'[t] = at[t] /\ held'[t] = held[t]
        /\ held'[Cli] = [profile |-> p, token |-> [grant |-> g, gen |-> 1]]
        /\ valid'[g] = 1 /\ \A h \in Grants \ {g} : valid'[h] = valid[h]
    BY <1>1 DEF Login, LockInv, TokenTypeOK
  <1>4. /\ \A q \in Stored(file) : file.tokens[q].grant \in Grants \ {g}
        /\ \A t \in Turns : at[t] \in InHand => held[t].token.grant \in Grants \ {g}
    BY <1>1 DEF TokenInv, AllIssued, Issued
  <1>5. AllIssued' /\ OneProfile' /\ WithoutRotation'
    BY <1>2, <1>3, <1>4 DEF TokenInv, AllIssued, Issued, OneProfile, WithoutRotation
  <1>6. LoginIsFresh'
    BY <1>2, <1>3, <1>4 DEF LoginIsFresh
  <1>7. PendingIsNewest' /\ PendingIsUnique' /\ StoredIsRefreshable'
    BY <1>2, <1>3, <1>4 DEF TokenInv, PendingIsNewest, PendingIsUnique,
       StoredIsRefreshable, InHand, Pending
  <1> QED
    BY <1>5, <1>6, <1>7 DEF TokenInv

(* Each step keeps the tokens in order.                                    *)
LEMMA TokenStep ==
    ASSUME LockInv, TokenInv, LockInv', [TokenNext]_tokenVars
    PROVE  TokenInv'
  <1> USE Names DEF Callers
  <1>t. TokenTypeOK
    BY DEF LockInv
  <1>1. ASSUME NEW c \in Callers, Acquire(c) PROVE TokenInv'
    <2>1. \A t \in Turns : /\ at'[t] \in InHand => at[t] \in InHand
                           /\ at'[t] \in Pending <=> at[t] \in Pending
      BY <1>1, <1>t, GrantedFacts DEF Acquire, TokenTypeOK, InHand, Pending, Waiting, Holding
    <2>2. at'[Cli] \in LoggingIn => at[Cli] \in LoggingIn
      BY <1>1, <1>t, GrantedFacts DEF Acquire, TokenTypeOK, LoggingIn, Waiting, Holding
    <2> QED
      BY <1>1, <2>1, <2>2, QuietStep DEF Acquire
  <1>2. ASSUME NEW c \in Callers, AcquireTimesOut(c) PROVE TokenInv'
    <2>1. \A d \in Callers : d # c => at'[d] = at[d] /\ held'[d] = held[d]
      BY <1>2, <1>t DEF AcquireTimesOut, TokenTypeOK
    <2>2. at'[c] = "idle" /\ Drop(c) \subseteq lost' /\ lost \subseteq lost'
      BY <1>2, <1>t DEF AcquireTimesOut, TokenTypeOK
    <2> QED
      BY <1>2, <2>1, <2>2, QuietStep DEF AcquireTimesOut, InHand, Pending, LoggingIn
  <1>3. ASSUME NEW t \in Turns, NEW o \in Profiles \cup {NoProfile}, BeginTurn(t, o)
        PROVE  TokenInv'
    <2>1. at[t] = "idle" /\ at'[t] = "want_get"
          /\ \A d \in Callers \ {t} : at'[d] = at[d] /\ held'[d] = held[d]
      BY <1>3, <1>t DEF BeginTurn, TokenTypeOK
    <2> QED
      BY <1>3, <2>1, QuietStep DEF BeginTurn, InHand, Pending
  <1>4. ASSUME NEW t \in Turns, RefreshFails(t) PROVE TokenInv'
    <2>1. at[t] = "refresh" /\ at'[t] = "idle"
          /\ \A d \in Callers \ {t} : at'[d] = at[d] /\ held'[d] = held[d]
      BY <1>4, <1>t DEF RefreshFails, TokenTypeOK
    <2> QED
      BY <1>4, <2>1, QuietStep DEF RefreshFails, InHand, Pending
  <1>5. ASSUME NEW o \in Profiles \cup {NoProfile}, Logout(o) PROVE TokenInv'
    <2>1. at'[Cli] = "want_logout" /\ \A t \in Turns : at'[t] = at[t] /\ held'[t] = held[t]
      BY <1>5, <1>t DEF Logout, TokenTypeOK
    <2> QED
      BY <1>5, <2>1, QuietStep DEF Logout, LoggingIn
  <1>6. ASSUME Status PROVE TokenInv'
    <2>1. file'.tokens = file.tokens
      BY <1>6, <1>t, RepairKeepsTokens DEF Status, TokenTypeOK
    <2> QED
      BY <1>6, <2>1, QuietStep DEF Status
  <1>7. ASSUME NEW group \in SUBSET Callers, Abandon(group) PROVE TokenInv'
    <2>1. \A c \in Callers :
            IF c \in group THEN at'[c] = "idle" /\ Drop(c) \subseteq lost'
            ELSE at'[c] = at[c] /\ held'[c] = held[c]
      BY <1>7 DEF Abandon
    <2> QED
      BY <1>7, <2>1, QuietStep DEF Abandon, InHand, Pending, LoggingIn
  <1>8. ASSUME UNCHANGED tokenVars PROVE TokenInv'
    BY <1>8, QuietStep DEF tokenVars
  <1> QED
    BY <1>1, <1>2, <1>3, <1>4, <1>5, <1>6, <1>7, <1>8, GetProfileStep, RefreshStep,
       UpdateProfileStep, UpsertProfileStep, RemoveProfileStep, LoginStep
    DEF TokenNext, LoadOrSaveFails, ProcessDies

-----------------------------------------------------------------------------
(* The lock and the tokens together are inductive.                         *)
LEMMA TokenInvariance == TokenSpec => [](LockInv /\ TokenInv)
  <1>1. TokenInit => LockInv /\ TokenInv
    BY LockInit, TokensInit
  <1>2. LockInv /\ TokenInv /\ [TokenNext]_tokenVars => (LockInv /\ TokenInv)'
    BY LockStep, TokenStep
  <1> QED
    BY <1>1, <1>2, PTL DEF TokenSpec

(* The token store is well-typed.                                          *)
THEOREM TokenTypes == TokenSpec => []TokenTypeOK
  <1>1. LockInv /\ TokenInv => TokenTypeOK
    BY DEF LockInv
  <1> QED
    BY <1>1, TokenInvariance, PTL

(* with_exclusive_data loses no update: what a caller has loaded is what   *)
(* the file holds until it saves.                                          *)
THEOREM NoLostUpdate == TokenSpec => []HolderSeesFile
  <1>1. LockInv /\ TokenInv => HolderSeesFile
    BY DEF LockInv
  <1> QED
    BY <1>1, TokenInvariance, PTL

(* get_valid_openai_access_token: a stored refresh token is accepted by    *)
(* the server, or a turn is about to write the one that is, or that one    *)
(* was lost with its process, at the lock or with the file.                *)
THEOREM RefreshTokensStayUsable == TokenSpec => []StoredIsRefreshable
  <1>1. LockInv /\ TokenInv => StoredIsRefreshable
    BY DEF TokenInv
  <1> QED
    BY <1>1, TokenInvariance, PTL

=============================================================================
