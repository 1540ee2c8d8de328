----------------------------- MODULE LogRotation -----------------------------
(***************************************************************************)
(* The service's log file (src/run/logging.rs): one active file, renamed   *)
(* to a dated one by the first write of a new day or by the next process   *)
(* to open it, and the newest dated files kept.  Each process rotates by   *)
(* its own idea of the current day, and keeps writing to the file it has   *)
(* open whatever its name has become; nothing stops two processes from     *)
(* logging to the same path.                                               *)
(***************************************************************************)
EXTENDS Naturals, FiniteSets

CONSTANTS
    Writers,        \* processes that log
    RetainDaily,    \* RETAIN_DAILY_LOG_FILES
    MaxDay,         \* bound: days
    MaxLines,       \* bound: lines written
    MaxFiles        \* bound: files ever created

ASSUME LogAssumption ==
    /\ {RetainDaily, MaxLines, MaxFiles} \subseteq Nat
    /\ MaxDay \in Nat \ {0}

VARIABLES
    today,
    disk,       \* the directory and the contents of its files
    writer,     \* what each process has open, and its current_day
    lineDay,    \* day each line was written on (history)
    shared      \* two processes have had the log open at once (history)

logVars == <<today, disk, writer, lineDay, shared>>

NoFile == 0
LogDays == 1..MaxDay
FileIds == 1..MaxFiles
Lines == 1..MaxLines
Closed == [file |-> NoFile, day |-> 0]
Open(w) == writer[w] # Closed

LogInit ==
    /\ today = 1
    /\ disk = [active |-> NoFile, dated |-> [d \in LogDays |-> NoFile],
               lines |-> [f \in FileIds |-> {}],
               modified |-> [f \in FileIds |-> 0], created |-> 0]
    /\ writer = [w \in Writers |-> Closed]
    /\ lineDay = [n \in Lines |-> 0]
    /\ shared = FALSE

-----------------------------------------------------------------------------
(* Operations on the directory                                              *)

\* OpenOptions::create(true).append(true)
OpenActive(d) ==
    IF d.active # NoFile THEN d
    ELSE [d EXCEPT !.active = d.created + 1, !.created = @ + 1]

\* rotate_active_log_to_day: appended to the day's file when it exists.
RotateTo(d, day) ==
    LET target == d.dated[day] IN
    IF d.active = NoFile THEN d
    ELSE IF target = NoFile
    THEN [d EXCEPT !.dated[day] = d.active, !.active = NoFile]
    ELSE [d EXCEPT !.lines[target] = @ \cup d.lines[d.active],
                   !.modified[target] = today, !.active = NoFile]

Daily(d) == {day \in LogDays : d.dated[day] # NoFile}

\* Slip: one file too many is removed.
PruneOneMore(d) ==
    [d EXCEPT !.dated = [day \in LogDays |->
        IF Cardinality({e \in Daily(d) : e > day}) + 1 >= RetainDaily
        THEN NoFile ELSE d.dated[day]]]

\* prune_daily_logs: all but the newest RetainDaily are removed.
Prune(d) ==
    [d EXCEPT !.dated = [day \in LogDays |->
        IF Cardinality({e \in Daily(d) : e > day}) >= RetainDaily
        THEN NoFile ELSE d.dated[day]]]

\* rotate_stale_active_log_if_needed: only a non-empty file has a day.
RotateStale(d) ==
    IF d.lines[d.active] # {} /\ d.modified[d.active] < today
    THEN RotateTo(d, d.modified[d.active]) ELSE d

-----------------------------------------------------------------------------
(* RotatingLogWriter                                                        *)

NewWriter(w) ==
    /\ ~Open(w)
    /\ disk.created + 2 <= MaxFiles
    /\ disk' = OpenActive(Prune(RotateStale(OpenActive(disk))))
    /\ writer' = [writer EXCEPT ![w] = [file |-> disk'.active, day |-> today]]
    /\ shared' = (shared \/ \E v \in Writers : Open(v))
    /\ UNCHANGED <<today, lineDay>>

\* rotate_if_needed
RotateIfNeeded(w, d) ==
    IF writer[w].day = today THEN d
    ELSE OpenActive(Prune(RotateTo(d, writer[w].day)))

WriteLine(w, n) ==
    /\ Open(w) /\ lineDay[n] = 0 /\ \A k \in 1..(n - 1) : lineDay[k] # 0
    /\ disk.created < MaxFiles
    /\ LET d == RotateIfNeeded(w, disk)
           file == IF writer[w].day = today THEN writer[w].file ELSE d.active
       IN /\ disk' = [d EXCEPT !.lines[file] = @ \cup {n},
                               !.modified[file] = today]
          /\ writer' = [writer EXCEPT ![w] = [file |-> file, day |-> today]]
    /\ lineDay' = [lineDay EXCEPT ![n] = today]
    /\ UNCHANGED <<today, shared>>

\* The process ends, or dies half-way through a rotation.
WriterExits(w, rotating) ==
    /\ Open(w)
    /\ disk' = IF rotating /\ writer[w].day # today
               THEN RotateTo(disk, writer[w].day) ELSE disk
    /\ writer' = [writer EXCEPT ![w] = Closed]
    /\ UNCHANGED <<today, lineDay, shared>>

Midnight ==
    /\ today < MaxDay
    /\ today' = today + 1
    /\ UNCHANGED <<disk, writer, lineDay, shared>>

LogNext ==
    \/ Midnight
    \/ \E w \in Writers :
        \/ NewWriter(w)
        \/ \E n \in Lines : WriteLine(w, n)
        \/ \E rotating \in BOOLEAN : WriterExits(w, rotating)

LogSpec == LogInit /\ [][LogNext]_logVars

-----------------------------------------------------------------------------
(* Properties                                                               *)

LogTypeOK ==
    /\ today \in LogDays
    /\ disk.active \in 0..MaxFiles
    /\ disk.dated \in [LogDays -> 0..MaxFiles]
    /\ disk.lines \in [FileIds -> SUBSET Lines]
    /\ disk.modified \in [FileIds -> 0..MaxDay]
    /\ writer \in [Writers -> [file : 0..MaxFiles, day : 0..MaxDay]]
    /\ lineDay \in [Lines -> 0..MaxDay] /\ shared \in BOOLEAN

LinesIn(file) == IF file = NoFile THEN {} ELSE disk.lines[file]

\* Every line is found where its day says (rotate_if_needed,
\* rotate_stale_active_log_if_needed, prune_daily_logs): in the dated file of
\* its day, or in the active file until that is rotated, and a day's file goes
\* only when RetainDaily newer ones exist.  This holds across restarts and
\* a death in the middle of a rotation, as long as one process logs at a time:
\* a second one rotates the first one's file under its hands.
EveryLineIsFiled ==
    shared \/
        \A n \in Lines : lineDay[n] # 0 =>
            \/ n \in LinesIn(disk.dated[lineDay[n]])
            \/ n \in LinesIn(disk.active)
               /\ lineDay[n] = disk.modified[disk.active]
            \/ Cardinality({e \in Daily(disk) : e > lineDay[n]}) >= RetainDaily

=============================================================================
