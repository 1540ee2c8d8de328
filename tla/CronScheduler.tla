---------------------------- MODULE CronScheduler ----------------------------
(***************************************************************************)
(* Scheduled prompts.  The cron tool (src/tools/builtin/cron/mod.rs) writes *)
(* jobs to a SQLite table (store.rs) from any turn; one background task    *)
(* (src/run/cron_scheduler.rs) wakes up every minute, lists the table once *)
(* and goes through the jobs one after the other: is it due, does its      *)
(* guard command pass, send it to the gateway, write down when it fired.   *)
(* The table survives a restart of the process, the rest does not.         *)
(*                                                                         *)
(* Time is counted in minutes: a five-field schedule names minutes, and    *)
(* the first scheduled second of a minute is the only one.  Minutes from   *)
(* MaxMinute on, in which nothing is scheduled, are not told apart.  The   *)
(* channel a job names was written by the tool from the turn's own route,  *)
(* so parse_source_channel finds it.                                       *)
(***************************************************************************)
EXTENDS Naturals, Sequences, FiniteSets

CONSTANTS
    CronAgents,     \* agents whose turns use the cron tool
    Schedules,      \* each the set of minutes it names
    MaxJobsPerAgent,\* max_jobs_per_agent (50 by default)
    MaxJobs,        \* bound: jobs ever created
    MaxMinute,      \* bound: first minute nothing is scheduled in any more
    MaxOwed,        \* bound: ticks the interval may be behind
    MaxCronFaults   \* bound: crashes and failed store or queue operations

ASSUME CronAssumption ==
    /\ \A s \in Schedules : s \subseteq 1..(MaxMinute - 1)
    /\ {MaxOwed, MaxMinute} \subseteq Nat \ {0}
    /\ {MaxJobsPerAgent, MaxJobs, MaxCronFaults} \subseteq Nat

VARIABLES
    minute,     \* the clock
    owed,       \* interval ticks not yet taken (missed ones come in a burst)
    jobs,       \* the table cron_jobs
    tick,       \* where run_tick is
    fired,      \* every message sent, in order
    cronFaults

cronVars == <<minute, owed, jobs, tick, fired, cronFaults>>

JobIds == 1..MaxJobs
Never == 0   \* no last_fired_at; minutes count from 1
NoJob == [state |-> "free"]
NewJob(agent, schedule, guard) ==
    [state |-> "enabled", agent |-> agent, schedule |-> schedule,
     guard |-> guard, last |-> Never]
Enabled(j) == jobs[j].state = "enabled"
NoTick == [at |-> "asleep"]

CronInit ==
    /\ minute = 1 /\ owed = 1
    /\ jobs = [j \in JobIds |-> NoJob]
    /\ tick = NoTick
    /\ fired = <<>>
    /\ cronFaults = 0

-----------------------------------------------------------------------------
(* CronTool: create and delete, each under the store's lock                 *)

JobsOf(agent) == {j \in JobIds : Enabled(j) /\ jobs[j].agent = agent}

CreateJob(agent, schedule, guard) ==
    /\ Cardinality(JobsOf(agent)) < MaxJobsPerAgent
    /\ \E j \in JobIds :
        /\ jobs[j] = NoJob /\ \A i \in 1..(j - 1) : jobs[i] # NoJob
        /\ jobs' = [jobs EXCEPT ![j] = NewJob(agent, schedule, guard)]
    /\ UNCHANGED <<minute, owed, tick, fired, cronFaults>>

\* DELETE ... WHERE id = ? AND agent_id = ?
DeleteJob(agent, j) ==
    /\ j \in JobsOf(agent)
    /\ jobs' = [jobs EXCEPT ![j].state = "deleted"]
    /\ UNCHANGED <<minute, owed, tick, fired, cronFaults>>

-----------------------------------------------------------------------------
(* run_tick                                                                 *)

\* Slip: a scheduled time equal to the last firing counts again.
ShouldFireFromLast(job, now) ==
    IF job.last = Never THEN now \in job.schedule
    ELSE \E t \in job.schedule : job.last <= t /\ t <= now

\* Slip: a job that has fired is looked at like one that never has.
ShouldFireNowOnly(job, now) == now \in job.schedule /\ job.last # now

\* A job that has fired catches up on anything missed since; one that never
\* has fires only in a scheduled minute.
ShouldFire(job, now) ==
    IF job.last = Never THEN now \in job.schedule
    ELSE \E t \in job.schedule : job.last < t /\ t <= now

ListAllEnabled == {j \in JobIds : Enabled(j)}

StartTick ==
    /\ tick.at = "asleep" /\ owed > 0
    /\ owed' = owed - 1
    /\ tick' = [at |-> "loop", now |-> minute, rest |-> ListAllEnabled]
    /\ UNCHANGED <<minute, jobs, fired, cronFaults>>

Fault == cronFaults < MaxCronFaults /\ cronFaults' = cronFaults + 1

\* The store cannot be read: the whole tick is given up.
ListFails ==
    /\ tick.at = "asleep" /\ owed > 0
    /\ Fault
    /\ owed' = owed - 1
    /\ UNCHANGED <<minute, jobs, tick, fired>>

Continue == [at |-> "loop", now |-> tick.now, rest |-> tick.rest]

\* The rows come in no stated order.
ConsiderJob(j) ==
    /\ tick.at = "loop" /\ j \in tick.rest
    /\ tick' = IF ShouldFire(jobs[j], tick.now)
               THEN [at |-> IF jobs[j].guard THEN "guard" ELSE "send",
                     now |-> tick.now, rest |-> tick.rest \ {j}, job |-> j]
               ELSE [tick EXCEPT !.rest = @ \ {j}]
    /\ UNCHANGED <<minute, owed, jobs, fired, cronFaults>>

\* A non-zero exit, an error and a timeout all skip the job for this tick.
GuardReturns(passed) ==
    /\ tick.at = "guard"
    /\ tick' = IF passed THEN [tick EXCEPT !.at = "send"] ELSE Continue
    /\ UNCHANGED <<minute, owed, jobs, fired, cronFaults>>

\* The send waits for room in the inbound queue, which the service loop keeps
\* emptying: the step may take its time.  `stale` and `recorded` are history:
\* the job was deleted meanwhile; last_fired_at got written.
SendJob ==
    /\ tick.at = "send"
    /\ fired' = Append(fired, [job |-> tick.job, now |-> tick.now,
                               stale |-> ~Enabled(tick.job),
                               recorded |-> FALSE])
    /\ tick' = [tick EXCEPT !.at = "record"]
    /\ UNCHANGED <<minute, owed, jobs, cronFaults>>

SendJobFails ==
    /\ tick.at = "send" /\ Fault
    /\ tick' = Continue
    /\ UNCHANGED <<minute, owed, jobs, fired>>

\* UPDATE ... WHERE id = ?: no row, no effect.
UpdateLastFired ==
    /\ tick.at = "record"
    /\ jobs' = IF Enabled(tick.job)
               THEN [jobs EXCEPT ![tick.job].last = tick.now] ELSE jobs
    /\ fired' = [fired EXCEPT ![Len(fired)].recorded = TRUE]
    /\ tick' = Continue
    /\ UNCHANGED <<minute, owed, cronFaults>>

\* A failed write is logged and nothing more.
UpdateFails ==
    /\ tick.at = "record" /\ Fault
    /\ tick' = Continue
    /\ UNCHANGED <<minute, owed, jobs, fired>>

EndTick ==
    /\ tick.at = "loop" /\ tick.rest = {}
    /\ tick' = NoTick
    /\ UNCHANGED <<minute, owed, jobs, fired, cronFaults>>

-----------------------------------------------------------------------------
(* The environment                                                          *)

MinuteElapses ==
    /\ owed < MaxOwed
    /\ owed' = owed + 1
    /\ minute' = IF minute < MaxMinute THEN minute + 1 ELSE minute
    /\ UNCHANGED <<jobs, tick, fired, cronFaults>>

\* The first tick of a new interval is immediate.
CronCrash ==
    /\ Fault
    /\ tick' = NoTick /\ owed' = 1
    /\ UNCHANGED <<minute, jobs, fired>>

SchedulerStep ==
    \/ StartTick \/ ListFails \/ EndTick
    \/ \E j \in JobIds : ConsiderJob(j)
    \/ \E passed \in BOOLEAN : GuardReturns(passed)
    \/ SendJob \/ SendJobFails \/ UpdateLastFired \/ UpdateFails

CronNext ==
    \/ SchedulerStep \/ MinuteElapses \/ CronCrash
    \/ \E a \in CronAgents, s \in Schedules, g \in BOOLEAN : CreateJob(a, s, g)
    \/ \E a \in CronAgents, j \in JobIds : DeleteJob(a, j)

CronSpec == CronInit /\ [][CronNext]_cronVars

-----------------------------------------------------------------------------
(* Properties                                                               *)

Jobs == {NoJob} \cup
    [state : {"enabled", "deleted"}, agent : CronAgents, schedule : Schedules,
     guard : BOOLEAN, last : 0..MaxMinute]
Ticks == {NoTick}
    \cup [at : {"loop"}, now : 1..MaxMinute, rest : SUBSET JobIds]
    \cup [at : {"guard", "send", "record"}, now : 1..MaxMinute,
          rest : SUBSET JobIds, job : JobIds]

CronTypeOK ==
    /\ minute \in 1..MaxMinute /\ owed \in 0..MaxOwed
    /\ jobs \in [JobIds -> Jobs]
    /\ tick \in Ticks
    /\ fired \in Seq([job : JobIds, now : 1..MaxMinute,
                      stale : BOOLEAN, recorded : BOOLEAN])
    /\ cronFaults \in 0..MaxCronFaults

\* No scheduled time fires a job twice, however late or bunched the ticks are
\* (run_tick, should_fire): between two firings of a job lies a scheduled time
\* of its own, unless a crash or a failed write came between sending the first
\* and writing it down.
FiresOncePerTime ==
    \A k \in 1..Len(fired) : \A i \in 1..(k - 1) :
        (fired[i].job = fired[k].job /\ fired[i].recorded) =>
            \E t \in jobs[fired[k].job].schedule :
                fired[i].now < t /\ t <= fired[k].now

\* A job deleted while a tick is under way may still fire in that tick, and
\* never again: the list it was taken from is not used twice (run_tick).
DeletedFiresAtMostOnce ==
    \A i, k \in 1..Len(fired) :
        (fired[i].job = fired[k].job /\ fired[i].stale /\ fired[k].stale)
            => i = k

\* Both together: how often a job may fire (run_tick).
FiresAsOftenAsDue == FiresOncePerTime /\ DeletedFiresAtMostOnce

Overdue(j) ==
    /\ Enabled(j) /\ jobs[j].last # Never
    /\ \E t \in jobs[j].schedule : jobs[j].last < t /\ t <= minute

\* A job that has fired before and missed a scheduled time catches up, through
\* crashes, failed writes and late ticks (should_fire): it is overdue only
\* for a while, unless it has a guard, which may refuse it for ever.
OverdueCatchesUp ==
    \A j \in JobIds :
        (Overdue(j) /\ ~jobs[j].guard) ~> ~Overdue(j)

=============================================================================
