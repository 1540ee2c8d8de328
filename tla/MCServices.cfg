CONSTANTS
    CronAgents = {agent}
    Schedules <- MCSchedules
    MaxJobsPerAgent = 2
    MaxJobs = 2
    MaxMinute = 3
    MaxOwed = 2
    MaxCronFaults = 1
    Turns = {t1, t2}
    NumProfiles = 2
    MaxGrants = 2
    MaxGeneration = 2
    MaxTokenFaults = 1
    Commands = {c1, c2, c3}
    MaxPid = 3
    Writers = {w1, w2}
    RetainDaily = 1
    MaxDay = 3
    MaxLines = 3
    MaxFiles = 4
    CallSlots = {call1}
    ToolUsers = {"ann", "bob", "system"}
    ToolNames = {"edit", "exec", "web_fetch", "summon", "clock"}
SPECIFICATION FairSpec
INVARIANTS FiresAsOftenAsDue HolderSeesFile StoredIsRefreshable ServiceIsManaged EveryLineIsFiled RunsAreEntitled
PROPERTIES OverdueCatchesUp EveryCallReturns
CHECK_DEADLOCK FALSE
