\* A session thread and two workers, all fair: every order of their steps, stop() at any moment.
SPECIFICATION FairSpec
CONSTANTS
    c1 = c1  c2 = c2  w1 = w1  w2 = w2
    Clients = {c1}
    Workers = {w1, w2}
    Untimed = {1}
    max_task_records = 1
    mock_mode = FALSE
    Priorities = {1, 9}
    Configs <- OneConfig
    MaxTasks = 2
INVARIANTS ServedOnce NoLostWakeup AtMostOneMissesStop RunningMeansServed MetricsBalance
PROPERTIES RecordsAdvance EveryRequestAnswered StopEnds
CHECK_DEADLOCK FALSE
