\* A backlog of the three classes, with reload between two settings: stale limits, and the order.
SPECIFICATION Spec
CONSTANTS
    c1 = c1  c2 = c2  w1 = w1  w2 = w2
    Clients = {c1}
    Workers = {w1}
    Untimed = {}
    max_task_records = 2
    mock_mode = FALSE
    Priorities = {1, 5, 9}
    Configs <- ReloadConfigs
    MaxTasks = 3
SYMMETRY Interchangeable
INVARIANTS AdmissionBounds
PROPERTIES ImplementsClassQueue
CHECK_DEADLOCK FALSE
