\* Two I/O loops, as in tcp_work.
SPECIFICATION Spec
CONSTANTS
    NThreads = 2
    MaxConns = 2
    MaxAnswers = 2
    LastNumber = 0
CHECK_DEADLOCK FALSE
INVARIANTS SessionNumbers AnswersInOrder SendsFindConnection ClosedOnce StopReachesSessions
