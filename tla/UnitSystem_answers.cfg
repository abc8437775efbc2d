\* Two clients on one node: where the answers go.
SPECIFICATION SystemSpec
CONSTANTS
    NPorts = 3
    MaxUnits = 2
    c1 = c1
    c2 = c2
    Clients = {c1, c2}
    NoClient = NoClient
    MaxSessions = 2
    MaxEvents = 3
    SqlKeys = {}
CHECK_DEADLOCK FALSE
INVARIANTS AnswersReachAsker
