SPECIFICATION SystemSpec
CONSTANTS
    NPorts = 3
    MaxUnits = 2
    c1 = c1
    c2 = c2
    Clients = {c1, c2}
    NoClient = NoClient
    MaxSessions = 2
    MaxEvents = 3
    SqlKeys <- OneKey
SYMMETRY Interchangeable
CHECK_DEADLOCK FALSE
INVARIANTS PortsExact KeysFollowUnits DeletedOnlyIfOverlapping UnitsFollowChannels SessionsHaveChannels
