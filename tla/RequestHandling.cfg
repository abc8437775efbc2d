\* Every kind of request, every outcome of every attempt, deadline and stop at any moment.
SPECIFICATION FairSpec
CONSTANTS
    Requests <- EveryRequest
    MaxPieces = 2
INVARIANTS OneCoherentOutput OutcomeAgrees
PROPERTIES Terminates ImplementsReply
CHECK_DEADLOCK FALSE
