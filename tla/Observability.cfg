SPECIFICATION MetricsSpec
CONSTANTS
    Observers = {1, 2}
    MaxSamples = 2
    MaxReloads = 2
CHECK_DEADLOCK FALSE
INVARIANTS OnePlace OnlyLateLeft EnabledIsServed
PROPERTIES FlushedInTheEnd
