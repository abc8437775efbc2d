\* Three requests of every class at most; every order of arrivals and pops.
SPECIFICATION FairSchedule
CONSTANT MaxPending = 3
INVARIANTS BoundedOvertaking
PROPERTIES NoClassStarves
