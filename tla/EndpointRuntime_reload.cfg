\* Two workers call one server while reloads replace its object and change the thresholds.
SPECIFICATION FairSpec
CONSTANTS
    k1 = k1
    o1 = o1  o2 = o2  o3 = o3
    w1 = w1  w2 = w2
    nullptr = nullptr
    Objects = {o1, o2}
    Keys = {k1}
    Workers = {w1, w2}
    StreakCap = 2
    Configs <- OneSlotConfigs
    Thresholds <- SomeThresholds
INVARIANTS InflightExact CallsBounded VerdictsFollowStreaks
PROPERTIES BlockedUntilEarned Recovers
