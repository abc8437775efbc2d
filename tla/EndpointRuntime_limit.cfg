\* The documented per-endpoint limit across a reload.
SPECIFICATION Spec
CONSTANTS
    k1 = k1
    o1 = o1  o2 = o2  o3 = o3
    w1 = w1  w2 = w2
    nullptr = nullptr
    Objects = {o1, o2, o3}
    Keys = {k1}
    Workers = {w1, w2}
    StreakCap = 2
    Configs <- OneSlotConfigs
    Thresholds <- OneThreshold
SYMMETRY Interchangeable
INVARIANTS ConcurrencyPerKey
