CONSTANTS
    t1 = t1  t2 = t2  k1 = k1  k2 = k2  c1 = c1  c2 = c2  v1 = v1  v2 = v2
    Nil = Nil
    Threads = {t1}
    Keys = {k1, k2}
    Cols = {c1, c2}
    Vals = {v1, v2}
    MaxCalls = 1
    MaxWrites = 3
    MaxClock = 1
    DisableTimestamps = FALSE
    BackendMayFail = FALSE
    AllowGenSwap = TRUE
    PartialWrites = TRUE
    AssignMode = "any"
SPECIFICATION Spec
PROPERTY TimestampsIncrease
