CONSTANTS
    o1 = o1
    o2 = o2
    h1 = h1
    h2 = h2
    Nil = Nil
    Objs = {o1, o2}
    Handles = {h1, h2}
    QueueCap = 2
    MaxEvents = 3
    KafkaNamesSet = TRUE
    StreamCopies = TRUE
    StreamAssigns = FALSE
    BrokerRecovers = TRUE
    EventRows <- MCEventRows
SPECIFICATION Spec
SYMMETRY Symmetry
INVARIANT HandlesUsedSafely
