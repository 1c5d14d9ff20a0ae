CONSTANTS
    o1 = o1
    o2 = o2
    h1 = h1
    h2 = h2
    Nil = Nil
    Objs = {o1, o2}
    Handles = {h1, h2}
    QueueCap = 2
    MaxEvents = 3
    KafkaNamesSet = TRUE
    StreamCopies = FALSE
    StreamAssigns = FALSE
    BrokerRecovers = TRUE
    EventRows <- MCEventRows
SPECIFICATION Spec
INVARIANT TypeOK EventPayloadIsWireFormat
PROPERTY TeardownCompletes RefinesStreamSink
