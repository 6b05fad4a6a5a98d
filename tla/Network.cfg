SPECIFICATION NetSpec
CONSTANTS
    Nodes = {"a", "b"}
    Conns = {1, 2, 3, 4}
    Link <- ALink
    Workloads <- Handshakes
    Subjects = {"peers", "mesh", "transports"}
    MeshConns = {c1}
    Threads = {t1, t2}
    incoming_capacity = 1
    outgoing_capacity = 1
    MaxMessages = 2
    MaxBlocks = 3
    Orders <- DaemonOrders
    BufferSize = 3
    None = None
INVARIANTS
    AuthorizedIsPeer
    NothingLost
    RemoveFinds
PROPERTIES
    HandshakeCompletes
    GoneIsForgotten
    AcceptedIsWritten
    SentIsReceived
CHECK_DEADLOCK FALSE
