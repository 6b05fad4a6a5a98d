SPECIFICATION NetSpec
CONSTANTS
    Nodes = {"a", "b"}
    Conns = {1, 2, 3, 4}
    Link <- ALink
    Workloads <- Submitting
    Subjects = {"peers"}
    MeshConns = {c1}
    Threads = {t1, t2}
    incoming_capacity = 1
    outgoing_capacity = 1
    MaxMessages = 2
    MaxBlocks = 3
    Orders <- DaemonOrders
    BufferSize = 3
    None = None
PROPERTIES
    HandlersReturn
CHECK_DEADLOCK FALSE
