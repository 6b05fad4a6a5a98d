SPECIFICATION HostsSpec
CONSTANTS
    Admin = "admin"
    Orchestrated = {"s1", "s2"}
    capacity = 1
    Workloads <- Loads
    EventReaders = {c1}
    Types = {x, y}
    Bound = 2
    CacheSize = 1
    MaxEvents = 3
    MaxClock = 3
    WsClients = {"a", "b"}
    Reconnecting = {"a"}
    Restarting = {"b"}
    reconnect_limit = 1
    MaxFutures = 3
    None = None
    Subjects = {"services", "events", "state", "client"}
INVARIANTS
    CalledWhileStarted
    ShownInOrder
    NothingOwedIsLost
PROPERTIES
    CallsReturn
    OrphansClose
    HandlesReturn
CHECK_DEADLOCK FALSE
