SPECIFICATION Spec
CONSTANTS
    Nodes = {1, 2, 3}
    Definitions <- AllDefinitions
    Id <- AllIds
    Members <- AllMembers
    Workloads <- TwoCoordinators
    None = None
INVARIANTS
    PendingChangesAreCurrent
CHECK_DEADLOCK FALSE
