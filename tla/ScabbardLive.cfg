SPECIFICATION FairScabbard
CONSTANTS
    Nodes = {1, 2}
    b1 = b1
    b2 = b2
    Batches = {b1, b2}
    Proposals <- InOrder
    Verifiers <- AllNodes
    Proposers <- AllNodes
    NoProposal = NoProposal
    Clients <- AnyService
    NoBatch = NoBatch
    MaxSubmissions = 1
    MaxCrashes = 0
    HistoryLimit = 1
    Faults = {"create"}
    StateFaults = {}
PROPERTIES CommitsReachAll CoordinationEnds
