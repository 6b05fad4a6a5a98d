SPECIFICATION ScabbardSpec
CONSTANTS
    Nodes = {1, 2}
    b1 = b1
    b2 = b2
    Batches = {b1, b2}
    Proposals <- AppliedOnce
    Verifiers <- AllNodes
    Proposers <- AllNodes
    NoProposal = NoProposal
    Clients <- OneServiceEach
    NoBatch = NoBatch
    MaxSubmissions = 2
    MaxCrashes = 1
    HistoryLimit = 1
    Faults = {"send"}
    StateFaults = {"merkle", "head", "receipts"}
INVARIANTS StatesAgree CommittedIsApplied
PROPERTIES CommitsTheProposal
