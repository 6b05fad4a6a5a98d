SPECIFICATION MCSpec
CONSTANTS
    Nodes = {1, 2, 3}
    p1 = p1
    p2 = p2
    p3 = p3
    Proposals = {p1, p2, p3}
    Verifiers <- Groups
    Proposers <- OneEach
    NoProposal = NoProposal
    Faults = {"check", "accept", "reject", "create", "send", "stop"}
INVARIANTS IInv Agreement AcceptedOnlyIfAllValid
PROPERTIES EvaluationEndsInDecision ImplementsAtomicCommit
