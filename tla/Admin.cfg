SPECIFICATION Spec
CONSTANTS
    Nodes = {1, 2, 3}
    Definitions <- AllDefinitions
    Id <- AllIds
    Members <- AllMembers
    Workloads <- Agreeing
    None = None
INVARIANTS
    CircuitsAreVotedFor
    MembersToldTheSame
    VerifiersAreMembers
    ServicesStartTogether
    ProposedAmongPeers
    CommittedCircuitsRun
PROPERTIES
    CircuitsStay
CHECK_DEADLOCK FALSE
