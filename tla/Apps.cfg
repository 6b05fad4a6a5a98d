SPECIFICATION AppsSpec
CONSTANTS
    Nodes = {1, 2}
    Proposals <- MCProposals
    Verifiers <- MCVerifiers
    Proposers <- MCVerifiers
    NoProposal = NoProposal
    Faults = {"check"}
    XoRoots <- MCRoots
    NoBatch = NoBatch
    U32 = 4
    Workloads <- MCWorkloads
    RoutingNodes = {1, 2}
    Candidates <- Shapes
    Services <- Standard
    MaxMessages = 1
    MaxEvents = 2
    MaxVotes = 1
    MaxMoves = 2
    MaxSubs = 2
    MaxFaults = 1
    Identities = {1, 2, 4}
    Keys = {"k", "l"}
    Values = {1}
    Threads = {t1, t2}
    MaxWrites = 2
    MAX_LIMIT = 3
    DEFAULT_LIMIT = 2
    Limits = {1, 2, 4}
    Registry <- MCRegistry
    Filters <- MCFilters
    Tables <- MCTables
    Names <- TwoNames
    MaxInvocations = 4
    None = None
    Subjects = {"private", "routing", "gameroom", "lists", "certs", "keys"}
INVARIANTS
    XoNeverForks
    DirectoriesAgree
    ValidCircuitsCommit
    NotDropped
    TablesMatchLog
    WalkShowsEachOnce
    CertsMatch
    RegistryHasPairs
PROPERTIES
    CommitsTheProposal
    MessagesEnd
CHECK_DEADLOCK FALSE
