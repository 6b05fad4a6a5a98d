------------------------------- MODULE MCApps -------------------------------
(***************************************************************************)
(* Instances of PrivateServices, CircuitRouting, Gameroom, Registries and  *)
(* CliFiles: applications of splinter nodes, the routing of their          *)
(* messages, what the daemons keep and list for their clients, and what    *)
(* splinter-cli writes.  A behaviour is one of one of them, its subject,   *)
(* while the others stay as they start.                                    *)
(***************************************************************************)
EXTENDS PrivateServices

CONSTANTS
    RoutingNodes, Candidates, Services, MaxMessages, MaxEvents,
    MaxVotes, MaxMoves, MaxSubs, MaxFaults,
    Identities, Keys, Values, Threads, MaxWrites, MAX_LIMIT, DEFAULT_LIMIT, Limits, Registry, Filters, Tables,
    Names, MaxInvocations,
    None,
    Subjects  \* the components to check

VARIABLES
    circuit, committed, nodes, service_directory, net, sent, outcome, failed, happened,
    log, posted, commits, key, payload, submitted, move, answer,
    admin, checked, subs, room, proposal, members, votes, game, notifications, missed, faults,
    cached_nodes, file, request, writes, up, table, walk,
    crt, crt_key, registry, priv, pub, job, made, invocations, done, unsure,
    subject

Routing == INSTANCE CircuitRouting WITH Nodes <- RoutingNodes
Rooms == INSTANCE Gameroom
Lists == INSTANCE Registries
Cli == INSTANCE CliFiles

routing_vars == <<circuit, committed, nodes, service_directory, net, sent, outcome, failed, happened>>
room_vars ==
    <<log, posted, commits, key, payload, submitted, move, answer,
      admin, checked, subs, room, proposal, members, votes, game, notifications, missed, faults>>
list_vars == <<cached_nodes, file, request, writes, up, table, walk>>
cli_vars == <<crt, crt_key, registry, priv, pub, job, made, invocations, done, unsure>>

-----------------------------------------------------------------------------
(* PrivateServices *)

MCRoots == {<<1>>, <<2>>, <<1, 2>>, <<2, 1>>}
MCProposals == MCRoots \cup {<<v>> : v \in 0..U32 - 1}
MCVerifiers == [p \in Proposals |-> Nodes]

Xo(i, k, s) == [app |-> "xo", inputs |-> i, proposals |-> k, shutdown |-> s]
Counter(i, k, s) == [app |-> "counter", inputs |-> i, proposals |-> k, shutdown |-> s]

\* A batch at each of two services; two increments at one; a service that ends.
MCWorkloads ==
    {Xo({<<1, 1>>, <<2, 2>>}, 2, {}), Counter({<<1, 1>>, <<1, 2>>}, 2, {}), Counter({<<1, 1>>}, 1, {1})}
TwoBatches == {Xo({<<1, 1>>, <<2, 2>>}, 2, {})}

-----------------------------------------------------------------------------
(* CircuitRouting: circuits of nodes 1 and 2. *)

Standard == {<<"a", 0>>, <<"b", 0>>}
Member(n, e) == [node |-> n, endpoint |-> e]
Service(s, allowed) == [service |-> <<s, 0>>, allowed_nodes |-> allowed]
Circuit(m, roster) == [settings |-> "set", members |-> m, roster |-> roster]

Pair == <<Member(1, "e1"), Member(2, "e2")>>
Good == Circuit(Pair, <<Service("a", <<1>>), Service("b", <<2>>)>>)
Shapes == {
    Good,
    Circuit(Pair, <<Service("a", <<1, 2>>), Service("b", <<2>>)>>),
    Circuit(Pair, <<Service("a", <<>>), Service("b", <<2>>)>>),
    Circuit(<<Member(1, "e1")>>, <<Service("a", <<1>>), Service("b", <<2>>)>>),
    Circuit(Pair, <<Service("a", <<1>>), Service("a", <<2>>)>>),
    Circuit(Pair, <<>>),
    Circuit(<<Member(1, "e1"), Member(1, "e2")>>, <<Service("a", <<1>>)>>),
    Circuit(<<Member(1, "e1"), Member(2, "e1")>>, <<Service("a", <<1>>), Service("b", <<2>>)>>),
    Circuit(<<>>, <<Service("a", <<1>>)>>),
    [Good EXCEPT !.settings = "unset"]}

\* What the proofs about CircuitRouting take for granted.
ASSUME ShapesAssumption == Routing!WellFormed

-----------------------------------------------------------------------------
(* Registries: three nodes, two of which have the keys; no filter, one and two; tables of up to *)
(* four rows.                                                                                   *)

Node(i, v) == [identity |-> i, metadata |-> [k \in Keys |-> v]]
MCRegistry == {<<Node(1, 1), Node(2, None), Node(3, 1)>>}
AtLeastOne(k) == [key |-> k, op |-> ">=", value |-> 1]
MCFilters == {{}, {AtLeastOne("k")}, {AtLeastOne("k"), AtLeastOne("l")}}
MCTables ==
    {[i \in DOMAIN t |-> [id |-> i, match |-> t[i]]] : t \in UNION {[1..n -> BOOLEAN] : n \in 0..4}}

-----------------------------------------------------------------------------
(* CliFiles: a registry of two keys. *)

TwoNames == <<"alice", "bob">>

-----------------------------------------------------------------------------
AppsInit ==
    /\ subject \in Subjects
    /\ PrivateInit /\ Routing!Init /\ Rooms!Init /\ Lists!Init /\ Cli!Init
    /\ subject # "private" => workload = Counter({<<1, 1>>}, 1, {1})
    /\ subject # "routing" => circuit = Good
    /\ subject # "gameroom" => key = None
    /\ subject # "lists" => table = None

AppsNext ==
    /\ UNCHANGED subject
    /\ \/ /\ subject = "private" /\ PrivateNext
          /\ UNCHANGED routing_vars /\ UNCHANGED room_vars /\ UNCHANGED list_vars /\ UNCHANGED cli_vars
       \/ /\ subject = "routing" /\ Routing!Next
          /\ UNCHANGED privateVars /\ UNCHANGED room_vars /\ UNCHANGED list_vars /\ UNCHANGED cli_vars
       \/ /\ subject = "gameroom" /\ Rooms!Next
          /\ UNCHANGED privateVars /\ UNCHANGED routing_vars /\ UNCHANGED list_vars /\ UNCHANGED cli_vars
       \/ /\ subject = "lists" /\ Lists!Next
          /\ UNCHANGED privateVars /\ UNCHANGED routing_vars /\ UNCHANGED room_vars /\ UNCHANGED cli_vars
       \/ /\ (subject = "certs" /\ Cli!CertsNext) \/ (subject = "keys" /\ Cli!KeysNext)
          /\ UNCHANGED privateVars /\ UNCHANGED routing_vars /\ UNCHANGED room_vars /\ UNCHANGED list_vars

\* The dispatch loops of nodes run and services read their messages: see CircuitRouting.  No such
\* step is enabled in a behaviour of another subject, where no message is under way.
AppsSpec ==
    /\ AppsInit /\ [][AppsNext]_<<privateVars, routing_vars, room_vars, list_vars, cli_vars, subject>>
    /\ Routing!Fairness

-----------------------------------------------------------------------------
(* The properties, stated in the components' modules. *)

\* The directories, kept by every node for itself, never disagree on where a service of the
\* circuit is, and a service of the node itself has a peer ID.
DirectoriesAgree == Routing!DirectoriesAgree

\* What validate_circuit lets through, update_splinter_state can commit.
ValidCircuitsCommit == Routing!ValidCircuitsCommit

\* A message is dropped without an answer only after a disconnection or a restart.
NotDropped == Routing!NotDropped

\* Every message that a service sends is delivered, or answered with an error, or dropped.
MessagesEnd == Routing!MessagesEnd

\* When the gameroom daemon has handled all that there is, and no transaction failed, its tables
\* say what the admin events and the commits of the room's scabbard say.
TablesMatchLog == Rooms!TablesMatchLog

\* A client that follows the next links of a list to the end has been shown each item once: of
\* the nodes, with at most one filter.
WalkShowsEachOnce == Lists!WalkShowsEachOnce

\* Once "cert generate" succeeds, keys belong to their certificates and the CA signed them.
CertsMatch == Cli!CertsMatch

\* keys.yaml never names a key whose pair of files is not there.
RegistryHasPairs == Cli!RegistryHasPairs
=============================================================================
