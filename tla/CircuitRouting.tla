---------------------------- MODULE CircuitRouting ----------------------------
(***************************************************************************)
(* SplinterState and the circuit message handlers (circuit/): which        *)
(* circuits may be committed, the directory of services that every node    *)
(* keeps for itself, and the routing of direct messages, admin messages    *)
(* and circuit errors by it.  A handler holds the lock on the state, so    *)
(* each is one step.                                                       *)
(***************************************************************************)
EXTENDS Naturals, Sequences, FiniteSets

CONSTANTS
    Nodes,
    Candidates,   \* circuit definitions, well formed or not
    Services,     \* the service IDs they use
    MaxMessages,  \* bound: messages sent by services
    MaxEvents,    \* bound: disconnections and restarts
    None

AdminServices == {<<"admin", n>> : n \in Nodes}  \* "admin::" and the ID of a node
AllServices == Services \cup AdminServices

\* Circuit definitions are lists of members and of services, each service with a list of nodes,
\* none of which need be sensible, but no service is named like an admin service; None is
\* neither a node nor the name of a connection.
WellFormed ==
    /\ Services \cap AdminServices = {} /\ None \notin Nodes
    /\ \A n \in Nodes : None # <<n>> /\ \A s \in AllServices : None # <<n, s>>
    /\ \A c \in Candidates :
          /\ \A i \in DOMAIN c.members : c.members[i].node \in Nodes
          /\ c.roster \in Seq([service : Services, allowed_nodes : Seq(Nodes)])

VARIABLES
    circuit,            \* the definition that the members agree on
    committed,          \* nodes with the circuit in their circuit directory
    nodes,              \* the nodes in each circuit directory, with the ID each entry has
    service_directory,  \* [Nodes -> [AllServices -> [node, peer] or None]]
    net,                \* messages under way
    sent,               \* number of messages sent (bounded)
    outcome,            \* what became of each (history)
    failed,             \* a commit has failed (history)
    happened            \* disconnections and restarts (bounded)

vars == <<circuit, committed, nodes, service_directory, net, sent, outcome, failed, happened>>

Range(s) == {s[i] : i \in DOMAIN s}
NoRepeats(s) == \A i, j \in DOMAIN s : s[i] = s[j] => i = j
MemberIds(c) == [i \in DOMAIN c.members |-> c.members[i].node]
ServiceIds(c) == [i \in DOMAIN c.roster |-> c.roster[i].service]

\* Mutant of validate_circuit: a service may have several allowed nodes.
ManyNodesAllowed(n, c) ==
    /\ c.settings = "set"
    /\ NoRepeats(MemberIds(c)) /\ n \in Range(MemberIds(c)) /\ c.roster # <<>>
    /\ \A i \in DOMAIN c.roster :
          /\ Len(c.roster[i].allowed_nodes) >= 1
          /\ Range(c.roster[i].allowed_nodes) \subseteq Range(MemberIds(c))
    /\ NoRepeats(ServiceIds(c))

\* Mutant of validate_circuit: the allowed node need not be a member.
StrangersAllowed(n, c) ==
    /\ c.settings = "set"
    /\ NoRepeats(MemberIds(c)) /\ n \in Range(MemberIds(c)) /\ c.roster # <<>>
    /\ \A i \in DOMAIN c.roster : Len(c.roster[i].allowed_nodes) = 1
    /\ NoRepeats(ServiceIds(c))

\* The settings are the types that must be set and the IDs that must not be empty.
validate_circuit(n, c) ==
    /\ c.settings = "set"
    /\ NoRepeats(MemberIds(c))
    /\ \A i, j \in DOMAIN c.members : c.members[i].endpoint = c.members[j].endpoint => i = j
    /\ n \in Range(MemberIds(c))
    /\ c.roster # <<>>
    /\ \A i \in DOMAIN c.roster :
          /\ Len(c.roster[i].allowed_nodes) = 1
          /\ Range(c.roster[i].allowed_nodes) \subseteq Range(MemberIds(c))
    /\ NoRepeats(ServiceIds(c))

\* Roster::contains, for the circuit that a message names.
InRoster(s, admin) == IF admin THEN s \in AdminServices ELSE s \in Range(ServiceIds(circuit))
\* The nodes that may have s, as node n is asked to connect it: itself, for an admin service
\* of any name.
AllowedNodes(n, s) ==
    IF s \in AdminServices THEN {n}
    ELSE LET i == CHOOSE i \in DOMAIN circuit.roster : circuit.roster[i].service = s
         IN Range(circuit.roster[i].allowed_nodes)

\* The places in the roster of the services that node n may not have.
Remote(n) == {i \in DOMAIN circuit.roster : n \notin Range(circuit.roster[i].allowed_nodes)}

\* The directory with an entry for every service of the circuit that is on another node.
\* The ID of the node is that of its entry in the circuit directory.
WithRemote(n, dir, ids) ==
    [s \in AllServices |->
        LET i == {i \in Remote(n) : circuit.roster[i].service = s}
            last == CHOOSE k \in i : \A j \in i : j =< k
        IN IF i = {} THEN dir[s]
           ELSE [node |-> ids[Head(circuit.roster[last].allowed_nodes)], peer |-> None]]

-----------------------------------------------------------------------------
(* Circuits. *)

\* CircuitBuilder::build, and the settings that update_splinter_state converts.
Builds(c) == c.settings = "set" /\ c.members # <<>>

\* update_splinter_state, after the members have agreed on the circuit: fails, with the
\* circuit in the directory, when a service's node is not among the nodes.
update_splinter_state(n) ==
    LET ids == [m \in Nodes |-> IF m \in Range(MemberIds(circuit)) THEN m ELSE nodes[n][m]]
        missing == {i \in Remote(n) : \/ circuit.roster[i].allowed_nodes = <<>>
                                      \/ ids[Head(circuit.roster[i].allowed_nodes)] = None}
    IN /\ n \notin committed
       /\ \A m \in Range(MemberIds(circuit)) : validate_circuit(m, circuit)
       /\ n \in Range(MemberIds(circuit))
       /\ committed' = committed \cup {n}
       /\ nodes' = [nodes EXCEPT ![n] = ids]
       /\ failed' = (failed \/ missing # {} \/ ~ Builds(circuit))
       /\ service_directory' =
            IF missing # {} THEN service_directory
            ELSE [service_directory EXCEPT ![n] = WithRemote(n, @, ids)]
       /\ UNCHANGED <<circuit, net, sent, outcome, happened>>

\* Mutant of Rebuilt: the node is taken as it was read, without its ID.
AsRead(n) == [m \in Nodes |-> IF nodes[n][m] = None THEN None ELSE 0]

\* add_services_to_directory: the ID of a node is not stored, so it is rebuilt.
Rebuilt(n) == nodes[n]

\* The daemon starts again: circuits and nodes are read back, the services that were
\* connected are gone, and the directory has those of other nodes.
Restart(n) ==
    /\ happened < MaxEvents
    /\ happened' = happened + 1
    /\ service_directory' =
         [service_directory EXCEPT ![n] =
            IF n \in committed THEN WithRemote(n, [s \in AllServices |-> None], Rebuilt(n))
            ELSE [s \in AllServices |-> None]]
    /\ UNCHANGED <<circuit, committed, nodes, net, sent, outcome, failed>>

-----------------------------------------------------------------------------
(* Services connect and disconnect: ServiceConnectRequestHandler and       *)
(* ServiceDisconnectRequestHandler.  Connections are named by their peers: *)
(* <<n>> is another node, <<n, s>> a service at node n.                    *)

Exists(n, s) == s \in AdminServices \/ n \in committed
Peer(n, s) == <<n, s>>

Allowed(n, s) == n \in AllowedNodes(n, s)

ServiceConnect(n, s) ==
    /\ Exists(n, s) /\ InRoster(s, s \in AdminServices)
    /\ service_directory[n][s] = None
    /\ Allowed(n, s)
    /\ service_directory' = [service_directory EXCEPT ![n][s] = [node |-> n, peer |-> Peer(n, s)]]
    /\ UNCHANGED <<circuit, committed, nodes, net, sent, outcome, failed, happened>>

\* Whoever asks, and wherever the service is, its entry goes.
ServiceDisconnect(n, s) ==
    /\ happened < MaxEvents
    /\ Exists(n, s) /\ InRoster(s, s \in AdminServices)
    /\ service_directory[n][s] # None
    /\ happened' = happened + 1
    /\ service_directory' = [service_directory EXCEPT ![n][s] = None]
    /\ UNCHANGED <<circuit, committed, nodes, net, sent, outcome, failed>>

-----------------------------------------------------------------------------
(* Messages. *)

Message(kind, to, source, m) ==
    [id |-> m.id, kind |-> kind, to |-> to, source |-> source, sender |-> m.sender,
     recipient |-> m.recipient, hops |-> m.hops]
Ends(m, what) == outcome' = [outcome EXCEPT ![m.id] = what]
\* Mutant of CircuitError: the error is left to the directory of this node.
ErrorByDirectory(n, m) == net' = (net \ {m}) \cup {Message("error", <<n>>, <<n>>, [m EXCEPT !.hops = 0])}

CircuitError(n, m) == net' = (net \ {m}) \cup {Message("error", m.source, <<n>>, [m EXCEPT !.hops = 0])}
Forward(n, m, to) == net' = (net \ {m}) \cup {Message(m.kind, to, <<n>>, [m EXCEPT !.hops = @ + 1])}

\* A service that may be connected sends a message to its node, in its own circuit: an admin
\* message if that is the admin circuit.
Send(n, s, r) ==
    /\ sent < MaxMessages
    /\ s # r
    /\ Exists(n, s) /\ InRoster(s, s \in AdminServices) /\ Allowed(n, s)
    /\ sent' = sent + 1
    /\ net' = net \cup {[id |-> sent + 1, kind |-> IF s \in AdminServices THEN "admin" ELSE "direct",
                         to |-> <<n>>, source |-> Peer(n, s), sender |-> s, recipient |-> r, hops |-> 0]}
    /\ UNCHANGED <<circuit, committed, nodes, service_directory, outcome, failed, happened>>

\* To the service when it is on this node, to its node otherwise.
NextHop(n, entry) == IF entry.node = n THEN entry.peer ELSE <<entry.node>>

\* CircuitDirectMessageHandler.
HandleDirect(n, m) ==
    LET recipient == service_directory[n][m.recipient]
    IN /\ m \in net /\ m.to = <<n>> /\ m.kind = "direct"
       /\ IF \/ n \notin committed
             \/ ~ InRoster(m.sender, FALSE)
             \/ service_directory[n][m.sender] = None
             \/ ~ InRoster(m.recipient, FALSE)
             \/ recipient = None
          THEN CircuitError(n, m) /\ UNCHANGED outcome
          ELSE IF NextHop(n, recipient) = None
          THEN net' = net \ {m} /\ Ends(m, "dropped")
          ELSE Forward(n, m, NextHop(n, recipient)) /\ UNCHANGED outcome
       /\ UNCHANGED <<circuit, committed, nodes, service_directory, sent, failed, happened>>

\* AdminDirectMessageHandler, for admin services and in a circuit that exists: the name of an
\* admin service says where it is.
HandleAdmin(n, m) ==
    /\ m \in net /\ m.to = <<n>> /\ m.kind = "admin"
    /\ IF m.sender \in AdminServices /\ m.recipient \in AdminServices /\ Exists(n, m.sender)
       THEN Forward(n, m, IF m.recipient[2] # n THEN <<m.recipient[2]>> ELSE Peer(n, m.recipient))
       ELSE CircuitError(n, m)
    /\ UNCHANGED <<circuit, committed, nodes, service_directory, sent, outcome, failed, happened>>

\* CircuitErrorHandler: to the sender of the message that failed, if it is known.
HandleError(n, m) ==
    LET entry == service_directory[n][m.sender]
    IN /\ m \in net /\ m.to = <<n>> /\ m.kind = "error"
       /\ IF entry = None \/ (entry.node = n /\ entry.peer = None)
          THEN net' = net \ {m} /\ Ends(m, "dropped")
          ELSE Forward(n, m, NextHop(n, entry)) /\ UNCHANGED outcome
       /\ UNCHANGED <<circuit, committed, nodes, service_directory, sent, failed, happened>>

\* A service reads a message from its connection.
Deliver(m) ==
    /\ m \in net /\ m.to \in {Peer(n, s) : n \in Nodes, s \in AllServices}
    /\ net' = net \ {m}
    /\ Ends(m, IF m.kind = "error" THEN "error" ELSE "delivered")
    /\ UNCHANGED <<circuit, committed, nodes, service_directory, sent, failed, happened>>

-----------------------------------------------------------------------------
Init ==
    /\ circuit \in Candidates
    /\ committed = {}
    /\ nodes = [n \in Nodes |-> [m \in Nodes |-> None]]
    /\ service_directory = [n \in Nodes |-> [s \in AllServices |-> None]]
    /\ net = {} /\ sent = 0
    /\ outcome = [i \in 1..MaxMessages |-> "none"]
    /\ failed = FALSE
    /\ happened = 0

Handle(m) ==
    \/ Deliver(m)
    \/ \E n \in Nodes : HandleDirect(n, m) \/ HandleAdmin(n, m) \/ HandleError(n, m)

Next ==
    \/ \E n \in Nodes :
         \/ update_splinter_state(n)
         \/ Restart(n)
         \/ \E s \in AllServices : ServiceConnect(n, s) \/ ServiceDisconnect(n, s)
         \/ \E s, r \in AllServices : Send(n, s, r)
    \/ \E m \in net : Handle(m)

Spec == Init /\ [][Next]_vars

\* The dispatch loops of the nodes keep running, and services read their messages.
Fairness == WF_vars(\E m \in net : Handle(m))

-----------------------------------------------------------------------------
(* Properties. *)

\* "A peer id will always be set on a service that is connected to the local node", as two
\* handlers say where they drop a message for want of one.
LocalServicesHavePeers ==
    \A n \in Nodes, s \in AllServices :
        service_directory[n][s] # None /\ service_directory[n][s].node = n
        => service_directory[n][s].peer # None

\* The directories, kept by every node for itself, never disagree on where a service of the
\* circuit is: connect and disconnect requests, commits and restarts at any node included.  And
\* a service that a node has as its own, admin services too, can be sent to.  Where an admin
\* service is, they need not agree: any node accepts one of any name.
DirectoriesAgree ==
    /\ LocalServicesHavePeers
    /\ \A n, m \in Nodes, s \in Services :
           service_directory[n][s] # None /\ service_directory[m][s] # None
           => service_directory[n][s].node = service_directory[m][s].node

\* What validate_circuit lets through can be committed: the errors of
\* update_splinter_state that "should never happen" do not.
ValidCircuitsCommit == ~ failed

\* Every message that a service sends is delivered, or answered with an error, or dropped.
MessagesEnd ==
    \A i \in 1..MaxMessages : sent >= i ~> outcome[i] # "none"

\* A message is dropped without an answer only after a disconnection or a restart.
NotDropped == \A i \in 1..MaxMessages : outcome[i] = "dropped" => happened > 0
=============================================================================
