----------------------- MODULE CircuitRoutingTheorems -----------------------
(***************************************************************************)
(* The directories that nodes keep for themselves agree, circuits that     *)
(* validate_circuit lets through can be committed, and no message goes     *)
(* missing while services stay: for all nodes, services and circuits, and  *)
(* for any number of messages, disconnections and restarts.                *)
(***************************************************************************)
EXTENDS CircuitRouting, TLAPS

\* What a leaf is tried with, unless it names its provers.
USE SMTT(20), ZenonT(20), SMTT(30)

IsMember(n) == n \in Range(MemberIds(circuit))

\* The circuit has members, and the node of each has found it valid.
Agreed == (\E n \in Nodes : IsMember(n)) /\ \A n \in Range(MemberIds(circuit)) : validate_circuit(n, circuit)

\* Service s may be at node h: an admin service anywhere, others where the roster says.
At(s, h) ==
    \/ s \in AdminServices
    \/ \E i \in DOMAIN circuit.roster :
          circuit.roster[i].service = s /\ circuit.roster[i].allowed_nodes = <<h>>

Connections == {<<n>> : n \in Nodes} \cup {Peer(n, s) : n \in Nodes, s \in AllServices}
Entry == [node : Nodes, peer : Connections \cup {None}]

\* What the directory of n says of s is so, and where s is at n itself, n knows its connection.
EntryTrue(n, s) ==
    /\ At(s, service_directory[n][s].node)
    /\ service_directory[n][s].node = n => service_directory[n][s].peer = Peer(n, s)
    /\ s \in Services => committed # {}

DirectoryInv ==
    /\ WellFormed
    /\ circuit \in Candidates
    /\ committed # {} => Agreed
    /\ \A n \in committed : IsMember(n)
    /\ nodes \in [Nodes -> [Nodes -> Nodes \cup {None}]]
    /\ \A n \in committed, m \in Nodes : IsMember(m) => nodes[n][m] = m
    /\ service_directory \in [Nodes -> [AllServices -> Entry \cup {None}]]
    /\ \A n \in Nodes, s \in AllServices : service_directory[n][s] # None => EntryTrue(n, s)
    /\ failed = FALSE

\* Service s is connected to node h.
Local(h, s) == service_directory[h][s] # None /\ service_directory[h][s].node = h

ToService(m) == \E n \in Nodes, s \in AllServices : m.to = Peer(n, s)

\* A direct message goes from its sender to the node where that belongs, on to the node of its
\* recipient, and then to the recipient.
DirectTrue(m) ==
    \/ ToService(m)
    \/ \E n \in Nodes : m.to = <<n>> /\ m.source = Peer(n, m.sender) /\ At(m.sender, n)
    \/ \E n, h \in Nodes : /\ m.to = <<n>> /\ At(m.recipient, n)
                           /\ m.source = <<h>> /\ (happened = 0 => Local(h, m.sender))

\* An error goes to a service, or to the node that the service of the failed message is connected to.
ErrorTrue(m) ==
    \/ ToService(m)
    \/ \E h \in Nodes : m.to = <<h>> /\ (happened = 0 => Local(h, m.sender))

MessageType ==
    [id : Nat, kind : {"direct", "admin", "error"}, to : Connections, source : Connections,
     sender : AllServices, recipient : AllServices, hops : Nat]

Outcomes == [1..MaxMessages -> {"none", "delivered", "error", "dropped"}]

\* An admin message to another service has not left the node of its sender.
AdminTrue(m) ==
    m.recipient \in AdminServices \/ \E n \in Nodes, s \in AllServices : m.source = Peer(n, s)

\* Messages of a circuit come from its services, admin messages from admin services, and all
\* are on their way.
Proper(m) ==
    /\ m.kind = "direct" => DirectTrue(m) /\ m.sender \in Services /\ committed # {}
    /\ m.kind = "error" => ErrorTrue(m)
    /\ m.kind = "admin" => AdminTrue(m) /\ m.sender \in AdminServices

MessageInv ==
    /\ happened \in Nat /\ sent \in Nat
    /\ outcome \in Outcomes
    /\ net \subseteq MessageType
    /\ \A m \in net : Proper(m)
    /\ NotDropped

RoutingInv == DirectoryInv /\ MessageInv

-----------------------------------------------------------------------------
(* Circuits that all members have found valid. *)

\* A list of one.
LEMMA OneLong ==
    ASSUME NEW S, NEW a \in Seq(S), Len(a) = 1
    PROVE  a = <<a[1]>> /\ a[1] \in S /\ 1 \in DOMAIN a
<1>1. a = <<a[1]>>
  OBVIOUS
<1>2. a[1] \in S /\ 1 \in DOMAIN a
  OBVIOUS
<1> QED BY <1>1, <1>2

\* Members are nodes.
LEMMA MembersAreNodes ==
    ASSUME WellFormed, circuit \in Candidates, NEW n, IsMember(n)
    PROVE  n \in Nodes
<1>1. PICK i \in DOMAIN circuit.members : n = circuit.members[i].node
  BY Zenon DEF IsMember, Range, MemberIds
<1> QED BY Zenon, <1>1 DEF WellFormed

\* The roster of any circuit definition.
LEMMA RosterFacts ==
    ASSUME WellFormed, circuit \in Candidates, NEW i \in DOMAIN circuit.roster
    PROVE  /\ i \in Nat /\ circuit.roster[i].service \in Services
           /\ circuit.roster[i].allowed_nodes \in Seq(Nodes)
<1> DEFINE S == [service : Services, allowed_nodes : Seq(Nodes)]
           roster == circuit.roster
<1>1. roster \in Seq(S)
  BY Zenon DEF WellFormed
<1> HIDE DEF S, roster
<1>2. \A k \in DOMAIN roster : k \in Nat /\ roster[k] \in S
  BY <1>1
<1>3. i \in Nat /\ circuit.roster[i] \in S
  BY Zenon, <1>2 DEF roster
<1> QED BY <1>3 DEF S

\* The services of an agreed circuit have one entry each, and one node each, a member's.
LEMMA AgreedFacts ==
    ASSUME WellFormed, circuit \in Candidates, Agreed
    PROVE  /\ circuit.settings = "set" /\ circuit.members # <<>>
           /\ \A i \in DOMAIN circuit.roster :
                 /\ i \in Nat /\ circuit.roster[i].service \in Services
                 /\ \E h \in Nodes : IsMember(h) /\ circuit.roster[i].allowed_nodes = <<h>>
           /\ \A i, j \in DOMAIN circuit.roster : circuit.roster[i].service = circuit.roster[j].service => i = j
<1>1. PICK n \in Nodes : IsMember(n) /\ validate_circuit(n, circuit)
  BY DEF Agreed, IsMember
<1>2. circuit.settings = "set"
  BY Zenon, <1>1 DEF validate_circuit
<1>3. circuit.members # <<>>
  <2>1. PICK i \in DOMAIN circuit.members : TRUE
    BY Zenon, <1>1 DEF IsMember, Range, MemberIds
  <2>2. DOMAIN <<>> = {}
    OBVIOUS
  <2> QED BY Zenon, <2>1, <2>2
<1>4. ASSUME NEW i \in DOMAIN circuit.roster
      PROVE  /\ i \in Nat /\ circuit.roster[i].service \in Services
             /\ \E h \in Nodes : IsMember(h) /\ circuit.roster[i].allowed_nodes = <<h>>
  <2> DEFINE a == circuit.roster[i].allowed_nodes
  <2>1. i \in Nat /\ circuit.roster[i].service \in Services /\ a \in Seq(Nodes)
    BY Zenon, RosterFacts
  <2>2. Len(a) = 1 /\ Range(a) \subseteq Range(MemberIds(circuit))
    BY <1>1 DEF validate_circuit
  <2> HIDE DEF a
  <2>3. a = <<a[1]>> /\ a[1] \in Nodes /\ 1 \in DOMAIN a
    BY Zenon, <2>1, <2>2, OneLong
  <2>4. IsMember(a[1])
    BY <2>2, <2>3 DEF IsMember, Range
  <2> QED BY <2>1, <2>3, <2>4 DEF a
<1>5. ASSUME NEW i \in DOMAIN circuit.roster, NEW j \in DOMAIN circuit.roster,
             circuit.roster[i].service = circuit.roster[j].service
      PROVE  i = j
  BY Zenon, <1>1, <1>5 DEF validate_circuit, NoRepeats, ServiceIds
<1> QED BY <1>2, <1>3, <1>4, <1>5

\* So that each is at one node.
LEMMA AtOnce ==
    ASSUME WellFormed, circuit \in Candidates, Agreed, NEW s \in Services, NEW h \in Nodes, NEW k \in Nodes,
           At(s, h), At(s, k)
    PROVE  h = k
<1>1. s \notin AdminServices
  BY DEF WellFormed
<1>2. PICK i \in DOMAIN circuit.roster : circuit.roster[i].service = s /\ circuit.roster[i].allowed_nodes = <<h>>
  BY <1>1 DEF At
<1>3. PICK j \in DOMAIN circuit.roster : circuit.roster[j].service = s /\ circuit.roster[j].allowed_nodes = <<k>>
  BY <1>1 DEF At
<1>4. i = j
  BY <1>2, <1>3, AgreedFacts
<1> QED BY <1>2, <1>3, <1>4

\* A service that the connect handler allows at a node belongs there.
LEMMA AllowedAt ==
    ASSUME DirectoryInv, NEW n \in Nodes, NEW s \in AllServices,
           Exists(n, s), InRoster(s, s \in AdminServices), Allowed(n, s)
    PROVE  At(s, n) /\ (s \in Services => committed # {})
<1>1. CASE s \in AdminServices
  BY <1>1 DEF At, DirectoryInv, WellFormed
<1>2. CASE s \notin AdminServices
  <2>1. n \in committed /\ Agreed
    BY <1>2 DEF Exists, DirectoryInv
  <2>2. PICK i \in DOMAIN circuit.roster : circuit.roster[i].service = s
    BY Zenon, <1>2 DEF InRoster, Range, ServiceIds
  <2> DEFINE j == CHOOSE x \in DOMAIN circuit.roster : circuit.roster[x].service = s
  <2>3. j \in DOMAIN circuit.roster /\ circuit.roster[j].service = s
    BY <2>2
  <2>4. n \in Range(circuit.roster[j].allowed_nodes)
    BY <1>2 DEF Allowed, AllowedNodes
  <2> HIDE DEF j
  <2>5. PICK h \in Nodes : circuit.roster[j].allowed_nodes = <<h>>
    BY <2>1, <2>3, AgreedFacts DEF DirectoryInv
  <2>6. n = h
    BY <2>4, <2>5 DEF Range
  <2> QED BY <2>1, <2>3, <2>5, <2>6 DEF At
<1> QED BY <1>1, <1>2

\* What WithRemote adds for a node are services that belong at others.
LEMMA RemoteFacts ==
    ASSUME WellFormed, circuit \in Candidates, Agreed, NEW n \in Nodes, NEW dir, NEW ids, NEW s \in AllServices,
           \A m \in Nodes : IsMember(m) => ids[m] = m
    PROVE  \/ WithRemote(n, dir, ids)[s] = dir[s]
           \/ /\ s \in Services
              /\ \E h \in Nodes \ {n} : WithRemote(n, dir, ids)[s] = [node |-> h, peer |-> None] /\ At(s, h)
<1> DEFINE places == {i \in Remote(n) : circuit.roster[i].service = s}
           last == CHOOSE k \in places : \A j \in places : j =< k
<1>1. WithRemote(n, dir, ids)[s] =
        IF places = {} THEN dir[s] ELSE [node |-> ids[Head(circuit.roster[last].allowed_nodes)], peer |-> None]
  BY Zenon DEF WithRemote
<1>2. CASE places = {}
  BY <1>1, <1>2
<1>3. CASE places # {}
  <2>1. PICK k \in places : TRUE
    BY <1>3
  <2>2. k \in DOMAIN circuit.roster /\ n \notin Range(circuit.roster[k].allowed_nodes) /\ circuit.roster[k].service = s
    BY <2>1 DEF Remote
  <2>3. \A j \in places : j = k
    BY <2>2, AgreedFacts DEF Remote
  <2>4. k \in Nat
    BY <2>2, AgreedFacts
  <2>5. last = k
    <3>1. \A j \in places : j =< k
      BY <2>3, <2>4
    <3>2. last \in places
      BY Zenon, <2>1, <3>1
    <3> QED BY Zenon, <2>3, <3>2
  <2>6. PICK h \in Nodes : IsMember(h) /\ circuit.roster[k].allowed_nodes = <<h>>
    BY <2>2, AgreedFacts
  <2>7. h # n
    BY <2>2, <2>6 DEF Range
  <2>8. WithRemote(n, dir, ids)[s] = [node |-> h, peer |-> None]
    <3> HIDE DEF places, last
    <3>1. ids[Head(circuit.roster[last].allowed_nodes)] = h
      BY <2>5, <2>6
    <3> QED BY <1>1, <1>3, <3>1
  <2>9. At(s, h) /\ s \in Services
    BY <2>2, <2>6, AgreedFacts DEF At
  <2> QED BY <2>7, <2>8, <2>9
<1> QED BY <1>2, <1>3

-----------------------------------------------------------------------------
(* The directories. *)

\* An entry that was true stays true where entries of n other than s are as they were.
LEMMA EntryStays ==
    ASSUME DirectoryInv, NEW n \in Nodes, NEW s \in AllServices, service_directory'[n][s] # None,
           service_directory'[n][s] = service_directory[n][s], UNCHANGED circuit, committed \subseteq committed'
    PROVE  EntryTrue(n, s)'
<1>1. EntryTrue(n, s)
  BY DEF DirectoryInv
<1> QED BY <1>1 DEF EntryTrue, At, Peer

\* A commit adds the services of other nodes; none of its errors is met.
LEMMA UpdateDirectory ==
    ASSUME DirectoryInv, NEW n \in Nodes, update_splinter_state(n)
    PROVE  DirectoryInv'
<1> DEFINE ids == [m \in Nodes |-> IF m \in Range(MemberIds(circuit)) THEN m ELSE nodes[n][m]]
           missing == {i \in Remote(n) : \/ circuit.roster[i].allowed_nodes = <<>>
                                         \/ ids[Head(circuit.roster[i].allowed_nodes)] = None}
<1>1. /\ IsMember(n) /\ committed' = committed \cup {n} /\ UNCHANGED circuit
      /\ \A m \in Range(MemberIds(circuit)) : validate_circuit(m, circuit)
      /\ nodes' = [nodes EXCEPT ![n] = ids]
      /\ failed' = (failed \/ missing # {} \/ ~ Builds(circuit))
      /\ service_directory' = IF missing # {} THEN service_directory
                              ELSE [service_directory EXCEPT ![n] = WithRemote(n, @, ids)]
  BY Zenon DEF update_splinter_state, IsMember
<1>2. Agreed /\ WellFormed /\ circuit \in Candidates
  BY Zenon, <1>1 DEF Agreed, DirectoryInv
<1>3. ids \in [Nodes -> Nodes \cup {None}] /\ \A m \in Nodes : IsMember(m) => ids[m] = m
  BY DEF DirectoryInv, IsMember
<1>4. missing = {}
  <2> SUFFICES ASSUME NEW i \in missing PROVE FALSE
    OBVIOUS
  <2>1. i \in DOMAIN circuit.roster
    BY DEF Remote
  <2>2. PICK h \in Nodes : IsMember(h) /\ circuit.roster[i].allowed_nodes = <<h>>
    BY <1>2, <2>1, AgreedFacts
  <2>3. ids[Head(circuit.roster[i].allowed_nodes)] = h
    BY <1>3, <2>2
  <2>4. circuit.roster[i].allowed_nodes # <<>>
    BY <2>2
  <2> QED BY <1>2, <2>3, <2>4 DEF WellFormed
<1> HIDE DEF missing, ids
<1>5. failed' = FALSE
  <2>1. Builds(circuit)
    BY <1>2, AgreedFacts DEF Builds
  <2> QED BY Zenon, <1>1, <1>4, <2>1 DEF DirectoryInv
<1>6. service_directory' = [service_directory EXCEPT ![n] = WithRemote(n, @, ids)]
  BY <1>1, <1>4
<1>7. ASSUME NEW s \in AllServices
      PROVE  /\ WithRemote(n, service_directory[n], ids)[s] \in Entry \cup {None}
             /\ service_directory'[n][s] # None => EntryTrue(n, s)'
  <2>1. service_directory'[n][s] = WithRemote(n, service_directory[n], ids)[s]
    BY <1>6 DEF DirectoryInv
  <2>2. CASE WithRemote(n, service_directory[n], ids)[s] = service_directory[n][s]
    <3>1. service_directory[n][s] \in Entry \cup {None}
      BY DEF DirectoryInv
    <3>2. service_directory'[n][s] # None => EntryTrue(n, s)'
      BY <1>1, <2>1, <2>2, EntryStays
    <3> QED BY <2>2, <3>1, <3>2
  <2>3. ASSUME NEW h \in Nodes \ {n}, At(s, h),
               WithRemote(n, service_directory[n], ids)[s] = [node |-> h, peer |-> None]
        PROVE  /\ WithRemote(n, service_directory[n], ids)[s] \in Entry \cup {None}
               /\ EntryTrue(n, s)'
    <3>1. At(s, h)' /\ committed' # {}
      BY <1>1, <2>3 DEF At
    <3>2. service_directory'[n][s].node = h
      BY <2>1, <2>3
    <3>3. EntryTrue(n, s)'
      BY <3>1, <3>2 DEF EntryTrue
    <3> QED BY <2>3, <3>3 DEF Entry
  <2>4. \/ WithRemote(n, service_directory[n], ids)[s] = service_directory[n][s]
        \/ \E h \in Nodes \ {n} : /\ WithRemote(n, service_directory[n], ids)[s] = [node |-> h, peer |-> None]
                                 /\ At(s, h)
    <3>1. \A m \in Nodes : IsMember(m) => ids[m] = m
      BY Zenon, <1>3
    <3> QED BY ZenonT(60), <1>2, <3>1, RemoteFacts
  <2> QED BY Zenon, <2>2, <2>3, <2>4
<1>8. service_directory' \in [Nodes -> [AllServices -> Entry \cup {None}]]
  <2>1. WithRemote(n, service_directory[n], ids) \in [AllServices -> Entry \cup {None}]
    BY Zenon, <1>7 DEF WithRemote
  <2> QED BY <1>6, <2>1 DEF DirectoryInv
<1>9. ASSUME NEW m \in Nodes \ {n}, NEW s \in AllServices, service_directory'[m][s] # None
      PROVE  EntryTrue(m, s)'
  <2>1. service_directory'[m][s] = service_directory[m][s]
    BY <1>6 DEF DirectoryInv
  <2> QED BY <1>1, <1>9, <2>1, EntryStays
<1>10. nodes' \in [Nodes -> [Nodes -> Nodes \cup {None}]]
  BY Zenon, <1>1, <1>3 DEF DirectoryInv
<1>11. \A k \in committed', m \in Nodes : IsMember(m)' => nodes'[k][m] = m
  <2>1. committed \subseteq Nodes
    BY Zenon, MembersAreNodes DEF DirectoryInv
  <2>2. ASSUME NEW k \in committed', NEW m \in Nodes, IsMember(m)
        PROVE  nodes'[k][m] = m
    BY <1>1, <1>3, <2>1, <2>2 DEF DirectoryInv
  <2> QED BY <1>1, <2>2 DEF IsMember
<1>12. Agreed' /\ \A k \in committed' : IsMember(k)'
  BY <1>1, <1>2 DEF Agreed, IsMember, DirectoryInv, validate_circuit
<1>13. WellFormed' /\ circuit' \in Candidates
  BY Zenon, <1>1, <1>2 DEF WellFormed
<1>14. \A k \in Nodes, s \in AllServices : service_directory'[k][s] # None => EntryTrue(k, s)'
  <2>1. \A s \in AllServices : service_directory'[n][s] # None => EntryTrue(n, s)'
    BY Zenon, <1>7
  <2>2. \A k \in Nodes \ {n}, s \in AllServices : service_directory'[k][s] # None => EntryTrue(k, s)'
    BY Zenon, <1>9
  <2> QED BY Zenon, <2>1, <2>2
<1> QED BY Zenon, <1>5, <1>8, <1>10, <1>11, <1>12, <1>13, <1>14 DEF DirectoryInv

\* The steps that leave circuits as they are and change at most the directory of node n.
LEMMA DirectoryFrame ==
    ASSUME DirectoryInv, UNCHANGED <<circuit, committed, nodes, failed>>, NEW n \in Nodes,
           NEW d \in [AllServices -> Entry \cup {None}], service_directory' = [service_directory EXCEPT ![n] = d],
           \A s \in AllServices : d[s] # None => EntryTrue(n, s)'
    PROVE  DirectoryInv'
<1>1. service_directory' \in [Nodes -> [AllServices -> Entry \cup {None}]]
  BY DEF DirectoryInv
<1>2. ASSUME NEW m \in Nodes, NEW s \in AllServices, service_directory'[m][s] # None
      PROVE  EntryTrue(m, s)'
  <2>1. CASE m = n
    BY <1>2, <2>1 DEF DirectoryInv
  <2>2. CASE m # n
    <3>1. service_directory'[m][s] = service_directory[m][s]
      BY <2>2 DEF DirectoryInv
    <3> QED BY <1>2, <3>1, EntryStays
  <2> QED BY <2>1, <2>2
<1>3. WellFormed' /\ (Agreed' <=> Agreed) /\ \A m : IsMember(m)' <=> IsMember(m)
  BY Zenon DEF DirectoryInv, WellFormed, Agreed, IsMember
<1> QED BY <1>1, <1>2, <1>3 DEF DirectoryInv

\* A restart leaves the services of other nodes, as the commit had added them.
LEMMA RestartDirectory ==
    ASSUME DirectoryInv, NEW n \in Nodes, Restart(n)
    PROVE  DirectoryInv'
<1> DEFINE empty == [s \in AllServices |-> None]
           d == IF n \in committed THEN WithRemote(n, empty, Rebuilt(n)) ELSE empty
<1>1. service_directory' = [service_directory EXCEPT ![n] = d] /\ UNCHANGED <<circuit, committed, nodes, failed>>
  BY DEF Restart
<1>2. \A s \in AllServices : service_directory'[n][s] = d[s]
  BY <1>1 DEF DirectoryInv
<1>3. ASSUME NEW s \in AllServices
      PROVE  d[s] \in Entry \cup {None} /\ (d[s] # None => EntryTrue(n, s)')
  <2>1. CASE n \notin committed
    BY <2>1
  <2>2. CASE n \in committed
    <3>1. Agreed /\ WellFormed /\ circuit \in Candidates /\ \A m \in Nodes : IsMember(m) => Rebuilt(n)[m] = m
      BY <2>2 DEF DirectoryInv, Rebuilt
    <3>2. d[s] = WithRemote(n, empty, Rebuilt(n))[s] /\ empty[s] = None
      BY <2>2
    <3> HIDE DEF d, empty
    <3>3. CASE d[s] = None
      BY <3>3
    <3>4. ASSUME NEW h \in Nodes \ {n}, d[s] = [node |-> h, peer |-> None], At(s, h)
          PROVE  d[s] \in Entry \cup {None} /\ EntryTrue(n, s)'
      <4>1. service_directory'[n][s].node = h
        BY <1>2, <3>4
      <4>2. At(s, h)' /\ committed' # {}
        BY <1>1, <2>2, <3>4 DEF At
      <4> QED BY <3>4, <4>1, <4>2 DEF EntryTrue, Entry
    <3>5. \/ WithRemote(n, empty, Rebuilt(n))[s] = empty[s]
          \/ \E h \in Nodes \ {n} : /\ WithRemote(n, empty, Rebuilt(n))[s] = [node |-> h, peer |-> None]
                                   /\ At(s, h)
      BY Zenon, <3>1, RemoteFacts
    <3> QED BY Zenon, <3>2, <3>3, <3>4, <3>5
  <2> QED BY <2>1, <2>2
<1>4. d \in [AllServices -> Entry \cup {None}]
  <2>1. d = [s \in AllServices |-> d[s]]
    BY Zenon DEF WithRemote
  <2> QED BY <1>3, <2>1
<1> QED BY Zenon, <1>1, <1>3, <1>4, DirectoryFrame

\* A service connects where it belongs.
LEMMA ConnectDirectory ==
    ASSUME DirectoryInv, NEW n \in Nodes, NEW s \in AllServices, ServiceConnect(n, s)
    PROVE  DirectoryInv'
<1> DEFINE e == [node |-> n, peer |-> Peer(n, s)]
           d == [service_directory[n] EXCEPT ![s] = e]
<1>1. service_directory' = [service_directory EXCEPT ![n] = d] /\ UNCHANGED <<circuit, committed, nodes, failed>>
  BY DEF ServiceConnect
<1>2. service_directory[n] \in [AllServices -> Entry \cup {None}]
  BY DEF DirectoryInv
<1>3. e \in Entry
  BY DEF Entry, Connections
<1>4. d \in [AllServices -> Entry \cup {None}] /\ d[s] = e /\ \A t \in AllServices \ {s} : d[t] = service_directory[n][t]
  BY <1>2, <1>3
<1>5. At(s, n) /\ (s \in Services => committed # {})
  BY AllowedAt DEF ServiceConnect
<1> HIDE DEF d
<1>6. \A t \in AllServices : service_directory'[n][t] = d[t]
  BY <1>1 DEF DirectoryInv
<1>7. EntryTrue(n, s)'
  BY <1>1, <1>4, <1>5, <1>6 DEF EntryTrue, At, Peer
<1>8. \A t \in AllServices \ {s} : d[t] # None => EntryTrue(n, t)'
  BY <1>1, <1>4, <1>6, EntryStays
<1> QED BY Zenon, <1>1, <1>4, <1>7, <1>8, DirectoryFrame

\* Or disconnects.
LEMMA DisconnectDirectory ==
    ASSUME DirectoryInv, NEW n \in Nodes, NEW s \in AllServices, ServiceDisconnect(n, s)
    PROVE  DirectoryInv'
<1> DEFINE d == [service_directory[n] EXCEPT ![s] = None]
<1>1. service_directory' = [service_directory EXCEPT ![n] = d] /\ UNCHANGED <<circuit, committed, nodes, failed>>
  BY DEF ServiceDisconnect
<1>2. service_directory[n] \in [AllServices -> Entry \cup {None}]
  BY DEF DirectoryInv
<1>3. d \in [AllServices -> Entry \cup {None}] /\ d[s] = None /\ \A t \in AllServices \ {s} : d[t] = service_directory[n][t]
  BY <1>2
<1> HIDE DEF d
<1>4. \A t \in AllServices : service_directory'[n][t] = d[t]
  BY <1>1 DEF DirectoryInv
<1>5. \A t \in AllServices \ {s} : d[t] # None => EntryTrue(n, t)'
  BY <1>1, <1>3, <1>4, EntryStays
<1> QED BY Zenon, <1>1, <1>3, <1>5, DirectoryFrame

\* Messages leave the directories alone.
LEMMA DirectoryQuiet ==
    ASSUME DirectoryInv, UNCHANGED <<circuit, committed, nodes, service_directory, failed>>
    PROVE  DirectoryInv'
<1>1. WellFormed' /\ (Agreed' <=> Agreed) /\ \A m : IsMember(m)' <=> IsMember(m)
  BY Zenon DEF DirectoryInv, WellFormed, Agreed, IsMember
<1>2. \A n \in Nodes, s \in AllServices : service_directory'[n][s] # None => EntryTrue(n, s)'
  BY EntryStays
<1> QED BY Zenon, <1>1, <1>2 DEF DirectoryInv

-----------------------------------------------------------------------------
(* Messages. *)

\* A service that is connected stays so until a disconnection or a restart.
StaysLocal ==
    happened' = 0 => happened = 0 /\ \A h \in Nodes, s \in AllServices : Local(h, s) => Local(h, s)'

\* A message that went where it should still does.
LEMMA MessageStays ==
    ASSUME StaysLocal, UNCHANGED circuit, committed \subseteq committed', NEW m \in MessageType, Proper(m)
    PROVE  Proper(m)'
<1>1. m.sender \in AllServices
  BY DEF MessageType
<1>2. \A s, n : At(s, n) => At(s, n)'
  BY DEF At
<1>3. ASSUME NEW h \in Nodes, happened = 0 => Local(h, m.sender)
      PROVE  happened' = 0 => Local(h, m.sender)'
  BY <1>1, <1>3 DEF StaysLocal
<1>4. ToService(m) => ToService(m)'
  BY DEF ToService, Peer
<1>5. DirectTrue(m) => DirectTrue(m)'
  BY <1>2, <1>3, <1>4, Zenon DEF DirectTrue, Peer
<1>6. ErrorTrue(m) => ErrorTrue(m)'
  BY <1>3, <1>4, Zenon DEF ErrorTrue
<1>7. AdminTrue(m) => AdminTrue(m)'
  BY Zenon DEF AdminTrue, Peer
<1> QED BY <1>5, <1>6, <1>7 DEF Proper

\* The steps that leave the messages as they are.
LEMMA MessagesQuiet ==
    ASSUME MessageInv, StaysLocal, happened' \in Nat, happened' >= happened,
           UNCHANGED <<circuit, net, sent, outcome>>, committed \subseteq committed'
    PROVE  MessageInv'
<1>1. \A m \in net : Proper(m)'
  BY MessageStays DEF MessageInv
<1>2. NotDropped'
  BY DEF MessageInv, NotDropped
<1>3. MessageType' = MessageType
  BY DEF MessageType
<1> QED BY <1>1, <1>2, <1>3 DEF MessageInv

\* A commit does not touch the entry of a service that belongs at the node.
LEMMA UpdateLocal ==
    ASSUME DirectoryInv, NEW n \in Nodes, update_splinter_state(n)
    PROVE  StaysLocal
<1> DEFINE ids == [m \in Nodes |-> IF m \in Range(MemberIds(circuit)) THEN m ELSE nodes[n][m]]
<1>1. /\ IsMember(n) /\ UNCHANGED <<circuit, happened>>
      /\ \A m \in Range(MemberIds(circuit)) : validate_circuit(m, circuit)
      /\ \/ service_directory' = service_directory
         \/ service_directory' = [service_directory EXCEPT ![n] = WithRemote(n, @, ids)]
  BY Zenon DEF update_splinter_state, IsMember
<1>2. Agreed /\ WellFormed /\ circuit \in Candidates
  BY <1>1 DEF Agreed, DirectoryInv
<1>3. \A m \in Nodes : IsMember(m) => ids[m] = m
  BY DEF IsMember
<1> HIDE DEF ids
<1>4. ASSUME NEW h \in Nodes, NEW s \in AllServices, Local(h, s)
      PROVE  service_directory'[h][s] = service_directory[h][s]
  <2>1. At(s, h)
    BY <1>4 DEF Local, DirectoryInv, EntryTrue
  <2>2. CASE service_directory' = service_directory
    BY <2>2
  <2>3. CASE service_directory' = [service_directory EXCEPT ![n] = WithRemote(n, @, ids)]
    <3>1. CASE h # n
      BY <2>3, <3>1 DEF DirectoryInv
    <3>2. CASE h = n
      <4>1. service_directory'[h][s] = WithRemote(n, service_directory[n], ids)[s]
        BY <2>3, <3>2 DEF DirectoryInv
      <4>2. ASSUME NEW k \in Nodes \ {n}, At(s, k), s \in Services
            PROVE  FALSE
        BY <1>2, <2>1, <3>2, <4>2, AtOnce
      <4>3. \A m \in Nodes : IsMember(m) => ids[m] = m
        BY Zenon, <1>3
      <4>4. \/ WithRemote(n, service_directory[n], ids)[s] = service_directory[n][s]
            \/ /\ s \in Services
               /\ \E k \in Nodes \ {n} : /\ WithRemote(n, service_directory[n], ids)[s] = [node |-> k, peer |-> None]
                                         /\ At(s, k)
        BY ZenonT(60), <1>2, <4>3, RemoteFacts
      <4> QED BY Zenon, <3>2, <4>1, <4>2, <4>4
    <3> QED BY <3>1, <3>2
  <2> QED BY <1>1, <2>2, <2>3
<1>5. ASSUME NEW h \in Nodes, NEW s \in AllServices, Local(h, s)
      PROVE  Local(h, s)'
  BY <1>4, <1>5 DEF Local
<1> QED BY <1>1, <1>5 DEF StaysLocal

\* The steps of circuits and services.
LEMMA SurroundingMessages ==
    ASSUME RoutingInv, NEW n \in Nodes, NEW s \in AllServices,
           update_splinter_state(n) \/ Restart(n) \/ ServiceConnect(n, s) \/ ServiceDisconnect(n, s)
    PROVE  MessageInv'
<1>1. CASE update_splinter_state(n)
  <2>1. UNCHANGED <<circuit, net, sent, outcome, happened>> /\ committed \subseteq committed' /\ happened \in Nat
    BY Zenon, <1>1 DEF update_splinter_state, RoutingInv, MessageInv
  <2>2. StaysLocal
    BY <1>1, UpdateLocal DEF RoutingInv
  <2> QED BY <2>1, <2>2, MessagesQuiet DEF RoutingInv
<1>2. CASE Restart(n) \/ ServiceDisconnect(n, s)
  <2>1. UNCHANGED <<circuit, committed, net, sent, outcome>> /\ happened' = happened + 1 /\ happened \in Nat
    BY <1>2 DEF Restart, ServiceDisconnect, RoutingInv, MessageInv
  <2>2. StaysLocal
    BY <2>1 DEF StaysLocal
  <2> QED BY <2>1, <2>2, MessagesQuiet DEF RoutingInv
<1>3. CASE ServiceConnect(n, s)
  <2>1. UNCHANGED <<circuit, committed, net, sent, outcome, happened>> /\ happened \in Nat
    BY <1>3 DEF ServiceConnect, RoutingInv, MessageInv
  <2>2. ASSUME NEW h \in Nodes, NEW t \in AllServices, Local(h, t)
        PROVE  service_directory'[h][t] = service_directory[h][t]
    BY <1>3, <2>2 DEF ServiceConnect, Local, RoutingInv, DirectoryInv
  <2>3. StaysLocal
    BY <2>1, <2>2 DEF StaysLocal, Local
  <2> QED BY <2>1, <2>3, MessagesQuiet DEF RoutingInv
<1> QED BY <1>1, <1>2, <1>3

\* A step that takes a message m, and perhaps puts another in its place.
LEMMA MessageFrame ==
    ASSUME RoutingInv, UNCHANGED <<circuit, committed, service_directory, sent, happened>>, NEW new \in MessageType,
           net' \subseteq net \cup {new}, outcome' \in Outcomes,
           \A i \in 1..MaxMessages : outcome'[i] = "dropped" => outcome[i] = "dropped" \/ happened # 0,
           Proper(new)
    PROVE  MessageInv'
<1>1. StaysLocal
  BY DEF StaysLocal, Local
<1>2. \A m \in net' : m \in MessageType /\ Proper(m)'
  BY <1>1, MessageStays DEF RoutingInv, MessageInv
<1>3. NotDropped'
  BY DEF RoutingInv, MessageInv, NotDropped
<1>4. MessageType' = MessageType
  BY DEF MessageType
<1> QED BY <1>2, <1>3, <1>4 DEF RoutingInv, MessageInv

\* A message that is forwarded, or answered with an error, keeps sender and recipient.
LEMMA MessageFacts ==
    ASSUME NEW m \in MessageType, NEW kind \in {"direct", "admin", "error"}, NEW to \in Connections,
           NEW source \in Connections, NEW hops \in Nat
    PROVE  LET new == Message(kind, to, source, [m EXCEPT !.hops = hops])
           IN  /\ new \in MessageType /\ new.kind = kind /\ new.to = to /\ new.source = source
               /\ new.sender = m.sender /\ new.recipient = m.recipient
  BY DEF Message, MessageType

\* Where the directory of n sends a message: to the service, if it is n's, or to its node.
LEMMA HopFacts ==
    ASSUME DirectoryInv, NEW n \in Nodes, NEW s \in AllServices, service_directory[n][s] # None
    PROVE  LET e == service_directory[n][s]
           IN  /\ e.node \in Nodes /\ At(s, e.node) /\ (s \in Services => Agreed)
               /\ NextHop(n, e) \in Connections /\ NextHop(n, e) # None
               /\ e.node = n => NextHop(n, e) = Peer(n, s) /\ e.peer # None
               /\ e.node # n => NextHop(n, e) = <<e.node>>
<1> DEFINE e == service_directory[n][s]
<1>1. e.node \in Nodes /\ EntryTrue(n, s)
  BY DEF DirectoryInv, Entry
<1>2. Peer(n, s) # None /\ <<e.node>> # None
  BY <1>1 DEF DirectoryInv, WellFormed, Peer
<1>3. Peer(n, s) \in Connections /\ <<e.node>> \in Connections
  BY <1>1 DEF Connections
<1>4. At(s, e.node) /\ (e.node = n => e.peer = Peer(n, s)) /\ (s \in Services => Agreed)
  BY <1>1 DEF EntryTrue, DirectoryInv
<1> HIDE DEF e
<1>5. /\ e.node = n => NextHop(n, e) = Peer(n, s)
      /\ e.node # n => NextHop(n, e) = <<e.node>>
  BY <1>4 DEF NextHop
<1> QED BY <1>1, <1>2, <1>3, <1>4, <1>5 DEF e

\* A direct message meets the node of its sender or that of its recipient: the handler never
\* drops it, and an error goes back to where the sender is connected.
LEMMA DirectStep ==
    ASSUME RoutingInv, NEW n \in Nodes, NEW m \in net, HandleDirect(n, m)
    PROVE  MessageInv'
<1> DEFINE recipient == service_directory[n][m.recipient]
<1>1. /\ m \in MessageType /\ m.to = <<n>> /\ m.kind = "direct" /\ DirectTrue(m) /\ committed # {}
      /\ m.sender \in Services
      /\ UNCHANGED <<circuit, committed, nodes, service_directory, sent, failed, happened>>
  BY DEF HandleDirect, RoutingInv, MessageInv, Proper
<1>2. DirectoryInv /\ Agreed /\ WellFormed /\ circuit \in Candidates
  BY <1>1 DEF RoutingInv, DirectoryInv
<1>3. /\ m.sender \in AllServices /\ m.recipient \in AllServices /\ m.hops \in Nat
      /\ m.source \in Connections /\ <<n>> \in Connections
  BY <1>1 DEF MessageType, AllServices, Connections
<1>4. outcome \in Outcomes
  BY DEF RoutingInv, MessageInv
<1>5. \/ m.source = Peer(n, m.sender) /\ At(m.sender, n)
      \/ At(m.recipient, n) /\ \E h \in Nodes : m.source = <<h>> /\ (happened = 0 => Local(h, m.sender))
  BY <1>1 DEF DirectTrue, ToService, Peer
<1>6. CASE CircuitError(n, m) /\ UNCHANGED outcome
  <2> DEFINE new == Message("error", m.source, <<n>>, [m EXCEPT !.hops = 0])
  <2>1. new \in MessageType /\ new.kind = "error" /\ new.to = m.source /\ new.sender = m.sender
    <3>1. PICK hops \in Nat : hops = 0
      OBVIOUS
    <3>2. new = Message("error", m.source, <<n>>, [m EXCEPT !.hops = hops])
      BY Zenon, <3>1
    <3> HIDE DEF new
    <3> QED BY <1>1, <1>3, <3>2, MessageFacts
  <2>2. net' \subseteq net \cup {new}
    BY <1>6 DEF CircuitError
  <2> HIDE DEF new
  <2>3. ErrorTrue(new)
    BY <1>3, <1>5, <2>1, Zenon DEF ErrorTrue, ToService
  <2>4. Proper(new)
    BY <1>1, <2>1, <2>3 DEF Proper
  <2> QED BY <1>1, <1>4, <1>6, <2>1, <2>2, <2>4, MessageFrame
<1>7. CASE /\ service_directory[n][m.sender] # None /\ recipient # None
           /\ NextHop(n, recipient) = None
  BY <1>2, <1>3, <1>7, HopFacts
<1>8. CASE /\ service_directory[n][m.sender] # None /\ recipient # None /\ InRoster(m.recipient, FALSE)
           /\ Forward(n, m, NextHop(n, recipient)) /\ UNCHANGED outcome
  <2> DEFINE to == NextHop(n, recipient)
             new == Message("direct", to, <<n>>, [m EXCEPT !.hops = m.hops + 1])
  <2>1. /\ to \in Connections /\ recipient.node \in Nodes /\ At(m.recipient, recipient.node)
        /\ recipient.node = n => to = Peer(n, m.recipient)
        /\ recipient.node # n => to = <<recipient.node>>
    BY <1>2, <1>3, <1>8, HopFacts
  <2>2. /\ service_directory[n][m.sender].node \in Nodes
        /\ At(m.sender, service_directory[n][m.sender].node)
    BY <1>2, <1>3, <1>8, HopFacts
  <2>3. net' \subseteq net \cup {new}
    BY <1>1, <1>8 DEF Forward, MessageType
  <2> HIDE DEF to
  <2>4. /\ new \in MessageType /\ new.kind = "direct" /\ new.to = to /\ new.source = <<n>>
        /\ new.sender = m.sender /\ new.recipient = m.recipient
    <3>1. m.hops + 1 \in Nat
      BY <1>3
    <3> QED BY <1>1, <1>3, <2>1, <3>1, MessageFacts
  <2> HIDE DEF new, recipient
  <2>5. CASE recipient.node = n
    <3>1. DirectTrue(new)
      BY <1>3, <2>1, <2>4, <2>5, Zenon DEF DirectTrue, ToService
    <3>2. Proper(new)
      BY <1>1, <2>4, <3>1 DEF Proper
    <3> QED BY <1>1, <1>4, <1>8, <2>3, <2>4, <3>2, MessageFrame
  <2>6. CASE recipient.node # n
    <3>0. m.recipient \in Services
      <4>1. PICK i \in DOMAIN circuit.roster : circuit.roster[i].service = m.recipient
        BY Zenon, <1>8 DEF InRoster, Range, ServiceIds
      <4> QED BY <1>2, <4>1, RosterFacts
    <3>1. ~At(m.recipient, n)
      BY <1>2, <2>1, <2>6, <3>0, AtOnce
    <3>2. service_directory[n][m.sender].node = n
      BY <1>1, <1>2, <1>5, <2>2, <3>1, AtOnce
    <3>3. Local(n, m.sender)
      BY <1>8, <3>2 DEF Local
    <3>4. DirectTrue(new)
      BY <2>1, <2>4, <2>6, <3>3, Zenon DEF DirectTrue
    <3>5. Proper(new)
      BY <1>1, <2>4, <3>4 DEF Proper
    <3> QED BY <1>1, <1>4, <1>8, <2>3, <2>4, <3>5, MessageFrame
  <2> QED BY <2>5, <2>6
<1> QED BY Zenon, <1>6, <1>7, <1>8 DEF HandleDirect

\* An admin message goes by the names of its services, or back to its sender.
LEMMA AdminStep ==
    ASSUME RoutingInv, NEW n \in Nodes, NEW m \in net, HandleAdmin(n, m)
    PROVE  MessageInv'
<1>1. /\ m \in MessageType /\ m.kind = "admin" /\ AdminTrue(m) /\ m.sender \in AdminServices
      /\ outcome \in Outcomes
      /\ UNCHANGED <<circuit, committed, service_directory, sent, outcome, happened>>
  BY DEF HandleAdmin, RoutingInv, MessageInv, Proper
<1>2. m.source \in Connections /\ <<n>> \in Connections /\ m.hops \in Nat /\ m.hops + 1 \in Nat
  BY <1>1 DEF Connections, MessageType
<1>3. CASE m.recipient \in AdminServices
  <2> DEFINE to == IF m.recipient[2] # n THEN <<m.recipient[2]>> ELSE Peer(n, m.recipient)
             new == Message("admin", to, <<n>>, [m EXCEPT !.hops = m.hops + 1])
  <2>1. m.recipient[2] \in Nodes /\ m.recipient \in AllServices
    BY <1>3 DEF AdminServices, AllServices
  <2>2. to \in Connections
    BY <2>1 DEF Connections
  <2>3. net' \subseteq net \cup {new}
    BY <1>1, <1>3 DEF HandleAdmin, Forward, Exists, MessageType
  <2> HIDE DEF to
  <2>4. new \in MessageType /\ new.kind = "admin" /\ new.recipient = m.recipient /\ new.sender = m.sender
    BY <1>1, <1>2, <2>2, MessageFacts
  <2> HIDE DEF new
  <2>5. Proper(new)
    BY <1>1, <1>3, <2>4 DEF Proper, AdminTrue
  <2> QED BY <1>1, <2>3, <2>4, <2>5, MessageFrame
<1>4. CASE m.recipient \notin AdminServices
  <2> DEFINE new == Message("error", m.source, <<n>>, [m EXCEPT !.hops = 0])
  <2>1. net' \subseteq net \cup {new}
    BY <1>4 DEF HandleAdmin, CircuitError
  <2>2. new \in MessageType /\ new.kind = "error" /\ new.to = m.source
    <3>1. PICK hops \in Nat : hops = 0
      OBVIOUS
    <3>2. new = Message("error", m.source, <<n>>, [m EXCEPT !.hops = hops])
      BY Zenon, <3>1
    <3> HIDE DEF new
    <3> QED BY <1>1, <1>2, <3>2, MessageFacts
  <2> HIDE DEF new
  <2>3. ErrorTrue(new)
    BY Zenon, <1>1, <1>4, <2>2 DEF AdminTrue, ErrorTrue, ToService
  <2>4. Proper(new)
    BY <2>2, <2>3 DEF Proper
  <2> QED BY <1>1, <2>1, <2>2, <2>4, MessageFrame
<1> QED BY <1>3, <1>4

\* An error that meets a node finds the sender connected there, unless something has happened.
LEMMA ErrorStep ==
    ASSUME RoutingInv, NEW n \in Nodes, NEW m \in net, HandleError(n, m)
    PROVE  MessageInv'
<1> DEFINE entry == service_directory[n][m.sender]
<1>1. /\ m \in MessageType /\ m.to = <<n>> /\ m.kind = "error" /\ Proper(m) /\ ErrorTrue(m)
      /\ UNCHANGED <<circuit, committed, nodes, service_directory, sent, failed, happened>>
  BY DEF HandleError, RoutingInv, MessageInv, Proper
<1>2. m.sender \in AllServices /\ m.hops + 1 \in Nat /\ <<n>> \in Connections
  BY <1>1 DEF MessageType, Connections
<1>3. happened = 0 => Local(n, m.sender)
  BY <1>1 DEF ErrorTrue, ToService, Peer
<1>4. outcome \in Outcomes /\ DirectoryInv
  BY DEF RoutingInv, MessageInv
<1>5. CASE net' = net \ {m} /\ Ends(m, "dropped") /\ (entry = None \/ (entry.node = n /\ entry.peer = None))
  <2>1. happened # 0
    BY <1>2, <1>3, <1>4, <1>5, HopFacts DEF Local
  <2>2. outcome' \in Outcomes /\ net' \subseteq net \cup {m}
    BY Zenon, <1>4, <1>5 DEF Ends, Outcomes
  <2> QED BY <1>1, <2>1, <2>2, MessageFrame
<1>6. CASE entry # None /\ Forward(n, m, NextHop(n, entry)) /\ UNCHANGED outcome
  <2> DEFINE to == NextHop(n, entry)
             new == Message("error", to, <<n>>, [m EXCEPT !.hops = m.hops + 1])
  <2>1. /\ to \in Connections /\ entry.node \in Nodes
        /\ entry.node = n => to = Peer(n, m.sender)
        /\ entry.node # n => to = <<entry.node>>
    BY <1>2, <1>4, <1>6, HopFacts
  <2>2. net' \subseteq net \cup {new}
    BY <1>1, <1>6 DEF Forward, MessageType
  <2> HIDE DEF to
  <2>3. new \in MessageType /\ new.kind = "error" /\ new.to = to /\ new.sender = m.sender
    BY <1>1, <1>2, <2>1, MessageFacts
  <2> HIDE DEF new
  <2>4. CASE entry.node = n
    <3>1. ErrorTrue(new)
      BY <1>2, <2>1, <2>3, <2>4, Zenon DEF ErrorTrue, ToService
    <3>2. Proper(new)
      BY <1>1, <2>3, <3>1 DEF Proper
    <3> QED BY <1>1, <1>4, <1>6, <2>2, <2>3, <3>2, MessageFrame
  <2>5. CASE entry.node # n
    <3>1. happened # 0
      BY <1>3, <2>5 DEF Local
    <3>2. ErrorTrue(new)
      BY <2>1, <2>3, <2>5, <3>1 DEF ErrorTrue
    <3>3. Proper(new)
      BY <1>1, <2>3, <3>2 DEF Proper
    <3> QED BY <1>1, <1>4, <1>6, <2>2, <2>3, <3>3, MessageFrame
  <2> QED BY <2>4, <2>5
<1> QED BY <1>5, <1>6 DEF HandleError

\* A service reads a message.
LEMMA DeliverStep ==
    ASSUME RoutingInv, NEW m \in net, Deliver(m)
    PROVE  MessageInv'
<1>1. /\ m \in MessageType /\ net' \subseteq net \cup {m} /\ outcome \in Outcomes
      /\ Proper(m)
      /\ UNCHANGED <<circuit, committed, service_directory, sent, happened>>
  BY DEF Deliver, RoutingInv, MessageInv
<1>2. PICK what \in {"error", "delivered"} : outcome' = [outcome EXCEPT ![m.id] = what]
  BY Zenon DEF Deliver, Ends
<1>3. /\ outcome' \in Outcomes
      /\ \A i \in 1..MaxMessages : outcome'[i] = "dropped" => outcome[i] = "dropped"
  BY Zenon, <1>1, <1>2 DEF Outcomes
<1> QED BY <1>1, <1>3, MessageFrame

\* A service sends a message to the node where it belongs.
LEMMA SendStep ==
    ASSUME RoutingInv, NEW n \in Nodes, NEW s \in AllServices, NEW r \in AllServices, Send(n, s, r)
    PROVE  MessageInv'
<1> DEFINE kind == IF s \in AdminServices THEN "admin" ELSE "direct"
           new == [id |-> sent + 1, kind |-> kind, to |-> <<n>>, source |-> Peer(n, s),
                   sender |-> s, recipient |-> r, hops |-> 0]
<1>1. /\ net' = net \cup {new} /\ sent' = sent + 1
      /\ UNCHANGED <<circuit, committed, service_directory, outcome, happened>>
  BY DEF Send
<1>2. At(s, n) /\ (s \in Services => committed # {})
  BY AllowedAt DEF Send, RoutingInv
<1>3. new \in MessageType
  <2>1. sent + 1 \in Nat
    BY DEF RoutingInv, MessageInv
  <2>2. <<n>> \in Connections /\ Peer(n, s) \in Connections
    BY DEF Connections
  <2> QED BY <2>1, <2>2 DEF MessageType
<1>4. new.kind = kind /\ new.to = <<n>> /\ new.source = Peer(n, s) /\ new.sender = s /\ new.recipient = r
  OBVIOUS
<1>5. IF kind = "admin" THEN s \in AdminServices ELSE kind = "direct" /\ s \in Services
  BY DEF AllServices
<1> HIDE DEF new, kind
<1>6. kind = "direct" => DirectTrue(new)
  BY <1>2, <1>4, Zenon DEF DirectTrue
<1>7. Proper(new)
  BY <1>2, <1>4, <1>5, <1>6 DEF Proper, AdminTrue
<1>8. \A m \in net' : m \in MessageType /\ Proper(m)'
  <2>1. StaysLocal
    BY <1>1 DEF StaysLocal, Local
  <2>2. \A m \in net' : m \in MessageType /\ Proper(m)
    BY <1>1, <1>3, <1>7 DEF RoutingInv, MessageInv
  <2> QED BY <1>1, <2>1, <2>2, MessageStays
<1>9. NotDropped' /\ MessageType' = MessageType
  BY <1>1 DEF RoutingInv, MessageInv, NotDropped, MessageType
<1> QED BY <1>1, <1>8, <1>9 DEF RoutingInv, MessageInv

-----------------------------------------------------------------------------
(* The theorems. *)

\* Nothing is committed, connected or under way at the start.
LEMMA RoutingInit == WellFormed /\ Init => RoutingInv
<1> HAVE WellFormed /\ Init
<1>1. DirectoryInv
  BY DEF Init, DirectoryInv
<1>2. MessageInv
  BY DEF Init, MessageInv, NotDropped, Outcomes
<1> QED BY <1>1, <1>2 DEF RoutingInv

\* Every step keeps the invariant.
LEMMA RoutingStep == ASSUME RoutingInv, [Next]_vars PROVE RoutingInv'
<1>1. ASSUME NEW n \in Nodes, update_splinter_state(n) \/ Restart(n)
      PROVE  RoutingInv'
  <2>1. DirectoryInv'
    BY <1>1, UpdateDirectory, RestartDirectory DEF RoutingInv
  <2>2. <<"admin", n>> \in AllServices
    BY DEF AllServices, AdminServices
  <2>3. MessageInv'
    BY <1>1, <2>2, SurroundingMessages
  <2> QED BY <2>1, <2>3 DEF RoutingInv
<1>2. ASSUME NEW n \in Nodes, NEW s \in AllServices, ServiceConnect(n, s) \/ ServiceDisconnect(n, s)
      PROVE  RoutingInv'
  <2>1. DirectoryInv'
    BY <1>2, ConnectDirectory, DisconnectDirectory DEF RoutingInv
  <2>2. MessageInv'
    BY <1>2, SurroundingMessages
  <2> QED BY <2>1, <2>2 DEF RoutingInv
<1>3. ASSUME NEW n \in Nodes, NEW s \in AllServices, NEW r \in AllServices, Send(n, s, r)
      PROVE  RoutingInv'
  <2>1. UNCHANGED <<circuit, committed, nodes, service_directory, failed>>
    BY <1>3 DEF Send
  <2> QED BY <1>3, <2>1, DirectoryQuiet, SendStep DEF RoutingInv
<1>4. ASSUME NEW m \in net, Handle(m)
      PROVE  RoutingInv'
  <2>1. UNCHANGED <<circuit, committed, nodes, service_directory, failed>>
    <3>1. CASE Deliver(m)
      BY <3>1 DEF Deliver
    <3>2. ASSUME NEW n \in Nodes, HandleDirect(n, m) \/ HandleAdmin(n, m) \/ HandleError(n, m)
          PROVE  UNCHANGED <<circuit, committed, nodes, service_directory, failed>>
      BY Zenon, <3>2 DEF HandleDirect, HandleAdmin, HandleError
    <3> QED BY Zenon, <1>4, <3>1, <3>2 DEF Handle
  <2>2. MessageInv'
    BY <1>4, DeliverStep, DirectStep, AdminStep, ErrorStep DEF Handle
  <2> QED BY <2>1, <2>2, DirectoryQuiet DEF RoutingInv
<1>5. CASE UNCHANGED vars
  <2>1. DirectoryInv'
    BY <1>5, DirectoryQuiet DEF vars, RoutingInv
  <2>2. StaysLocal /\ happened' \in Nat /\ happened' >= happened
    BY <1>5 DEF vars, StaysLocal, Local, RoutingInv, MessageInv
  <2> QED BY <1>5, <2>1, <2>2, MessagesQuiet DEF vars, RoutingInv
<1> QED BY <1>1, <1>2, <1>3, <1>4, <1>5 DEF Next

\* The inductive invariant: what the directories say of a service of the circuit is what the
\* roster says, a service's own node knows its connection, and messages go from the node of their sender
\* to that of their recipient.
THEOREM RoutingInvariant == WellFormed /\ Spec => []RoutingInv
  BY RoutingInit, RoutingStep, PTL DEF Spec

\* The directories of any two nodes agree on where a service of the circuit is, and a node can
\* reach the services that it has as its own, whatever connects, disconnects, commits or restarts.
THEOREM DirectoriesNeverDisagree == WellFormed /\ Spec => []DirectoriesAgree
<1>1. ASSUME RoutingInv PROVE DirectoriesAgree
  <2>1. ASSUME NEW n \in Nodes, NEW s \in AllServices, service_directory[n][s] # None,
               service_directory[n][s].node = n
        PROVE  service_directory[n][s].peer # None
    BY <1>1, <2>1, HopFacts DEF RoutingInv
  <2>2. ASSUME NEW n \in Nodes, NEW m \in Nodes, NEW s \in Services,
               service_directory[n][s] # None, service_directory[m][s] # None
        PROVE  service_directory[n][s].node = service_directory[m][s].node
    <3>1. /\ service_directory[n][s].node \in Nodes /\ At(s, service_directory[n][s].node)
          /\ service_directory[m][s].node \in Nodes /\ At(s, service_directory[m][s].node)
          /\ Agreed
      BY <1>1, <2>2, HopFacts DEF RoutingInv, AllServices
    <3> QED BY <1>1, <3>1, AtOnce DEF RoutingInv, DirectoryInv
  <2> QED BY <2>1, <2>2 DEF DirectoriesAgree, LocalServicesHavePeers
<1> QED BY <1>1, RoutingInvariant, PTL

\* The errors of update_splinter_state that "should never happen" do not.
THEOREM CommitsNeverFail == WellFormed /\ Spec => []ValidCircuitsCommit
<1>1. RoutingInv => ValidCircuitsCommit
  BY DEF RoutingInv, DirectoryInv, ValidCircuitsCommit
<1> QED BY <1>1, RoutingInvariant, PTL

\* The handlers drop a message only after a disconnection or a restart.
THEOREM NothingDropped == WellFormed /\ Spec => []NotDropped
<1>1. RoutingInv => NotDropped
  BY DEF RoutingInv, MessageInv
<1> QED BY <1>1, RoutingInvariant, PTL
=============================================================================
