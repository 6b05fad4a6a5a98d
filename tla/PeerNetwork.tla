----------------------------- MODULE PeerNetwork -----------------------------
(***************************************************************************)
(* The network of peers: the map from peer IDs to connections (network/),  *)
(* the connector, the sender and heartbeat threads, and the authorization  *)
(* handshake (network/auth/) with the manager's states, which learns of    *)
(* lost connections through a channel, and with the lock it holds while    *)
(* it calls the admin service back.  The mesh below is what Mesh promises: *)
(* messages of a connection in order, and an error for a connection that   *)
(* the reactor has dropped; that a queue is full (SendError::Full) is left *)
(* out, since a handshake is four messages a side and a queue holds 128.   *)
(* Passing a message from thread to thread (Daemon) only delays it, and    *)
(* the peer ID it is received under stays.                                 *)
(***************************************************************************)
EXTENDS Naturals, Sequences, FiniteSets, Functions

CONSTANTS
    Nodes,
    Conns,
    Link,       \* who connects to whom; whether with the node's ID, or within the process
    Workloads,  \* the connections made, and how many are closed and what else may happen
    None

ASSUME LinkAssumption ==
    /\ Link \in [Conns -> [from : Nodes, to : Nodes, how : {"known", "unidentified", "inproc"}]]
    /\ Workloads \subseteq [links : SUBSET Conns, closes : Nat, errors : Nat, submissions : Nat]

Named(n) == <<"node", n>>
Temp(c) == <<"temp", c>>
Service(c) == <<"service", c>>
Listening(n) == <<"tcp", n>>
Ephemeral(c) == <<"ephemeral", c>>
Inproc == <<"inproc", None>>

VARIABLES
    workload,
    opened, accepted, closed,  \* connections
    dialling,    \* connections added to the map before their first message is sent
    entries,     \* per node: the connections that its reactor holds
    wire,        \* messages on each connection, by the side that they go to
    peers,       \* per node: the PeerMap
    states,      \* per node: ManagedAuthorizations.states
    removals,    \* per node: the disconnect channel
    failing,     \* per node: peers that a send failed for, before they are removed
    notifying,   \* per node: peers removed whose listeners are still to be told
    received,    \* per node: authorization messages with the peer they are from
    outbox,      \* per node: SendRequests
    callback,    \* per node: the replies of the handler that is calling back, holding the lock
    admin_lock,  \* nodes where a submission holds the admin service's lock
    happened     \* closes, errors and submissions so far

connections == <<workload, opened, accepted, dialling, happened>>
leaving == <<failing, notifying>>
admin == <<callback, admin_lock>>
vars == <<connections, closed, entries, wire, peers, states, removals, leaving, received, outbox, admin>>

-----------------------------------------------------------------------------
(* BiHashMap and PeerMap. *)

Get(f, k) == IF k \in DOMAIN f THEN f[k] ELSE None
With(f, k, v) == [x \in DOMAIN f \cup {k} |-> IF x = k THEN v ELSE f[x]]
Without(f, k) == Restrict(f, DOMAIN f \ {k})
NoPairs == [kv |-> <<>>, vk |-> <<>>]

insert(m, k, v) == [kv |-> With(m.kv, k, v), vk |-> With(m.vk, v, k)]
remove_by_key(m, k) ==
    IF k \notin DOMAIN m.kv THEN m ELSE [kv |-> Without(m.kv, k), vk |-> Without(m.vk, m.kv[k])]
\* Whether remove_by_key answers with the pair: the inverse entry is needed for it.
Removes(m, k) == k \in DOMAIN m.kv /\ m.kv[k] \in DOMAIN m.vk

PeerInsert(pm, id, c, endpoint) ==
    [pm EXCEPT !.peers = insert(@, id, c), !.endpoints = insert(@, id, endpoint)]

PeerRemove(pm, id) ==
    [peers |-> remove_by_key(pm.peers, id),
     endpoints |-> remove_by_key(pm.endpoints, id),
     redirects |-> Restrict(pm.redirects, {i \in DOMAIN pm.redirects : pm.redirects[i] # id})]

\* Of a peer that its removal answers with; else the update fails.
PeerUpdate(pm, old, new) ==
    LET without == remove_by_key(pm.endpoints, old)
    IN [peers |-> insert(remove_by_key(pm.peers, old), new, pm.peers.kv[old]),
        endpoints |-> IF Removes(pm.endpoints, old)
                      THEN insert(without, new, pm.endpoints.kv[old]) ELSE without,
        redirects |-> [i \in DOMAIN pm.redirects \cup {old} |->
            IF i = old \/ pm.redirects[i] = old THEN new ELSE pm.redirects[i]]]

Redirected(map, pm, id) ==
    IF Get(pm.redirects, id) \in DOMAIN map.kv THEN map.kv[pm.redirects[id]] ELSE Get(map.kv, id)
get_mesh_id(n, id) == Redirected(peers[n].peers, peers[n], id)
get_peer_endpoint(n, id) == Redirected(peers[n].endpoints, peers[n], id)
get_peer_by_endpoint(n, endpoint) == Get(peers[n].endpoints.vk, endpoint)

-----------------------------------------------------------------------------
Msg(type, arg) == [type |-> type, arg |-> arg]
Ends(c) == IF Link[c].how = "inproc" THEN {Link[c].to} ELSE {Link[c].from, Link[c].to}
Side(c, n) == IF Link[c].to = n THEN "to" ELSE "from"
OtherSide(c, n) == IF Link[c].to = n THEN "from" ELSE "to"

Init ==
    /\ workload \in Workloads
    /\ opened = {} /\ accepted = {} /\ closed = {} /\ dialling = {}
    /\ entries = [n \in Nodes |-> {}]
    /\ wire = [c \in Conns |-> [from |-> <<>>, to |-> <<>>]]
    /\ peers = [n \in Nodes |->
         [peers |-> NoPairs, endpoints |-> NoPairs, redirects |-> <<>>]]
    /\ states = [n \in Nodes |-> <<>>]
    /\ removals = [n \in Nodes |-> {}] /\ notifying = [n \in Nodes |-> {}] /\ failing = [n \in Nodes |-> {}]
    /\ received = [n \in Nodes |-> <<>>] /\ outbox = [n \in Nodes |-> <<>>]
    /\ callback = [n \in Nodes |-> None] /\ admin_lock = {}
    /\ happened = [closes |-> 0, errors |-> 0, submissions |-> 0]

-----------------------------------------------------------------------------
(* Connections. *)

\* The daemon knows the IDs of the nodes in its circuit directory, and not those of its initial
\* peers.
Dialled(c) == IF Link[c].how = "known" THEN Named(Link[c].to) ELSE Temp(c)

ConnectRequest == Msg("ConnectRequest", "BIDIRECTIONAL")

\* PeerConnector::connect_peer and connect_unidentified_peer, up to add_peer: they hold the
\* transport's lock to the end, and do nothing when a peer with the endpoint is known.  A
\* service within the process has no map of its own.
connect_peer(c) ==
    LET n == Link[c].from
        map == PeerInsert(peers[n], Dialled(c), c, Listening(Link[c].to))
    IN /\ c \in workload.links \ opened
       /\ opened' = opened \cup {c}
       /\ \/ /\ Link[c].how = "inproc"
             /\ wire' = [wire EXCEPT ![c].to = <<ConnectRequest>>]
             /\ UNCHANGED <<dialling, peers, entries>>
          \/ /\ Link[c].how # "inproc"
             /\ \A d \in dialling : Link[d].from # n
             /\ get_peer_by_endpoint(n, Listening(Link[c].to)) = None
             /\ dialling' = dialling \cup {c}
             /\ peers' = [peers EXCEPT ![n] = map] /\ entries' = [entries EXCEPT ![n] = @ \cup {c}]
             /\ UNCHANGED wire
       /\ UNCHANGED <<workload, accepted, happened, closed, states, removals, leaving, received, outbox, admin>>

\* The thread that listens for peers adds them under an ID of their own.
Incoming(pm, c) == PeerInsert(pm, Temp(c), c, Ephemeral(c))

\* Network::add_connection of a listener's thread, and add_peer for the internal services.
Accept(c) ==
    LET n == Link[c].to
    IN /\ c \in opened \ accepted
       /\ accepted' = accepted \cup {c}
       /\ entries' = [entries EXCEPT ![n] = @ \cup {c}]
       /\ peers' = [peers EXCEPT ![n] =
            IF Link[c].how = "inproc" THEN PeerInsert(@, Service(c), c, Inproc)
            ELSE Incoming(@, c)]
       /\ UNCHANGED <<workload, opened, dialling, happened, closed, wire, states, removals, leaving, received, outbox, admin>>

Count(what) ==
    /\ happened[what] < workload[what]
    /\ happened' = [happened EXCEPT ![what] = @ + 1]

Close(c) ==
    /\ c \in opened \ closed
    /\ Count("closes")
    /\ closed' = closed \cup {c}
    /\ UNCHANGED <<workload, opened, accepted, dialling, entries, wire, peers, states, removals, leaving, received, outbox, admin>>

\* Mutant of ReactorDrops: the entry stays in the pool, and sends to it succeed.
ReactorKeeps(n, c) ==
    /\ c \in closed \cap entries[n]
    /\ wire' = [wire EXCEPT ![c] = [@ EXCEPT ![Side(c, n)] = <<>>]]
    /\ UNCHANGED <<connections, closed, entries, peers, states, removals, leaving, received, outbox, admin>>

\* Pool::handle_event removes a connection that fails; what was read before is still received.
ReactorDrops(n, c) ==
    /\ c \in closed \cap entries[n]
    /\ entries' = [entries EXCEPT ![n] = @ \ {c}]
    /\ \E k \in {0, Len(wire[c][Side(c, n)])} :
          wire' = [wire EXCEPT ![c][Side(c, n)] = SubSeq(@, 1, k)]
    /\ UNCHANGED <<connections, closed, peers, states, removals, leaving, received, outbox, admin>>

\* A peer of another implementation may refuse: nothing here sends AUTHORIZATION_ERROR.
Refuse(c) ==
    /\ c \in accepted /\ c \notin closed
    /\ Count("errors")
    /\ wire' = [wire EXCEPT ![c].to = Append(@, Msg("AuthorizationError", None))]
    /\ UNCHANGED <<workload, opened, accepted, dialling, closed, entries, peers, states, removals, leaving, received, outbox, admin>>

-----------------------------------------------------------------------------
(* Network::send and recv. *)

NetworkSend(n, id, m) ==
    LET c == get_mesh_id(n, id)
        sent == c # None /\ c \in entries[n]
    IN /\ failing' = [failing EXCEPT ![n] = IF c = None \/ sent THEN @ ELSE @ \cup {id}]
       /\ wire' = IF sent /\ c \notin closed
                  THEN [wire EXCEPT ![c][OtherSide(c, n)] = Append(@, m)] ELSE wire

\* The end of connect_peer, with the ID: by now it may be that of a connection the peer made.
SendConnectRequest(c) ==
    /\ c \in dialling
    /\ dialling' = dialling \ {c}
    /\ NetworkSend(Link[c].from, Dialled(c), ConnectRequest)
    /\ UNCHANGED <<workload, opened, accepted, happened, closed, entries, peers, states, removals, notifying, received, outbox, admin>>

\* NetworkMessageSender::run.
SendNext(n) ==
    /\ outbox[n] # <<>>
    /\ outbox' = [outbox EXCEPT ![n] = Tail(@)]
    /\ NetworkSend(n, Head(outbox[n]).to, Head(outbox[n]).msg)
    /\ UNCHANGED <<connections, closed, entries, peers, states, removals, notifying, received, admin>>

\* The heartbeat thread, where it finds a connection gone.
Heartbeat(n, id) ==
    /\ id \in DOMAIN peers[n].peers.kv \ failing[n]
    /\ get_mesh_id(n, id) \notin entries[n]
    /\ failing' = [failing EXCEPT ![n] = @ \cup {id}]
    /\ UNCHANGED <<connections, closed, entries, wire, peers, states, removals, notifying, received, outbox, admin>>

\* Mutant of Lost: the listeners are not told.
LostSilently(n, id) ==
    /\ id \in failing[n]
    /\ failing' = [failing EXCEPT ![n] = @ \ {id}]
    /\ peers' = [peers EXCEPT ![n] = PeerRemove(@, id)]
    /\ UNCHANGED <<connections, closed, entries, wire, states, removals, notifying, received, outbox, admin>>

\* The end of a send to a connection that the mesh does not have: by now the ID may be
\* another connection's.
Lost(n, id) ==
    /\ id \in failing[n]
    /\ failing' = [failing EXCEPT ![n] = @ \ {id}]
    /\ peers' = [peers EXCEPT ![n] = PeerRemove(@, id)]
    /\ notifying' = [notifying EXCEPT ![n] = @ \cup {id}]
    /\ UNCHANGED <<connections, closed, entries, wire, states, removals, received, outbox, admin>>

\* notify_disconnect_listeners, after the map is unlocked.
Notify(n, id) ==
    /\ id \in notifying[n]
    /\ notifying' = [notifying EXCEPT ![n] = @ \ {id}]
    /\ removals' = [removals EXCEPT ![n] = @ \cup {id}]
    /\ UNCHANGED <<connections, closed, entries, wire, peers, states, failing, received, outbox, admin>>

\* Network::recv_timeout: the peer is the one of the connection at this time.
Recv(n, c) ==
    LET side == Side(c, n)
        id == Get(peers[n].peers.vk, c)
    IN /\ n \in Ends(c) /\ wire[c][side] # <<>>
       /\ c \in (IF side = "to" THEN accepted ELSE opened)
       /\ wire' = [wire EXCEPT ![c][side] = Tail(@)]
       /\ received' = IF id = None THEN received
                      ELSE [received EXCEPT ![n] = Append(@, [from |-> id, msg |-> Head(wire[c][side])])]
       /\ UNCHANGED <<connections, closed, entries, peers, states, removals, leaving, outbox, admin>>

-----------------------------------------------------------------------------
(* AuthorizationManager::next_state and the handlers. *)

Drained(n) == Restrict(states[n], DOMAIN states[n] \ removals[n])
Reply(to, m) == [to |-> to, msg |-> m]

\* The handler takes its message; next_state drains the removals; replies are sent at once
\* or, when there is a callback first, after it.
Handles(n, type) ==
    /\ received[n] # <<>> /\ Head(received[n]).msg.type = type
    /\ callback[n] = None
    /\ received' = [received EXCEPT ![n] = Tail(@)]
    /\ UNCHANGED <<connections, wire, leaving, admin_lock>>

Becomes(n, new) == states' = [states EXCEPT ![n] = new]
Send(n, replies) == outbox' = [outbox EXCEPT ![n] = @ \o replies] /\ UNCHANGED callback
CallBack(n, replies) == callback' = [callback EXCEPT ![n] = replies] /\ UNCHANGED outbox

\* Mutant of ConnectReplies: the request is not made in the other direction.
OneDirection(from, mode) == <<Reply(from, Msg("ConnectResponse", IF mode = None THEN None ELSE "TRUST"))>>

ConnectReplies(from, mode) ==
    (IF mode = "BIDIRECTIONAL" THEN <<Reply(from, Msg("ConnectRequest", "UNIDIRECTIONAL"))>> ELSE <<>>)
        \o <<Reply(from, Msg("ConnectResponse", "TRUST"))>>

HandleConnectRequest(n) ==
    LET from == Head(received[n]).from
        mode == Head(received[n]).msg.arg
    IN /\ Handles(n, "ConnectRequest")
       /\ IF from \in DOMAIN Drained(n)
          THEN Becomes(n, Drained(n)) /\ Send(n, <<>>)
          ELSE IF get_peer_endpoint(n, from) = Inproc
          THEN /\ Becomes(n, With(Drained(n), from, "Internal"))
               /\ CallBack(n, <<Reply(from, Msg("Authorize", None))>>)
          ELSE /\ Becomes(n, With(Drained(n), from, "Connecting"))
               /\ Send(n, ConnectReplies(from, mode))
       /\ removals' = [removals EXCEPT ![n] = {}]
       /\ UNCHANGED <<closed, entries, peers>>

\* The manager is not asked.
HandleConnectResponse(n) ==
    /\ Handles(n, "ConnectResponse")
    /\ Send(n, <<Reply(Head(received[n]).from, Msg("TrustRequest", n))>>)
    /\ UNCHANGED <<closed, entries, peers, states, removals>>

HandleTrustRequest(n) ==
    LET from == Head(received[n]).from
        new == Named(Head(received[n]).msg.arg)
        forgotten == Without(Drained(n), from)
    IN /\ Handles(n, "TrustRequest")
       /\ IF Get(Drained(n), from) # "Connecting"
          THEN Becomes(n, Drained(n)) /\ Send(n, <<>>) /\ UNCHANGED peers
          ELSE IF ~ Removes(peers[n].peers, from)
          THEN /\ peers' = [peers EXCEPT ![n].peers = remove_by_key(@, from)]
               /\ Becomes(n, forgotten) /\ Send(n, <<>>)
          ELSE /\ peers' = [peers EXCEPT ![n] = PeerUpdate(@, from, new)]
               /\ Becomes(n, With(forgotten, new, "Authorized"))
               /\ CallBack(n, <<Reply(new, Msg("Authorize", None))>>)
       /\ removals' = [removals EXCEPT ![n] = {}]
       /\ UNCHANGED <<closed, entries>>

HandleAuthorize(n) ==
    /\ Handles(n, "Authorize")
    /\ Send(n, <<>>)
    /\ UNCHANGED <<closed, entries, peers, states, removals>>

\* Network::remove_connection tells the listeners only when the mesh had the connection.
HandleAuthorizationError(n) ==
    LET from == Head(received[n]).from
        c == IF Removes(peers[n].peers, from) THEN peers[n].peers.kv[from] ELSE None
        was == Get(Drained(n), from)
        gone == c # None /\ c \notin entries[n]
    IN /\ Handles(n, "AuthorizationError")
       /\ Becomes(n, IF was = "Internal" THEN Drained(n) ELSE Without(Drained(n), from))
       /\ IF was = "Internal" \/ c = None
          THEN /\ removals' = [removals EXCEPT ![n] = {}]
               /\ peers' = IF was = "Internal" THEN peers ELSE [peers EXCEPT ![n] = PeerRemove(@, from)]
               /\ UNCHANGED <<closed, entries>>
          ELSE /\ peers' = [peers EXCEPT ![n] = PeerRemove(@, from)]
               /\ removals' = [removals EXCEPT ![n] = IF gone THEN {} ELSE {from}]
               /\ entries' = [entries EXCEPT ![n] = @ \ {c}]
               /\ closed' = closed \cup {c}
       /\ IF was \in {"Connecting", "Authorized"} /\ ~ gone THEN CallBack(n, <<>>) ELSE Send(n, <<>>)

\* AdminService's on_authorization_change takes the admin service's lock; then the manager's
\* is released, and the handler replies.
CallbackReturns(n) ==
    /\ callback[n] # None /\ n \notin admin_lock
    /\ callback' = [callback EXCEPT ![n] = None]
    /\ outbox' = [outbox EXCEPT ![n] = @ \o callback[n]]
    /\ UNCHANGED <<connections, closed, entries, wire, peers, states, removals, leaving, received, admin_lock>>

\* A submission takes the lock, and then asks the manager which members are authorized.
Submit(n) ==
    /\ n \notin admin_lock
    /\ Count("submissions")
    /\ admin_lock' = admin_lock \cup {n}
    /\ UNCHANGED <<workload, opened, accepted, dialling, closed, entries, wire, peers, states, removals, leaving, received, outbox, callback>>

is_authorized(n) ==
    /\ n \in admin_lock /\ callback[n] = None
    /\ admin_lock' = admin_lock \ {n}
    /\ Becomes(n, Drained(n))
    /\ removals' = [removals EXCEPT ![n] = {}]
    /\ UNCHANGED <<connections, closed, entries, wire, peers, leaving, received, outbox, callback>>

-----------------------------------------------------------------------------
Handler(n) ==
    \/ HandleConnectRequest(n) \/ HandleConnectResponse(n) \/ HandleTrustRequest(n)
    \/ HandleAuthorize(n) \/ HandleAuthorizationError(n)

Thread(n) ==
    \/ Handler(n) \/ CallbackReturns(n) \/ SendNext(n) \/ is_authorized(n)
    \/ \E c \in Conns : ReactorDrops(n, c) \/ Recv(n, c) \/ (Link[c].from = n /\ SendConnectRequest(c))
    \/ \E id \in DOMAIN peers[n].peers.kv : Heartbeat(n, id)
    \/ \E id \in failing[n] : Lost(n, id)
    \/ \E id \in notifying[n] : Notify(n, id)

Next ==
    \/ \E c \in Conns : connect_peer(c) \/ Accept(c) \/ Close(c) \/ Refuse(c)
    \/ \E n \in Nodes : Thread(n) \/ Submit(n)

\* Every thread keeps running, of which this is the part that is needed: while one of a node's
\* threads can take a step, one does.  Nothing is connected, closed or submitted by fairness.
Fairness == WF_vars(\E c \in Conns : Accept(c)) /\ \A n \in Nodes : WF_vars(Thread(n))

FairSpec == Init /\ [][Next]_vars /\ Fairness

-----------------------------------------------------------------------------
(* Properties. *)

\* What is_authorized answers, which drains the removals first.
Authorized(n, id) == Get(states[n], id) = "Authorized" /\ id \notin removals[n]

\* The manager's states and the map of peers, which have a lock each, do not part: a peer that
\* counts as authorized is in the map, or the news that it is not is on its way.
AuthorizedIsPeer ==
    \A n \in Nodes : \A id \in DOMAIN states[n] :
        Authorized(n, id) => id \in DOMAIN peers[n].peers.kv \cup notifying[n]

\* The handshake that a connection starts ends with both nodes authorizing one another, also
\* when they connect to each other at the same time, if nothing is closed or
\* refused and no submission holds a lock.
HandshakeCompletes ==
    opened # {} /\ workload.closes = 0 /\ workload.errors = 0 /\ workload.submissions = 0
    ~> \A c \in opened : Link[c].how # "inproc" =>
         Authorized(Link[c].from, Named(Link[c].to)) /\ Authorized(Link[c].to, Named(Link[c].from))

AllClosed(n, m) == \A c \in opened : Ends(c) = {n, m} => c \in closed

\* A peer whose connections are all closed does not stay authorized: the reactor, a heartbeat
\* or a send, and the listeners see to it.
GoneIsForgotten ==
    []<>(\A n, m \in Nodes : ~ (AllClosed(n, m) /\ Authorized(n, Named(m))))

\* A handler's callback returns: "the expectation is that the dispatcher should not block the
\* current thread", as the documentation of Dispatcher says.
HandlersReturn == \A n \in Nodes : callback[n] # None ~> callback[n] = None
=============================================================================
