------------------------------ MODULE MCNetwork ------------------------------
(* The network of peers, the mesh and the transports for TLC.  Each          *)
(* behaviour is about one of them, the subject; the others stay as they are  *)
(* at first, where none of their fair actions is enabled.                    *)
EXTENDS PeerNetwork, TLC

CONSTANTS MeshConns, Threads, incoming_capacity, outgoing_capacity, MaxMessages, MaxBlocks, Orders, BufferSize, Subjects

VARIABLES
    subject,
    ctrl_rx, caller, outgoings, queue, cached, writable, incoming, written, arriving, arrived, taken,
    fate, missed, blocks, mesh_entries, mesh_accepted, mesh_closed,
    transports, listening, kind, stage, op, sent, pipe, readable, part, got, torn

mesh_vars ==
    <<ctrl_rx, caller, outgoings, queue, cached, writable, incoming, written, arriving, arrived, taken,
      fate, missed, blocks, mesh_entries, mesh_accepted, mesh_closed>>

Mesh == INSTANCE Mesh WITH
    Conns <- MeshConns, entries <- mesh_entries, accepted <- mesh_accepted, closed <- mesh_closed

transport_vars == <<transports, listening, kind, stage, op, sent, pipe, readable, part, got, torn>>

Transport == INSTANCE Transports WITH wire <- pipe, received <- got

\* What the daemon makes: the transport of its configuration and inproc.
DaemonOrders == {<<"tcp", "inproc">>, <<"tls", "inproc">>}

From(a, b, how) == [from |-> a, to |-> b, how |-> how]
ALink ==
    1 :> From("a", "b", "known") @@ 2 :> From("b", "a", "known")
    @@ 3 :> From("a", "b", "unidentified") @@ 4 :> From("a", "a", "inproc")

Load(links, closes, errors, submissions) ==
    [links |-> links, closes |-> closes, errors |-> errors, submissions |-> submissions]

\* Nodes that connect to each other at once; by an endpoint only, with a service within the
\* process; connections that fail or are refused; a circuit is submitted meanwhile.
Handshakes == {Load({1, 2}, 0, 0, 0), Load({3, 4}, 0, 0, 0), Load({1}, 1, 0, 0), Load({3}, 0, 1, 0), Load({1}, 0, 0, 1)}
Submitting == {Load({1}, 0, 0, 1)}
Meeting == {Load({1, 2}, 0, 0, 0)}

NetInit ==
    /\ Init /\ Mesh!Init /\ Transport!Init
    /\ subject \in Subjects
    /\ subject # "peers" => workload = CHOOSE w \in Workloads : TRUE
    /\ subject # "transports" => transports = <<"tcp", "inproc">>

NetNext ==
    /\ UNCHANGED subject
    /\ \/ subject = "peers" /\ Next /\ UNCHANGED mesh_vars /\ UNCHANGED transport_vars
       \/ subject = "mesh" /\ Mesh!Next /\ UNCHANGED vars /\ UNCHANGED transport_vars
       \/ subject = "transports" /\ Transport!Next /\ UNCHANGED vars /\ UNCHANGED mesh_vars

NetSpec ==
    /\ NetInit
    /\ [][NetNext]_<<subject, vars, mesh_vars, transport_vars>>
    /\ Fairness /\ Mesh!Fairness /\ Transport!Fairness

\* Mesh: what is accepted is written once and in order, or is still queued.
NothingLost == Mesh!NothingLost
\* Mesh: a removal finds the connection unless the reactor dropped it.
RemoveFinds == Mesh!RemoveFinds
\* Mesh: an accepted message is written in the end, if the connection stays.
AcceptedIsWritten == Mesh!AcceptedIsWritten
\* Transports: what an end of a connection sends is received, as it was sent and in its place,
\* unless an end closes, both wait for each other in send, or read drops part of a length.
SentIsReceived == Transport!SentIsReceived
=============================================================================
