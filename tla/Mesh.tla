-------------------------------- MODULE Mesh --------------------------------
(***************************************************************************)
(* The mesh (mesh/): threads add, remove, send to and receive from         *)
(* connections that one reactor thread holds and polls.  Requests reach    *)
(* the reactor through a control channel; every connection has a bounded   *)
(* outgoing queue, and all share one bounded incoming queue.  A connection *)
(* is named by the ID the pool gives it, which is never given again.       *)
(* Messages are numbered in the order in which they are accepted.          *)
(***************************************************************************)
EXTENDS Naturals, Sequences

CONSTANTS
    Conns,
    Threads,            \* threads that add and remove connections
    incoming_capacity,
    outgoing_capacity,
    MaxMessages,        \* bound: messages sent each way on a connection
    MaxBlocks,          \* bound: how often a connection's send would block
    None

VARIABLES
    ctrl_rx,      \* requests to the reactor
    caller,       \* what each thread waits for
    entries,      \* connections in the pool
    outgoings,    \* connections with a handle in the mesh's map
    queue,        \* their outgoing queues
    cached,       \* the message that would block
    writable,     \* write_evented_guard: polled for writing as well
    incoming,     \* the incoming queue
    accepted,     \* messages accepted by send (history)
    written,      \* messages written to the connection (history)
    arriving,     \* messages that the connection has for the reactor
    arrived,      \* how many have been (history)
    taken,        \* messages that were received from the mesh (history)
    closed,       \* connections closed by the other side
    fate,         \* what came of each connection: added, removed or dropped (history)
    missed,       \* removals that found nothing (history)
    blocks

control == <<ctrl_rx, caller, missed>>
sending == <<queue, cached, writable, accepted, written, blocks>>
receiving == <<incoming, arriving, arrived, taken>>
vars == <<control, sending, receiving, entries, outgoings, closed, fate>>

Idle == [op |-> None, conn |-> None, response |-> None]
Cached(c) == IF cached[c] = None THEN <<>> ELSE <<cached[c]>>

Init ==
    /\ ctrl_rx = <<>>
    /\ caller = [t \in Threads |-> Idle]
    /\ entries = {} /\ outgoings = {}
    /\ queue = [c \in Conns |-> <<>>]
    /\ cached = [c \in Conns |-> None]
    /\ writable = [c \in Conns |-> FALSE]
    /\ incoming = <<>>
    /\ accepted = [c \in Conns |-> 0] /\ written = [c \in Conns |-> <<>>]
    /\ arriving = [c \in Conns |-> <<>>] /\ arrived = [c \in Conns |-> 0]
    /\ taken = [c \in Conns |-> <<>>]
    /\ closed = {}
    /\ fate = [c \in Conns |-> "new"]
    /\ missed = {}
    /\ blocks = 0

-----------------------------------------------------------------------------
(* Threads that use the mesh. *)

Request(t, op, c) ==
    /\ caller[t] = Idle
    /\ ctrl_rx' = Append(ctrl_rx, [op |-> op, thread |-> t, conn |-> c])
    /\ caller' = [caller EXCEPT ![t] = [op |-> op, conn |-> c, response |-> None]]

\* Mesh::add, up to the request.
Add(t, c) ==
    /\ fate[c] = "new"
    /\ Request(t, "add", c)
    /\ fate' = [fate EXCEPT ![c] = "adding"]
    /\ UNCHANGED <<missed, sending, receiving, entries, outgoings, closed>>

\* Mutant of Remove: the handle is removed before the request is made.
RemoveHandleFirst(t, c) ==
    /\ c \in outgoings
    /\ Request(t, "remove", c)
    /\ outgoings' = outgoings \ {c}
    /\ UNCHANGED <<missed, sending, receiving, entries, closed, fate>>

\* Mesh::remove, up to the request.
Remove(t, c) ==
    /\ c \in outgoings
    /\ Request(t, "remove", c)
    /\ UNCHANGED <<missed, sending, receiving, entries, outgoings, closed, fate>>

\* The rest of add or remove, once the reactor has answered.
Finish(t) ==
    LET done == caller[t]
    IN /\ done.response # None
       /\ caller' = [caller EXCEPT ![t] = Idle]
       /\ outgoings' = IF done.response # "Ok" THEN outgoings
                       ELSE IF done.op = "add" THEN outgoings \cup {done.conn}
                       ELSE outgoings \ {done.conn}
       /\ missed' = IF done.response = "NotFound" THEN missed \cup {done.conn} ELSE missed
       /\ UNCHANGED <<ctrl_rx, sending, receiving, entries, closed, fate>>

\* Mesh::send; a full queue, or one whose connection is gone, is an error.
Send(c) ==
    /\ c \in outgoings /\ c \in entries
    /\ Len(queue[c]) < outgoing_capacity
    /\ accepted[c] < MaxMessages
    /\ accepted' = [accepted EXCEPT ![c] = @ + 1]
    /\ queue' = [queue EXCEPT ![c] = Append(@, accepted'[c])]
    /\ UNCHANGED <<cached, writable, written, blocks, control, receiving, entries, outgoings, closed, fate>>

\* Mesh::recv.
Recv ==
    /\ incoming # <<>>
    /\ LET e == Head(incoming) IN taken' = [taken EXCEPT ![e.id] = Append(@, e.payload)]
    /\ incoming' = Tail(incoming)
    /\ UNCHANGED <<arriving, arrived, control, sending, entries, outgoings, closed, fate>>

-----------------------------------------------------------------------------
(* The reactor. *)

Answer(t, response) == caller' = [caller EXCEPT ![t].response = response]

\* Entries whose connection the pool drops by itself.
Drop(c) ==
    /\ entries' = entries \ {c}
    /\ fate' = [fate EXCEPT ![c] = "dropped"]

\* Reactor::handle_control_ready; registering with the poll may fail.
HandleAdd ==
    /\ ctrl_rx # <<>> /\ Head(ctrl_rx).op = "add"
    /\ ctrl_rx' = Tail(ctrl_rx)
    /\ LET r == Head(ctrl_rx)
       IN \/ /\ entries' = entries \cup {r.conn}
             /\ fate' = [fate EXCEPT ![r.conn] = "added"]
             /\ Answer(r.thread, "Ok")
          \/ /\ fate' = [fate EXCEPT ![r.conn] = "dropped"]
             /\ Answer(r.thread, "Io")
             /\ UNCHANGED entries
    /\ UNCHANGED <<missed, sending, receiving, outgoings, closed>>

HandleRemove ==
    /\ ctrl_rx # <<>> /\ Head(ctrl_rx).op = "remove"
    /\ ctrl_rx' = Tail(ctrl_rx)
    /\ LET r == Head(ctrl_rx)
       IN IF r.conn \in entries
          THEN /\ entries' = entries \ {r.conn}
               /\ fate' = [fate EXCEPT ![r.conn] = "removed"]
               /\ Answer(r.thread, "Ok") \/ Answer(r.thread, "Io")
          ELSE Answer(r.thread, "NotFound") /\ UNCHANGED <<entries, fate>>
    /\ UNCHANGED <<missed, sending, receiving, outgoings, closed>>

\* Mutant of WouldBlock: the connection is not polled for writing.
WouldBlockUnpolled(c, m) ==
    /\ blocks < MaxBlocks
    /\ blocks' = blocks + 1
    /\ cached' = [cached EXCEPT ![c] = m]
    /\ UNCHANGED <<writable, written, entries, fate>>

\* A Connection may answer SendError::WouldBlock (transport/mod.rs), although rw::write does
\* not: it sleeps and tries again.
WouldBlock(c, m) ==
    /\ blocks < MaxBlocks
    /\ blocks' = blocks + 1
    /\ cached' = [cached EXCEPT ![c] = m]
    /\ writable' = [writable EXCEPT ![c] = TRUE]
    /\ UNCHANGED <<written, entries, fate>>

try_send_connection_or_cache(c, m) ==
    \/ /\ c \notin closed
       /\ written' = [written EXCEPT ![c] = Append(@, m)]
       /\ cached' = [cached EXCEPT ![c] = None]
       /\ writable' = [writable EXCEPT ![c] = FALSE]
       /\ UNCHANGED <<blocks, entries, fate>>
    \/ c \notin closed /\ WouldBlock(c, m)
    \/ /\ c \in closed
       /\ Drop(c)
       /\ cached' = [cached EXCEPT ![c] = None]
       /\ UNCHANGED <<writable, written, blocks>>

HandleHeld(c) == c \in outgoings \/ \E t \in Threads : caller[t].op = "add" /\ caller[t].conn = c

\* Mutant of outgoing_wants_read: the queue is read although a message is cached.
WantsReadAlways(c) == c \in entries

outgoing_wants_read(c) == c \in entries /\ cached[c] = None

\* The queue is read; when it is empty and no handle is left, the entry is removed.
try_read_outgoing(c) ==
    /\ outgoing_wants_read(c)
    /\ \/ /\ queue[c] # <<>>
          /\ queue' = [queue EXCEPT ![c] = Tail(@)]
          /\ try_send_connection_or_cache(c, Head(queue[c]))
       \/ /\ queue[c] = <<>> /\ ~ HandleHeld(c)
          /\ Drop(c)
          /\ UNCHANGED <<queue, cached, writable, written, blocks>>
    /\ UNCHANGED <<accepted, control, receiving, outgoings, closed>>

try_send_connection_from_cached(c) ==
    /\ c \in entries /\ writable[c] /\ cached[c] # None
    /\ try_send_connection_or_cache(c, cached[c])
    /\ UNCHANGED <<queue, accepted, control, receiving, outgoings, closed>>

IncomingHasRoom == Len(incoming) < incoming_capacity

\* A message that finds the queue full after all is dropped.
try_read_connection(c) ==
    /\ c \in entries /\ IncomingHasRoom
    /\ \/ /\ arriving[c] # <<>>
          /\ arriving' = [arriving EXCEPT ![c] = Tail(@)]
          /\ incoming' = IF Len(incoming) < incoming_capacity
                         THEN Append(incoming, [id |-> c, payload |-> Head(arriving[c])]) ELSE incoming
          /\ UNCHANGED <<entries, fate>>
       \/ /\ arriving[c] = <<>> /\ c \in closed
          /\ Drop(c)
          /\ UNCHANGED <<arriving, incoming>>
    /\ UNCHANGED <<arrived, taken, control, sending, outgoings, closed>>

-----------------------------------------------------------------------------
(* The other side of a connection. *)

PeerSends(c) ==
    /\ fate[c] # "new" /\ c \notin closed /\ arrived[c] < MaxMessages
    /\ arrived' = [arrived EXCEPT ![c] = @ + 1]
    /\ arriving' = [arriving EXCEPT ![c] = Append(@, arrived'[c])]
    /\ UNCHANGED <<incoming, taken, control, sending, entries, outgoings, closed, fate>>

PeerCloses(c) ==
    /\ fate[c] # "new" /\ c \notin closed
    /\ closed' = closed \cup {c}
    /\ UNCHANGED <<control, sending, receiving, entries, outgoings, fate>>

-----------------------------------------------------------------------------
Reactor ==
    \/ HandleAdd
    \/ HandleRemove
    \/ \E c \in Conns : try_read_outgoing(c) \/ try_send_connection_from_cached(c) \/ try_read_connection(c)

Next ==
    \/ Reactor
    \/ \E t \in Threads : Finish(t) \/ \E c \in Conns : Add(t, c) \/ Remove(t, c)
    \/ \E c \in Conns : Send(c) \/ PeerSends(c) \/ PeerCloses(c)
    \/ Recv

\* The reactor handles every event of a turn, and threads take the answers.
Fairness ==
    /\ WF_vars(HandleAdd \/ HandleRemove)
    /\ \A c \in Conns : WF_vars(try_read_outgoing(c)) /\ WF_vars(try_send_connection_from_cached(c))
    /\ \A t \in Threads : WF_vars(Finish(t))

FairSpec == Init /\ [][Next]_vars /\ Fairness

-----------------------------------------------------------------------------
(* Properties. *)

UpTo(n) == [i \in 1..n |-> i]
Payloads(c) ==
    LET mine == SelectSeq(incoming, LAMBDA e : e.id = c)
    IN [i \in DOMAIN mine |-> mine[i].payload]

\* Nothing is lost, doubled or reordered in the queues: what was accepted is written, the
\* message that would block before those still queued, and what has arrived is received, the
\* full incoming queue included; as long as the connection is in the pool.
NothingLost ==
    \A c \in entries :
        /\ written[c] \o Cached(c) \o queue[c] = UpTo(accepted[c])
        /\ taken[c] \o Payloads(c) \o arriving[c] = UpTo(arrived[c])

\* A connection that is in use is found by remove: it is missed only when it was closed by the
\* other side, or removed by another thread, and not because the reactor noticed that the
\* handle is gone, as the comment in Mesh::remove says.
RemoveFinds == \A c \in missed : c \in closed \/ fate[c] = "removed"

\* A message that send accepted is written, or its connection leaves the pool; also when
\* the connection would block and then would block again, up to MaxBlocks times.  The pool
\* does this for any Connection: of those in transport/ the stream's own write waits instead.
AcceptedIsWritten ==
    \A c \in Conns : \A i \in 1..MaxMessages :
        accepted[c] >= i ~> (Len(written[c]) >= i \/ c \notin entries)
=============================================================================
