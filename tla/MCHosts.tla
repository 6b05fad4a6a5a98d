------------------------------ MODULE MCHosts -------------------------------
(***************************************************************************)
(* Instances of Services, AdminEvents and EventClient: the threads that    *)
(* services run on, the events that the admin service and a scabbard       *)
(* service offer applications, and the websocket clients of applications.  *)
(* A behaviour is one of one of them, its subject, while the others stay   *)
(* as they start.                                                          *)
(***************************************************************************)
EXTENDS Services

CONSTANTS
    EventReaders, Types, Bound, CacheSize, MaxEvents, MaxClock,
    WsClients, Reconnecting, Restarting, reconnect_limit, MaxFutures, None,
    Subjects  \* the components to check

VARIABLES
    clock, mailbox, events_sent, subscribers, commit_history, conn, owed, stopped,
    futures, channel, connections, reactor, waiting,
    subject

Events == INSTANCE AdminEvents WITH Clients <- EventReaders, sent <- events_sent
Client == INSTANCE EventClient WITH Clients <- WsClients

events_vars == <<clock, mailbox, events_sent, subscribers, commit_history, conn, owed, stopped>>
client_vars == <<futures, channel, connections, reactor, waiting>>

Load(services, rejected, to, messages, failures, fulls, ctrlc) ==
    [services |-> services, rejected |-> rejected, to |-> to, messages |-> messages, errors |-> failures,
     full |-> fulls, ctrlc |-> ctrlc]
Stopped == Load({"s1"}, {}, {"s1"}, 1, 0, 0, TRUE)

\* Two services start while messages fill the channels; a queue of the mesh is full; a service
\* is rejected by the node; one fails on a message; a node with one service is stopped.
Loads ==
    {Load({"s1", "s2"}, {}, {Admin, "s1"}, 2, 0, 0, FALSE), Load({"s1", "s2"}, {}, {Admin, "s1"}, 1, 0, 1, FALSE),
     Load({"s1", "s2"}, {"s1"}, {Admin, "s1"}, 1, 0, 0, FALSE), Load({"s1"}, {}, {Admin, "s1"}, 2, 1, 0, FALSE),
     Stopped}

HostsInit ==
    /\ subject \in Subjects
    /\ Init /\ Events!Init /\ Client!Init
    /\ subject # "services" => workload = Stopped

HostsNext ==
    /\ UNCHANGED subject
    /\ \/ subject = "services" /\ Next /\ UNCHANGED events_vars /\ UNCHANGED client_vars
       \/ subject = "events" /\ Events!Next /\ UNCHANGED vars /\ UNCHANGED client_vars
       \/ subject = "state" /\ Events!StateNext /\ UNCHANGED vars /\ UNCHANGED client_vars
       \/ subject = "client" /\ Client!Next /\ UNCHANGED vars /\ UNCHANGED events_vars

\* No fair action of a component that is not the subject is ever enabled.
HostsSpec ==
    /\ HostsInit
    /\ [][HostsNext]_<<vars, events_vars, client_vars, subject>>
    /\ Fairness /\ Events!Fairness /\ Client!Fairness

\* However the loading of the past (MailboxIter), the sending of new events
\* (broadcast_by_type) and the eviction of old ones interleave, a client is shown
\* no event twice and none before an older one; and of the commits of a scabbard
\* service (subscribe_to_state) none is left out between two that it is shown.
\* Events are ordered by SystemTime::now, which is taken not to go back.
ShownInOrder == Events!ShownInOrder

\* A websocket that has nothing left to show has shown every event of its type that
\* the mailbox, or the history of commits, held when the route read it and every one
\* sent since it subscribed, but for an entry evicted before the iterator loads it;
\* what is sent between the reading and the subscribing is not owed.
NothingOwedIsLost == Events!NothingOwedIsLost

\* A websocket whose sender nobody holds, because the admin service was stopped
\* (remove_all_event_subscribers, and Drop of EventSender) or the scabbard service
\* (shutdown_event_dealer), is closed in the end.
OrphansClose == Events!OrphansClose

\* The reactor's thread never waits for ever for a ShutdownHandle, unless the future is itself
\* in a write to its connection or in a handler that waits for room in the reactor's channel.
HandlesReturn == Client!HandlesReturn
=============================================================================
