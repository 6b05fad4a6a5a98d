------------------------------ MODULE Services ------------------------------
(***************************************************************************)
(* A node's threads and the services it hosts.  The daemon's main loop,    *)
(* its network and circuit dispatchers and its sender (splinterd, network/ *)
(* dispatch.rs, sender.rs) pass messages through bounded channels.  Two    *)
(* hosts are connected to the node within the process: the ServiceProcessor*)
(* runs the admin service, and the ServiceOrchestrator the services that   *)
(* the admin service starts and stops.  A host has three threads of its    *)
(* own; replies go back to the caller that waits for them, and all else to *)
(* the services.  Ctrl-C stops the loops, and the services through them.   *)
(***************************************************************************)
EXTENDS Naturals, Sequences, FiniteSets

CONSTANTS
    Admin,         \* the admin service, run by the processor
    Orchestrated,  \* services run by the orchestrator
    capacity,      \* of every channel
    Workloads      \* what may happen: the services that circuits need, those of them that the
                   \* node's circuits do not allow here, to whom and how many
                   \* messages are sent, how many of them a service fails on, how often a queue
                   \* of a mesh is full, and whether Ctrl-C is pressed

\* The processor runs the admin service, and only that.
ASSUME HostsAssumption == Admin \notin Orchestrated

ServiceIds == Orchestrated \cup {Admin}
Hosts == {"processor", "orchestrator"}
HostOf(s) == IF s = Admin THEN "processor" ELSE "orchestrator"

\* Threads, each with the queue that it reads.
Outgoing(h) == <<h, "outgoing">>
Incoming(h) == <<h, "incoming">>
Inbound(h) == <<h, "inbound">>
Node(stage) == <<"node", stage>>
Loops == {Node("main"), Node("network"), Node("circuit"), Node("sender")}
           \cup UNION {{Outgoing(h), Incoming(h), Inbound(h)} : h \in Hosts}
Draining == {Node("network"), Node("circuit"), Node("sender")}

VARIABLES
    workload,    \* the member of Workloads at hand
    running,     \* the daemon's flag, which the processor shares
    loop,        \* per thread: in its loop, finishing what is queued, or ended
    queue,       \* per thread: the messages for it
    expected,    \* InboundRouter.expected_replies: services that wait for a reply
    service,     \* how far each service is
    managed,     \* services in the orchestrator's map
    inbox,       \* the processor's channel to the admin service
    directory,   \* services connected at the node
    sent,        \* direct messages from peers so far
    errors,      \* errors of handle_message so far
    handler,     \* the Ctrl-C handler
    strayed,     \* services whose handle_message ran while they were not started (history)
    full,        \* sends that a full queue of a mesh refused so far
    refused      \* services a request or reply of which was lost so (history)

mesh == <<full, refused>>
threads == <<workload, running, loop, handler>>
vars == <<threads, queue, expected, service, managed, inbox, directory, sent, errors, strayed, mesh>>

Msg(type, s) == [type |-> type, service |-> s]

Init ==
    /\ workload \in Workloads
    /\ running = TRUE
    /\ loop = [t \in Loops |-> "running"]
    /\ queue = [t \in Loops |-> <<>>]
    /\ expected = {} /\ managed = {} /\ inbox = <<>> /\ directory = {}
    /\ service = [s \in ServiceIds |-> "new"]
    /\ sent = 0 /\ errors = 0
    /\ handler = "waiting"
    /\ strayed = {}
    /\ full = 0 /\ refused = {}

-----------------------------------------------------------------------------
(* The loops. *)

\* The orchestrator's flag is its own, and is cleared by destroy only, which nobody calls.
Runs(t) == running \/ t[1] = "orchestrator"

\* The loop reads its flag after each message and each timeout; dispatchers and the sender
\* finish what is queued.
After(t) == IF Runs(t) THEN "running" ELSE IF t \in Draining THEN "finishing" ELSE "ended"

\* A channel whose reader has ended refuses the message, which is logged and dropped.
Room(t) == loop[t] = "ended" \/ Len(queue[t]) < capacity
Passed(t, to, m) ==
    [queue EXCEPT ![t] = Tail(@), ![to] = IF loop[to] = "ended" THEN @ ELSE Append(@, m)]
Dropped(t) == [queue EXCEPT ![t] = Tail(@)]

Takes(t) ==
    /\ loop[t] # "ended" /\ queue[t] # <<>>
    /\ UNCHANGED <<workload, running, handler, sent>>
Continues(t) == loop' = [loop EXCEPT ![t] = IF @ = "finishing" THEN @ ELSE After(t)]

\* recv_timeout finds nothing, and the flag is read; or try_recv does, and the thread ends.
Timeout(t) ==
    /\ queue[t] = <<>> /\ loop[t] # "ended" /\ ~ Runs(t)
    /\ loop' = [loop EXCEPT ![t] = IF @ = "finishing" THEN "ended" ELSE After(t)]
    /\ UNCHANGED <<workload, running, handler, queue, expected, service, managed, inbox, directory, sent,
                   errors, strayed, mesh>>

\* The main loop and the network dispatcher hand on what they take.
Pass(t, to) ==
    /\ Takes(t) /\ Room(to) /\ Continues(t)
    /\ queue' = Passed(t, to, Head(queue[t]))
    /\ UNCHANGED <<expected, service, managed, inbox, directory, errors, strayed, mesh>>

\* The circuit dispatcher: connect and disconnect requests are answered, with an error where the
\* circuit or the directory does not allow them, and direct messages go to the host if their
\* recipient is connected.
Dispatch ==
    LET t == Node("circuit")
        m == Head(queue[t])
        granted == IF m.type = "connect" THEN m.service \notin directory \cup workload.rejected
                   ELSE m.service \in directory
    IN /\ Takes(t) /\ Room(Node("sender")) /\ Continues(t)
       /\ \/ /\ m.type = "direct"
             /\ queue' = IF m.service \in directory THEN Passed(t, Node("sender"), m) ELSE Dropped(t)
             /\ UNCHANGED directory
          \/ /\ m.type # "direct" /\ granted
             /\ queue' = Passed(t, Node("sender"), Msg("reply", m.service))
             /\ directory' = IF m.type = "connect" THEN directory \cup {m.service}
                             ELSE directory \ {m.service}
          \/ /\ m.type # "direct" /\ ~ granted
             /\ queue' = Passed(t, Node("sender"), Msg("error", m.service))
             /\ UNCHANGED directory
       /\ UNCHANGED <<expected, service, managed, inbox, errors, strayed, mesh>>

\* A queue of the mesh may be full, and the messages are lost.
Refuses(messages) ==
    /\ full < workload.full
    /\ full' = full + 1
    /\ refused' = refused \cup {m.service : m \in {x \in messages : x.type # "direct"}}

\* NetworkMessageSender: the mesh does not block, and what it refuses is logged and dropped.
SendOut ==
    LET t == Node("sender")
        m == Head(queue[t])
    IN /\ Takes(t) /\ Continues(t)
       /\ \/ queue' = Passed(t, Incoming(HostOf(m.service)), m) /\ UNCHANGED mesh
          \/ queue' = Dropped(t) /\ Refuses({m})
       /\ UNCHANGED <<expected, service, managed, inbox, directory, errors, strayed>>

\* The outgoing threads.  The processor's drops what the mesh refuses; run_outgoing_loop, the
\* orchestrator's, ends, and with it goes all that is queued for it.
SendUp(h) ==
    LET t == Outgoing(h)
    IN /\ Takes(t)
       /\ \/ /\ queue' = Passed(t, Node("main"), Head(queue[t]))
             /\ Continues(t) /\ UNCHANGED mesh
          \/ /\ h = "processor" /\ Refuses({Head(queue[t])})
             /\ queue' = Dropped(t) /\ Continues(t)
          \/ /\ h = "orchestrator" /\ Refuses({queue[t][i] : i \in DOMAIN queue[t]})
             /\ queue' = [queue EXCEPT ![t] = <<>>]
             /\ loop' = [loop EXCEPT ![t] = "ended"]
       /\ UNCHANGED <<expected, service, managed, inbox, directory, errors, strayed>>

-----------------------------------------------------------------------------
(* InboundRouter::route, by the thread that reads the host's connection. *)

\* connect and disconnect return an error when they are answered with one.
Answered(m) ==
    [service EXCEPT ![m.service] =
        IF m.type = "error" THEN "failed" ELSE IF @ = "connecting" THEN "started" ELSE "disconnected"]

\* The correlation ID of a reply is that of a request whose sender still waits.
Awaited(m) == m.type \in {"reply", "error"} /\ m.service \in expected

Route(h, m) ==
    /\ IF Awaited(m)
       THEN /\ queue' = Dropped(Incoming(h))
            /\ expected' = expected \ {m.service}
            /\ service' = Answered(m)
       ELSE /\ Room(Inbound(h))
            /\ queue' = Passed(Incoming(h), Inbound(h), m)
            /\ UNCHANGED <<expected, service>>
    /\ UNCHANGED <<managed, inbox, directory, errors, strayed, mesh>>

\* An error is logged.
ProcessorIncoming ==
    LET t == Incoming("processor")
    IN Takes(t) /\ Route("processor", Head(queue[t])) /\ Continues(t)

\* An error ends the thread.
OrchestratorIncoming ==
    LET t == Incoming("orchestrator")
        m == Head(queue[t])
        fails == ~ Awaited(m) /\ loop[Inbound("orchestrator")] = "ended"
    IN /\ Takes(t) /\ Route("orchestrator", m)
       /\ IF fails THEN loop' = [loop EXCEPT ![t] = "ended"] ELSE Continues(t)

\* Mutant of ServicesFree: the map is locked as long as a service is being started.
HeldDuringCalls(h) == \A s \in ServiceIds : HostOf(s) = h => service[s] # "connecting"

\* The shutdown of the processor holds its map's lock until the service's thread has ended;
\* the orchestrator locks its own only to insert and to remove.
ServicesFree(h) == h = "processor" => handler # "joining"

\* The inbound thread of the processor passes messages on to the service's thread, unless that
\* has ended; replies that nobody waits for are ignored.
ToService(m) == m.type = "direct" /\ service[Admin] \notin {"failed", "ended"}

ProcessorInbound ==
    LET t == Inbound("processor")
        m == Head(queue[t])
    IN /\ Takes(t) /\ Continues(t)
       /\ m.type = "direct" => ServicesFree("processor")
       /\ ToService(m) => Len(inbox) < capacity
       /\ queue' = Dropped(t)
       /\ inbox' = IF ToService(m) THEN Append(inbox, "message") ELSE inbox
       /\ UNCHANGED <<expected, service, managed, directory, errors, strayed, mesh>>

\* That of the orchestrator calls handle_message itself, and ends if that fails.
OrchestratorInbound ==
    LET t == Inbound("orchestrator")
        m == Head(queue[t])
        calls == m.type = "direct" /\ m.service \in managed
    IN /\ Takes(t)
       /\ m.type = "direct" => ServicesFree("orchestrator")
       /\ queue' = Dropped(t)
       /\ strayed' = IF calls /\ service[m.service] # "started" THEN strayed \cup {m.service} ELSE strayed
       /\ \/ Continues(t) /\ UNCHANGED errors
          \/ /\ calls /\ errors < workload.errors
             /\ errors' = errors + 1
             /\ loop' = [loop EXCEPT ![t] = "ended"]
       /\ UNCHANGED <<expected, service, managed, inbox, directory, mesh>>

-----------------------------------------------------------------------------
(* StandardServiceNetworkRegistry::connect and disconnect, by the service's or a caller's      *)
(* thread: the reply is expected before the request is sent.                                 *)

Call(s, type, during) ==
    LET t == Outgoing(HostOf(s))
    IN IF loop[t] = "ended"
       THEN service' = [service EXCEPT ![s] = "failed"] /\ UNCHANGED <<expected, queue>>
       ELSE /\ Len(queue[t]) < capacity
            /\ expected' = expected \cup {s}
            /\ queue' = [queue EXCEPT ![t] = Append(@, Msg(type, s))]
            /\ service' = [service EXCEPT ![s] = during]

NoCalls == \A s \in Orchestrated : service[s] \notin {"connecting", "disconnecting"}

\* ServiceProcessor::start, run_service_loop and AdminService::start.
StartAdmin ==
    /\ service[Admin] = "new"
    /\ Call(Admin, "connect", "connecting")
    /\ UNCHANGED <<threads, managed, inbox, directory, sent, errors, strayed, mesh>>

\* ServiceOrchestrator::initialize_service, when a circuit is committed or restarted.
Initialize(s) ==
    /\ service[Admin] \in {"started", "disconnecting"} /\ NoCalls
    /\ s \in workload.services /\ service[s] = "new"
    /\ Call(s, "connect", "connecting")
    /\ UNCHANGED <<threads, managed, inbox, directory, sent, errors, strayed, mesh>>

Save(s) ==
    /\ service[s] = "started" /\ s \notin managed
    /\ managed' = managed \cup {s}
    /\ UNCHANGED <<threads, queue, expected, service, inbox, directory, sent, errors, strayed, mesh>>

\* Mutant of ShutdownService: the service is stopped first, and removed after that.
ShutdownStops(s) ==
    /\ service[Admin] = "disconnected" /\ NoCalls
    /\ s \in managed
    /\ IF service[s] = "started" THEN UNCHANGED managed ELSE managed' = managed \ {s}
    /\ Call(s, "disconnect", "disconnecting")
    /\ UNCHANGED <<threads, inbox, directory, sent, errors, strayed, mesh>>

\* ServiceOrchestrator::shutdown_service, by the admin service once it is disconnected.
ShutdownService(s) ==
    /\ service[Admin] = "disconnected" /\ NoCalls
    /\ s \in managed
    /\ managed' = managed \ {s}
    /\ Call(s, "disconnect", "disconnecting")
    /\ UNCHANGED <<threads, inbox, directory, sent, errors, strayed, mesh>>

\* run_service_loop takes a message, and ends if the service fails on it, or the request to stop.
AdminHandles ==
    /\ service[Admin] = "started" /\ inbox # <<>> /\ Head(inbox) = "message"
    /\ inbox' = Tail(inbox)
    /\ \/ UNCHANGED <<service, errors>>
       \/ /\ errors < workload.errors
          /\ errors' = errors + 1
          /\ service' = [service EXCEPT ![Admin] = "failed"]
    /\ UNCHANGED <<threads, queue, expected, managed, directory, sent, strayed, mesh>>

StopAdmin ==
    /\ service[Admin] = "started" /\ inbox # <<>> /\ Head(inbox) = "shutdown"
    /\ inbox' = Tail(inbox)
    /\ Call(Admin, "disconnect", "disconnecting")
    /\ UNCHANGED <<threads, managed, directory, sent, errors, strayed, mesh>>

AdminEnds ==
    /\ service[Admin] = "disconnected" /\ NoCalls /\ managed = {}
    /\ \A s \in Orchestrated : service[s] # "started"
    /\ service' = [service EXCEPT ![Admin] = "ended"]
    /\ UNCHANGED <<threads, queue, expected, managed, inbox, directory, sent, errors, strayed, mesh>>

-----------------------------------------------------------------------------
(* Ctrl-C, and the ShutdownHandle that it uses. *)

CtrlC ==
    /\ workload.ctrlc /\ handler = "waiting" /\ service[Admin] # "new"
    /\ running' = FALSE
    /\ handler' = "stopping"
    /\ UNCHANGED <<workload, loop, queue, expected, service, managed, inbox, directory, sent, errors, strayed, mesh>>

\* The channel of a service whose thread has ended refuses, and the handle returns.
Shutdown ==
    /\ handler = "stopping"
    /\ IF service[Admin] = "failed" THEN handler' = "done" /\ UNCHANGED inbox
       ELSE /\ Len(inbox) < capacity
            /\ inbox' = Append(inbox, "shutdown") /\ handler' = "joining"
    /\ UNCHANGED <<workload, running, loop, queue, expected, service, managed, directory, sent, errors, strayed, mesh>>

Joined ==
    /\ handler = "joining" /\ service[Admin] \in {"ended", "failed"}
    /\ handler' = "done"
    /\ UNCHANGED <<workload, running, loop, queue, expected, service, managed, inbox, directory, sent, errors, strayed, mesh>>

\* A peer's message for a service arrives.
PeerSends(s) ==
    /\ sent < workload.messages /\ s \in workload.to
    /\ sent' = sent + 1
    /\ queue' = [queue EXCEPT ![Node("main")] = Append(@, Msg("direct", s))]
    /\ UNCHANGED <<threads, expected, service, managed, inbox, directory, errors, strayed, mesh>>

\* A started service sends another one a message.
ServiceSends(s, to) ==
    /\ sent < workload.messages /\ to \in workload.to \ {s} /\ service[s] = "started"
    /\ Len(queue[Outgoing(HostOf(s))]) < capacity /\ loop[Outgoing(HostOf(s))] # "ended"
    /\ sent' = sent + 1
    /\ queue' = [queue EXCEPT ![Outgoing(HostOf(s))] = Append(@, Msg("direct", to))]
    /\ UNCHANGED <<threads, expected, service, managed, inbox, directory, errors, strayed, mesh>>

-----------------------------------------------------------------------------
HostThreads ==
    \/ ProcessorIncoming \/ OrchestratorIncoming \/ ProcessorInbound \/ OrchestratorInbound
    \/ \E h \in Hosts : SendUp(h)
NodeThreads ==
    \/ Pass(Node("main"), Node("network")) \/ Pass(Node("network"), Node("circuit"))
    \/ Dispatch \/ SendOut
Ends == \E t \in Loops : Timeout(t)
AdminThread ==
    \/ AdminHandles \/ StopAdmin \/ AdminEnds
    \/ \E s \in Orchestrated : Save(s) \/ ShutdownService(s)

Next ==
    \/ HostThreads \/ NodeThreads \/ Ends \/ AdminThread
    \/ StartAdmin \/ \E s \in Orchestrated : Initialize(s)
    \/ \E s \in ServiceIds : PeerSends(s) \/ \E to \in ServiceIds : ServiceSends(s, to)
    \/ CtrlC \/ Shutdown \/ Joined

\* Threads run; the node is not started, circuits are not committed, nor messages sent or Ctrl-C pressed, by fairness.
Fairness == WF_vars(HostThreads \/ NodeThreads \/ Ends \/ AdminThread \/ Shutdown \/ Joined)

Spec == Init /\ [][Next]_vars /\ Fairness

-----------------------------------------------------------------------------
(* Properties. *)

\* The orchestrator calls a service only between its start and its stop, whichever thread is
\* starting or stopping services while the inbound thread handles messages.
CalledWhileStarted == strayed = {}

\* While the node runs and no handler fails, starting a service returns: the threads and the
\* bounded channels between the caller and the node never wait for one another, even after the
\* orchestrator's outgoing thread has ended.  Only a caller whose own request or reply a full
\* queue of the mesh refused waits on, as get has no timeout.
CallsReturn ==
    []<>(\/ ~ running \/ errors > 0
         \/ \A s \in ServiceIds : s \in refused \/ service[s] \notin {"connecting", "disconnecting"})

\* The ShutdownHandle returns: "Returns a ShutdownHandle and join_handles so the service can be
\* properly shutdown", as the documentation of ServiceProcessor::start says.
ShutdownReturns == handler # "waiting" ~> handler = "done"
=============================================================================
