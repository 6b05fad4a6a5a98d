----------------------------- MODULE EventClient -----------------------------
(***************************************************************************)
(* The websocket client of an application (events/ws.rs) and the reactor   *)
(* that its futures run on (events/reactor.rs).  A future connects, handles*)
(* frames until its connection ends, tells its ShutdownHandle the result,  *)
(* and may start a successor.  It writes with a sink that blocks for as    *)
(* long as the connection does.  The reactor's thread starts futures, and  *)
(* waits for the result of each one that has stopped running; while it     *)
(* waits its channel fills, and those who send to it block.                *)
(***************************************************************************)
EXTENDS Naturals, Sequences, TLC

CONSTANTS
    Clients,          \* WebSocketClients
    Reconnecting,     \* those with set_reconnect(true)
    Restarting,       \* those whose on_error calls start_ws
    reconnect_limit,
    capacity,         \* of the reactor's channel
    MaxFutures,       \* bound: calls of listen
    None

Futures == 1..MaxFutures

VARIABLES
    futures,      \* per call of listen: the future, its contexts and its handle
    channel,      \* the reactor's channel of messages
    connections,  \* handles the reactor's thread holds
    reactor,      \* what the reactor's thread is doing
    waiting       \* the handle whose result it waits for

vars == <<futures, channel, connections, reactor, waiting>>

\* The closures for errors have clones of the context, made by listen.
Future(c, count) ==
    [client |-> c, stage |-> "queued", running |-> TRUE, result |-> None,
     context |-> count, clones |-> count, retry |-> count]

Init ==
    /\ futures = <<>> /\ channel = <<>> /\ connections = {}
    /\ reactor = "looping" /\ waiting = None

\* Igniter::start_ws and Context::start_ws: listen, and the reactor is sent the future once its
\* channel has room.
Listens(c, count, fs) ==
    /\ Len(fs) < MaxFutures /\ Len(channel) < capacity
    /\ futures' = Append(fs, Future(c, count))
    /\ channel' = Append(channel, Len(fs) + 1)

Unstarted(c) == \A f \in DOMAIN futures : futures[f].client # c

StartWs(c) ==
    /\ reactor # "ended" /\ Unstarted(c)
    /\ Listens(c, 0, futures)
    /\ UNCHANGED <<connections, reactor, waiting>>

-----------------------------------------------------------------------------
(* The future. *)

In(f, stage) == f \in DOMAIN futures /\ futures[f].stage = stage
Kept == UNCHANGED <<channel, connections, reactor, waiting>>
Becomes(f, fields) == futures' = [futures EXCEPT ![f] = fields @@ @]

\* The request fails or takes too long.
ConnectFails(f) ==
    /\ In(f, "connecting")
    /\ Becomes(f, [stage |-> "failed", result |-> "sent", retry |-> futures[f].clones])
    /\ Kept

\* on_open's response is nothing, something to be written, or to close.
Opens(f) ==
    /\ In(f, "connecting") /\ Kept
    /\ \/ Becomes(f, [stage |-> "open", context |-> 0])
       \/ Becomes(f, [stage |-> "opening"])
       \/ Becomes(f, [stage |-> "open_close", running |-> FALSE])

\* on_message starts another websocket before it returns.
OnMessageStarts(f) ==
    /\ In(f, "open") /\ \E c \in Clients : Unstarted(c)
    /\ Becomes(f, [stage |-> "starting"])
    /\ Kept

\* It waits for room.  When the reactor's thread has ended it gets an error; so it does here
\* when the bound is reached or another thread has started that websocket.
Started(f) ==
    /\ In(f, "starting")
    /\ \/ \E c \in Clients :
             Unstarted(c) /\ Listens(c, 0, [futures EXCEPT ![f].stage = "response"])
       \/ /\ reactor = "ended" \/ Len(futures) = MaxFutures \/ \A c \in Clients : ~ Unstarted(c)
          /\ Becomes(f, [stage |-> "response"])
          /\ UNCHANGED channel
    /\ UNCHANGED <<connections, reactor, waiting>>

\* A frame whose response is nothing, while the handle was asked to shut down; one that is
\* answered; one whose response is to close; a close, or a message that does not parse.
HandleFrame(f) ==
    /\ In(f, "open") /\ Kept
    /\ \/ ~ futures[f].running /\ Becomes(f, [stage |-> "finishing"])
       \/ Becomes(f, [stage |-> "response"])
       \/ Becomes(f, [stage |-> "respond_close", running |-> FALSE])
       \/ Becomes(f, [stage |-> "closing", running |-> FALSE])

\* Mutant of Closed: the successor is started before the handle is told.
ReconnectsFirst(f) == [stage |-> "closed", retry |-> futures[f].context]

\* The connection is closed: the handle is told, and then try_reconnect is called.
Closed(f) == [stage |-> "closed", retry |-> futures[f].context, result |-> "sent"]
Finished == [stage |-> "ended", running |-> FALSE, result |-> "sent"]

\* What a future writes, by handle_response and do_shutdown, and how it goes on when the write
\* succeeds and when it fails.
Writing == {"opening", "open_close", "response", "respond_close", "closing", "finishing"}

Succeeds(f) ==
    CASE futures[f].stage \in {"opening", "open_close"} -> [stage |-> "open", context |-> 0]
      [] futures[f].stage = "response" -> [stage |-> IF futures[f].running THEN "open" ELSE "finishing"]
      [] futures[f].stage = "respond_close" -> [stage |-> "finishing"]
      [] futures[f].stage = "closing" -> Closed(f)
      [] futures[f].stage = "finishing" -> Finished

Fails(f) ==
    CASE futures[f].stage = "opening" -> [stage |-> "finishing", running |-> FALSE]
      [] futures[f].stage = "response" -> [stage |-> "closing", running |-> FALSE]
      [] futures[f].stage \in {"respond_close", "closing"} -> Closed(f)
      [] futures[f].stage \in {"open_close", "finishing"} -> Finished

Written(f) ==
    /\ f \in DOMAIN futures /\ futures[f].stage \in Writing
    /\ Becomes(f, Succeeds(f)) \/ Becomes(f, Fails(f))
    /\ Kept

\* The stream fails, or no frame comes within the timeout.
StreamFails(f) ==
    /\ In(f, "open")
    /\ Becomes(f, [stage |-> "failed", result |-> "sent", retry |-> futures[f].clones])
    /\ Kept

\* The server ends the connection without a close frame: the future ends, and nobody is told.
StreamEnds(f) ==
    /\ In(f, "open")
    /\ Becomes(f, [stage |-> "ended"])
    /\ Kept

\* try_reconnect, and the end of the future: a successor, on_error, which may start one with a
\* new count, or nothing if the reactor stops or has ended.
TryReconnect(f) ==
    LET c == futures[f].client
        count == futures[f].retry
        ended == [futures EXCEPT ![f] = [stage |-> "ended", running |-> FALSE] @@ @]
        again == c \in Reconnecting /\ count < reconnect_limit
    IN /\ In(f, "failed") \/ In(f, "closed")
       /\ \/ again /\ Listens(c, count + 1, ended)
          \/ ~ again /\ c \in Restarting /\ Listens(c, 0, ended)
          \/ /\ \/ again /\ reactor # "looping"
                \/ ~ again /\ (c \notin Restarting \/ reactor = "ended")
             /\ futures' = ended
             /\ UNCHANGED channel
       /\ UNCHANGED <<connections, reactor, waiting>>

-----------------------------------------------------------------------------
(* The reactor's thread. *)

Receive ==
    /\ reactor = "looping" /\ waiting = None /\ channel # <<>>
    /\ channel' = Tail(channel)
    /\ IF Head(channel) = None
       THEN reactor' = "stopping" /\ UNCHANGED <<futures, connections>>
       ELSE /\ Becomes(Head(channel), [stage |-> "connecting"])
            /\ connections' = connections \cup {Head(channel)}
            /\ UNCHANGED reactor
    /\ UNCHANGED <<waiting>>

\* Connections that no longer run are shut down; all are, once the reactor stops.
ShutsDown ==
    /\ reactor # "ended" /\ waiting = None
    /\ \E f \in connections :
          /\ ~ futures[f].running \/ reactor = "stopping"
          /\ Becomes(f, [running |-> FALSE])
          /\ waiting' = f /\ connections' = connections \ {f}
    /\ UNCHANGED <<channel, reactor>>

\* There is a result, or the future has ended and with it all senders of one.
HandleReturns ==
    /\ waiting # None /\ (futures[waiting].result # None \/ futures[waiting].stage = "ended")
    /\ waiting' = None
    /\ UNCHANGED <<futures, channel, connections, reactor>>

\* The runtime is idle.
ReactorEnds ==
    /\ reactor = "stopping" /\ waiting = None /\ connections = {}
    /\ \A f \in DOMAIN futures : futures[f].stage \in {"queued", "ended"}
    /\ reactor' = "ended"
    /\ UNCHANGED <<futures, channel, connections, waiting>>

\* Reactor::shutdown.
Shutdown ==
    /\ reactor = "looping" /\ Len(channel) < capacity /\ \A i \in DOMAIN channel : channel[i] # None
    /\ channel' = Append(channel, None)
    /\ UNCHANGED <<futures, connections, reactor, waiting>>

-----------------------------------------------------------------------------
Runs(f) == ConnectFails(f) \/ Opens(f) \/ Started(f) \/ StreamFails(f) \/ TryReconnect(f)
ReactorThread == Receive \/ ShutsDown \/ HandleReturns \/ ReactorEnds

Next ==
    \/ \E c \in Clients : StartWs(c)
    \/ \E f \in Futures : Runs(f) \/ OnMessageStarts(f) \/ HandleFrame(f) \/ Written(f) \/ StreamEnds(f)
    \/ ReactorThread \/ Shutdown

\* The thread and the futures run.  A future that waits for its connection or for a frame has a
\* timeout.  A write has none, and need not end; frames need not come.
Fairness == WF_vars(ReactorThread) /\ \A f \in Futures : WF_vars(Runs(f))

Spec == Init /\ [][Next]_vars /\ Fairness

-----------------------------------------------------------------------------
(* Properties. *)

\* The handler of a future waits for room in the reactor's channel.
WaitsForRoom(f) == In(f, "starting") /\ Len(channel) = capacity

\* The reactor's thread never waits for ever for a ShutdownHandle (shutdown, recv), though its
\* future may have failed, ended or been closed before, and though futures that reconnect wait for
\* the thread to make room in its channel: it goes on to start and stop other websockets.  It is
\* held up only by a future that itself is in a write to its connection, which has no timeout, or
\* whose on_message waits for room in the channel.
HandlesReturn ==
    []<>(waiting = None \/ futures[waiting].stage \in Writing \/ WaitsForRoom(waiting))
==============================================================================
