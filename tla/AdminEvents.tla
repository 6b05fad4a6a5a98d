----------------------------- MODULE AdminEvents -----------------------------
(***************************************************************************)
(* How an application learns what the admin service decides: the mailbox   *)
(* of past events on a bounded ordered set, its iterator that loads a few  *)
(* entries at a time while the set changes, the subscribers of a circuit   *)
(* management type, and the websocket that first streams the past events   *)
(* and then the new ones.  The registration route takes the lock of the    *)
(* admin service twice, to read and to subscribe.                          *)
(*                                                                         *)
(* An application learns of the state of a scabbard service in the same    *)
(* way, but its past is the history of the last commits, which the         *)
(* service copies while it subscribes the websocket (StateNext).           *)
(***************************************************************************)
EXTENDS Naturals, Sequences, FiniteSets, SequencesExt

CONSTANTS
    Clients,    \* websocket clients
    Types,      \* circuit management types
    Bound,      \* DEFAULT_IN_MEMORY_EVENT_LIMIT, and the limit of LocalEventHistory
    CacheSize,  \* ITER_CACHE_SIZE
    MaxEvents,  \* bound: events sent
    MaxClock,   \* bound: the clock
    None

VARIABLES
    clock,        \* SystemTime::now(), which may stand still between two calls
    mailbox,      \* entries of the durable set
    sent,         \* the events of the admin service, or the commits, in order (history)
    subscribers,  \* subscribers_by_type, and the event_senders of the scabbard service
    commit_history,  \* the last commits of the scabbard service
    conn,         \* what each client's request and websocket have come to
    owed,         \* events a client must be shown (history)
    stopped       \* AdminService::stop, or Scabbard::stop, was called

vars == <<clock, mailbox, sent, subscribers, commit_history, conn, owed, stopped>>

\* What a websocket on a scabbard service's state is subscribed to.
State == "state"

Entry(ts, id, t) == [timestamp |-> ts, event |-> id, type |-> t]

Lowest(set) == CHOOSE e \in set : \A f \in set : e.timestamp <= f.timestamp

\* Entries are ordered, and so compared, by their timestamps alone.
Insert(set, entry) ==
    IF \E e \in set : e.timestamp = entry.timestamp THEN set ELSE set \cup {entry}

AddToSet(set, entry) ==
    Insert(IF Cardinality(set) = Bound THEN set \ {Lowest(set)} ELSE set, entry)

\* The first CacheSize entries of a range, and where the next search starts.
Load(entries, end) ==
    LET sorted == SetToSortSeq(entries, LAMBDA e, f : e.timestamp < f.timestamp)
        cache == SubSeq(sorted, 1, IF Len(sorted) < CacheSize THEN Len(sorted) ELSE CacheSize)
    IN [end |-> end, cache |-> cache,
        start |-> IF cache = <<>> THEN end ELSE Last(cache).timestamp]

NewIter == Load({e \in mailbox : e.timestamp < clock}, clock)

\* Mutant of Reload: the range includes its start.
ReloadIncluded(it) ==
    Load({e \in mailbox : it.start <= e.timestamp /\ e.timestamp < it.end}, it.end)

Reload(it) == Load({e \in mailbox : it.start < e.timestamp /\ e.timestamp < it.end}, it.end)

\* MailboxIter::next reloads an empty cache first.
Filled(it) == IF it.cache = <<>> /\ it.start < it.end THEN Reload(it) ELSE it
-----------------------------------------------------------------------------
Idle == [state |-> "idle", type |-> None, iter |-> None, queue |-> <<>>, shown |-> <<>>]

Init ==
    /\ clock = 1
    /\ mailbox = {}
    /\ sent = <<>>
    /\ subscribers = [t \in Types \cup {State} |-> <<>>]
    /\ commit_history = <<>>
    /\ conn = [c \in Clients |-> Idle]
    /\ owed = [c \in Clients |-> {}]
    /\ stopped = FALSE

Tick ==
    /\ clock < MaxClock
    /\ clock' = clock + 1
    /\ UNCHANGED <<mailbox, sent, subscribers, commit_history, conn, owed, stopped>>

Open(c) == conn[c].state \in {"history", "live"}

\* Mutant of Broadcast: a subscriber whose websocket still reads the past is dropped.
BroadcastToLive(t, id) ==
    LET kept == SelectSeq(subscribers[t], LAMBDA c : conn[c].state = "live")
    IN /\ subscribers' = [subscribers EXCEPT ![t] = kept]
       /\ conn' = [c \in Clients |->
              IF \E i \in DOMAIN kept : kept[i] = c
              THEN [conn[c] EXCEPT !.queue = Append(@, id)] ELSE conn[c]]

\* A subscriber whose websocket is closed fails with Unsubscribe and is not retained.
Broadcast(t, id) ==
    LET kept == SelectSeq(subscribers[t], LAMBDA c : Open(c))
    IN /\ subscribers' = [subscribers EXCEPT ![t] = kept]
       /\ conn' = [c \in Clients |->
              IF \E i \in DOMAIN kept : kept[i] = c
              THEN [conn[c] EXCEPT !.queue = Append(@, id)] ELSE conn[c]]

SendEvent(t) ==
    LET id == Len(sent) + 1
    IN /\ id <= MaxEvents
       /\ sent' = Append(sent, t)
       /\ mailbox' = AddToSet(mailbox, Entry(clock, id, t))
       /\ Broadcast(t, id)
       /\ owed' = [c \in Clients |->
              IF c \in Range(subscribers[t]) /\ Open(c) THEN owed[c] \cup {id} ELSE owed[c]]
       /\ UNCHANGED <<clock, commit_history, stopped>>

\* The registration route reads the past events, under the lock of the admin service.
GetEventsSince(c, t) ==
    /\ conn[c].state = "idle"
    /\ conn' = [conn EXCEPT ![c] = [@ EXCEPT !.state = "registering", !.type = t, !.iter = NewIter]]
    /\ owed' = [owed EXCEPT ![c] =
           {e.event : e \in {f \in mailbox : f.timestamp < clock /\ f.type = t}}]
    /\ UNCHANGED <<clock, mailbox, sent, subscribers, commit_history, stopped>>

\* It makes the websocket and subscribes its sender, under the lock again.
Subscribe(c) ==
    /\ conn[c].state = "registering"
    /\ conn' = [conn EXCEPT ![c].state = "history"]
    /\ subscribers' = [subscribers EXCEPT ![conn[c].type] = Append(@, c)]
    /\ UNCHANGED <<clock, mailbox, sent, commit_history, owed, stopped>>

\* The request was no websocket handshake.
HandshakeFails(c) ==
    /\ conn[c].state = "registering"
    /\ conn' = [conn EXCEPT ![c].state = "closed"]
    /\ UNCHANGED <<clock, mailbox, sent, subscribers, commit_history, owed, stopped>>

\* The stream polls the iterator, which passes over events of other types.
ShowPast(c) ==
    LET it == Filled(conn[c].iter)
    IN /\ conn[c].state = "history"
       /\ IF it.cache = <<>>
          THEN conn' = [conn EXCEPT ![c] = [@ EXCEPT !.state = "live", !.iter = None]]
          ELSE conn' = [conn EXCEPT ![c] =
                 [@ EXCEPT !.iter = [it EXCEPT !.cache = Tail(@)],
                           !.shown = IF Head(it.cache).type = conn[c].type
                                     THEN Append(@, Head(it.cache).event) ELSE @]]
       /\ UNCHANGED <<clock, mailbox, sent, subscribers, commit_history, owed, stopped>>

\* None in the queue is MessageWrapper::Shutdown.
ShowNew(c) ==
    /\ conn[c].state = "live" /\ conn[c].queue # <<>>
    /\ conn' = [conn EXCEPT ![c] =
           IF Head(@.queue) = None
           THEN [@ EXCEPT !.state = "closed", !.queue = <<>>]
           ELSE [@ EXCEPT !.shown = Append(@, Head(conn[c].queue)), !.queue = Tail(@)]]
    /\ UNCHANGED <<clock, mailbox, sent, subscribers, commit_history, owed, stopped>>

ClientCloses(c) ==
    /\ Open(c)
    /\ conn' = [conn EXCEPT ![c] = [@ EXCEPT !.state = "closed", !.queue = <<>>, !.iter = None]]
    /\ UNCHANGED <<clock, mailbox, sent, subscribers, commit_history, owed, stopped>>

\* Dropping a subscriber drops its sender, which sends Shutdown behind what is queued.
DropSenders(ts) ==
    /\ subscribers' = [t \in Types \cup {State} |-> IF t \in ts THEN <<>> ELSE subscribers[t]]
    /\ conn' = [c \in Clients |->
           IF Open(c) /\ \E t \in ts : c \in Range(subscribers[t])
           THEN [conn[c] EXCEPT !.queue = Append(@, None)] ELSE conn[c]]

\* Mutant of Stop: a dropped sender says nothing.
StopSilently ==
    /\ ~stopped /\ stopped' = TRUE
    /\ subscribers' = [t \in Types \cup {State} |-> <<>>]
    /\ UNCHANGED <<clock, mailbox, sent, commit_history, conn, owed>>

Stop ==
    /\ ~stopped /\ stopped' = TRUE
    /\ DropSenders(Types)
    /\ UNCHANGED <<clock, mailbox, sent, commit_history, owed>>

-----------------------------------------------------------------------------
(* The state of a scabbard service.                                        *)

\* LocalEventHistory::store.
store(history, id) ==
    IF Len(history) = Bound THEN Append(Tail(history), id) ELSE Append(history, id)

\* The end of ScabbardState::commit, once the state is written.
CommitState ==
    LET id == Len(sent) + 1
    IN /\ ~stopped
       /\ id <= MaxEvents
       /\ sent' = Append(sent, State)
       /\ commit_history' = store(commit_history, id)
       /\ Broadcast(State, id)
       /\ owed' = [c \in Clients |->
              IF c \in Range(subscribers[State]) /\ Open(c) THEN owed[c] \cup {id} ELSE owed[c]]
       /\ UNCHANGED <<clock, mailbox, stopped>>

\* ScabbardState::subscribe_to_state: the copy of the history and the subscription are one step.
subscribe_to_state(c) ==
    /\ conn' = [conn EXCEPT ![c] =
           [@ EXCEPT !.state = "history", !.type = State,
                     !.iter = [start |-> clock, end |-> clock,
                               cache |-> [i \in DOMAIN commit_history |-> Entry(clock, commit_history[i], State)]]]]
    /\ subscribers' = [subscribers EXCEPT ![State] = Append(@, c)]
    /\ owed' = [owed EXCEPT ![c] = Range(commit_history)]

\* The orchestrator's route finds the service, until it is shut down.
ServiceFound == ~stopped

\* The endpoint "/ws/subscribe"; a request that is no handshake is answered with an error.
SubscribeEndpoint(c) ==
    /\ conn[c].state = "idle" /\ ServiceFound
    /\ \/ subscribe_to_state(c)
       \/ conn' = [conn EXCEPT ![c].state = "closed"] /\ UNCHANGED <<subscribers, owed>>
    /\ UNCHANGED <<clock, mailbox, sent, commit_history, stopped>>

\* Scabbard::stop, and shutdown_event_dealer within.
StopScabbard ==
    /\ ~stopped /\ stopped' = TRUE
    /\ DropSenders({State})
    /\ UNCHANGED <<clock, mailbox, sent, commit_history, owed>>

-----------------------------------------------------------------------------
Next ==
    \/ Tick
    \/ Stop
    \/ \E t \in Types : SendEvent(t)
    \/ \E c \in Clients :
          \/ \E t \in Types : GetEventsSince(c, t)
          \/ Subscribe(c)
          \/ HandshakeFails(c)
          \/ ShowPast(c)
          \/ ShowNew(c)
          \/ ClientCloses(c)

StateNext ==
    \/ CommitState \/ StopScabbard
    \/ \E c \in Clients : SubscribeEndpoint(c) \/ ShowPast(c) \/ ShowNew(c) \/ ClientCloses(c)

\* A websocket actor polls its stream.
Fairness == WF_vars(\E c \in Clients : ShowPast(c) \/ ShowNew(c))

Spec == Init /\ [][Next \/ StateNext]_vars /\ Fairness
-----------------------------------------------------------------------------
\* However the loading of the past (MailboxIter), the sending of new events
\* (broadcast_by_type) and the eviction of old ones interleave, a client is shown
\* no event twice and none before an older one; and of the commits of a scabbard
\* service (subscribe_to_state) none is left out between two that it is shown.
\* Events are ordered by SystemTime::now, which is taken not to go back.
ShownInOrder ==
    \A c \in Clients : \A i, j \in DOMAIN conn[c].shown :
        i < j => IF conn[c].type = State THEN conn[c].shown[j] = conn[c].shown[i] + (j - i)
                 ELSE conn[c].shown[i] < conn[c].shown[j]

Stored(id) == \E e \in mailbox : e.event = id

\* A websocket that has nothing left to show has shown every event of its type that
\* the mailbox, or the history of commits, held when the route read it and every one
\* sent since it subscribed.  Only an entry evicted before the iterator loads it may
\* be missing, where the cache is smaller than the bound.  An event sent after
\* get_events_since and before add_event_subscriber is in neither, and not owed.
NothingOwedIsLost ==
    \A c \in Clients :
        conn[c].state = "live" /\ conn[c].queue = <<>> =>
            \A id \in owed[c] :
                \/ id \in Range(conn[c].shown)
                \/ conn[c].type # State /\ CacheSize < Bound /\ ~Stored(id)

\* A websocket whose sender nobody holds, because the admin service was stopped
\* (remove_all_event_subscribers, and Drop of EventSender) or the scabbard service
\* (shutdown_event_dealer), is closed in the end.
OrphansClose ==
    []<>(\A c \in Clients : Open(c) => \E t \in Types \cup {State} : c \in Range(subscribers[t]))
=============================================================================
