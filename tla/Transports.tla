----------------------------- MODULE Transports -----------------------------
(***************************************************************************)
(* One connection, from its making to its end (transport/).  A             *)
(* MultiTransport picks, by the scheme of an address, the transport that   *)
(* listens and the one that connects.  Each end then belongs to one        *)
(* reactor thread, which either sends, or receives when its poll says that *)
(* the connection is readable.                                             *)
(*                                                                         *)
(* An inproc connection is two queues and two readiness flags, each with a *)
(* lock of its own.  The tcp and tls transports share read and write       *)
(* (rw.rs) on a byte stream that never blocks: a message is its length, of *)
(* two units, and its body, of one.                                        *)
(***************************************************************************)
EXTENDS Naturals, Sequences

CONSTANTS
    Orders,       \* the transports of a MultiTransport, in order
    MaxMessages,  \* bound: messages sent by an end
    BufferSize,   \* units that the stream holds in a direction
    None

Ends == {"client", "server"}
Other(e) == IF e = "client" THEN "server" ELSE "client"

VARIABLES
    transports,  \* MultiTransport.transports
    listening,   \* the transport that listens, and for inproc has a sender in `incoming`
    kind,        \* the transport of the connection
    stage,       \* what has come of each end
    op,          \* what each end's thread does, and how far it is
    sent,        \* messages that each end has begun to send
    wire,        \* messages, or units, on the way to each end
    readable,    \* the readiness of each end of an inproc connection
    part,        \* the units of a length that were read
    received,    \* what each end has received
    torn         \* a length was read in part and dropped (history)

setup == <<transports, listening, kind>>
traffic == <<sent, wire, readable, part, received, torn>>
vars == <<setup, stage, op, traffic>>

Schemes == {"tcp", "tls", "inproc", ""}
Polling == [name |-> "poll", done |-> 0]

Init ==
    /\ transports \in Orders
    /\ listening = None /\ kind = None
    /\ stage = [e \in Ends |-> "none"]
    /\ op = [e \in Ends |-> Polling]
    /\ sent = [e \in Ends |-> 0]
    /\ wire = [e \in Ends |-> <<>>]
    /\ readable = [e \in Ends |-> FALSE]
    /\ part = [e \in Ends |-> <<>>]
    /\ received = [e \in Ends |-> <<>>]
    /\ torn = FALSE

-----------------------------------------------------------------------------
(* Listening and connecting.                                               *)

accepts(t, scheme) == scheme \in {t, ""}

\* The first transport that accepts the address; without one it is a ProtocolError.
find(scheme) ==
    LET fit == SelectSeq(transports, LAMBDA t : accepts(t, scheme))
    IN IF fit = <<>> THEN None ELSE Head(fit)

Listen(scheme) ==
    /\ listening = None
    /\ listening' = find(scheme)
    /\ UNCHANGED <<transports, kind, stage, op, traffic>>

\* Without a listener the connection is refused.
Connect(t, scheme) ==
    /\ stage["client"] = "none" /\ find(scheme) = t /\ t = listening
    /\ kind' = t
    /\ UNCHANGED <<transports, listening, op, traffic>>

Opens(ends) == stage' = [e \in Ends |-> IF e \in ends THEN "open" ELSE stage[e]]

\* The listener is sent one half of the pair.
InprocConnect(scheme) == Connect("inproc", scheme) /\ Opens({"client"})

\* The stream is in the listener's backlog.
RawConnect(scheme) == Connect("tcp", scheme) /\ Opens({"client"})

TlsConnect(scheme) ==
    Connect("tls", scheme) /\ stage' = [stage EXCEPT !["client"] = "handshake"]

Accepts(t) == kind = t /\ stage["server"] = "none" /\ UNCHANGED <<setup, op, traffic>>

InprocAccept == Accepts("inproc") /\ Opens({"server"})
RawAccept == Accepts("tcp") /\ Opens({"server"})

\* The handshake blocks both ends, and fails or succeeds for both.
TlsAccept ==
    /\ Accepts("tls")
    /\ Opens(Ends) \/ stage' = [e \in Ends |-> "failed"]

-----------------------------------------------------------------------------
(* The thread of an end.                                                   *)

Open(e) == stage[e] = "open"
At(e, name) == Open(e) /\ op[e].name = name
Becomes(e, name, done) == op' = [op EXCEPT ![e] = [name |-> name, done |-> done]]

Send(e) ==
    /\ At(e, "poll") /\ sent[e] < MaxMessages
    /\ sent' = [sent EXCEPT ![e] = @ + 1]
    /\ Becomes(e, "send", 0)
    /\ UNCHANGED <<setup, stage, wire, readable, part, received, torn>>

Gone(e) == stage[e] = "gone"

\* The poll is level-triggered; a stream that the other end closed is readable.
Readable(e) == IF kind = "inproc" THEN readable[e] ELSE wire[e] # <<>> \/ Gone(Other(e))

Recv(e) ==
    /\ At(e, "poll") /\ Readable(e)
    /\ Becomes(e, "recv", 0)
    /\ UNCHANGED <<setup, stage, traffic>>

\* The connection is dropped, by its owner or after an error.
Closes(e) ==
    /\ stage' = [stage EXCEPT ![e] = "gone"]
    /\ Becomes(e, "poll", 0)

Disconnect(e) == At(e, "poll") /\ Closes(e) /\ UNCHANGED <<setup, traffic>>

-----------------------------------------------------------------------------
(* Pair: send and recv of an inproc connection.                            *)

\* The locks that each takes, in order.
Locks(e) ==
    IF op[e].name = "send"
    THEN <<<<"queue", Other(e)>>, <<"set", e>>, <<"set", Other(e)>>>>
    ELSE <<<<"queue", e>>, <<"set", e>>>>

Holds(e) == {Locks(e)[i] : i \in 1..op[e].done}
NextLock(e) == Locks(e)[op[e].done + 1]

Lock(e) ==
    /\ kind = "inproc" /\ Open(e) /\ op[e].name # "poll" /\ op[e].done < Len(Locks(e))
    /\ NextLock(e) \notin Holds(Other(e))
    /\ Becomes(e, op[e].name, op[e].done + 1)
    /\ UNCHANGED <<setup, stage, traffic>>

\* With all locks.
Locked(e, name) == kind = "inproc" /\ At(e, name) /\ op[e].done = Len(Locks(e))

\* The other end may be gone; its queue is still there.
PairSend(e) ==
    /\ Locked(e, "send")
    /\ wire' = [wire EXCEPT ![Other(e)] = Append(@, sent[e])]
    /\ readable' = [readable EXCEPT ![Other(e)] = TRUE]
    /\ Becomes(e, "poll", 0)
    /\ UNCHANGED <<setup, stage, sent, part, received, torn>>

\* Mutant of PairRecv: the connection is readable only until a message was taken.
PairRecvClears(e) ==
    /\ Locked(e, "recv")
    /\ readable' = [readable EXCEPT ![e] = FALSE]
    /\ IF wire[e] = <<>> THEN UNCHANGED <<wire, received>>
       ELSE /\ received' = [received EXCEPT ![e] = Append(@, Head(wire[e]))]
            /\ wire' = [wire EXCEPT ![e] = Tail(@)]
    /\ Becomes(e, "poll", 0)
    /\ UNCHANGED <<setup, stage, sent, part, torn>>

\* The flag is cleared by the recv that finds nothing.
PairRecv(e) ==
    /\ Locked(e, "recv")
    /\ readable' = [readable EXCEPT ![e] = wire[e] # <<>>]
    /\ IF wire[e] = <<>> THEN UNCHANGED <<wire, received>>
       ELSE /\ received' = [received EXCEPT ![e] = Append(@, Head(wire[e]))]
            /\ wire' = [wire EXCEPT ![e] = Tail(@)]
    /\ Becomes(e, "poll", 0)
    /\ UNCHANGED <<setup, stage, sent, part, torn>>

-----------------------------------------------------------------------------
(* read and write of a stream.                                             *)

pack(m) == <<<<m, 1>>, <<m, 2>>, <<m, 3>>>>

Stream(e, name) == kind \in {"tcp", "tls"} /\ At(e, name)

\* While the stream is full, write sleeps and tries again; one that is closed fails in the end.
write(e) ==
    /\ Stream(e, "send")
    /\ \/ Gone(Other(e)) /\ Closes(e) /\ UNCHANGED wire
       \/ /\ Len(wire[Other(e)]) < BufferSize
          /\ wire' = [wire EXCEPT ![Other(e)] = Append(@, pack(sent[e])[op[e].done + 1])]
          /\ IF op[e].done = 2 THEN Becomes(e, "poll", 0) ELSE Becomes(e, "send", op[e].done + 1)
          /\ UNCHANGED stage
    /\ UNCHANGED <<setup, sent, readable, part, received, torn>>

\* read_u32: when it would block it has dropped what it read, and it is called again.
read_u32(e) ==
    /\ Stream(e, "recv") /\ op[e].done < 2
    /\ \/ /\ wire[e] # <<>>
          /\ part' = [part EXCEPT ![e] = Append(@, Head(wire[e]))]
          /\ wire' = [wire EXCEPT ![e] = Tail(@)]
          /\ Becomes(e, "recv", op[e].done + 1)
          /\ UNCHANGED <<stage, torn>>
       \/ /\ wire[e] = <<>> /\ ~ Gone(Other(e)) /\ part[e] # <<>>
          /\ part' = [part EXCEPT ![e] = <<>>]
          /\ torn' = TRUE
          /\ Becomes(e, "recv", 0)
          /\ UNCHANGED <<stage, wire>>
       \/ /\ wire[e] = <<>> /\ Gone(Other(e))
          /\ Closes(e)
          /\ UNCHANGED <<part, wire, torn>>
    /\ UNCHANGED <<setup, sent, readable, received>>

IsLength(units) == units[1][1] = units[2][1] /\ units[1][2] = 1 /\ units[2][2] = 2

\* Any other two units are some length.
Lengths(units) == IF IsLength(units) THEN {1} ELSE 0..2

\* The body; read sleeps until it is there, and an end of the stream before is an error.
read(e) ==
    /\ Stream(e, "recv") /\ op[e].done = 2
    /\ \E len \in Lengths(part[e]) :
          IF len <= Len(wire[e])
          THEN /\ received' = [received EXCEPT ![e] = Append(@,
                      IF len = 1 /\ wire[e][1] = <<part[e][1][1], 3>> THEN part[e][1][1] ELSE None)]
               /\ wire' = [wire EXCEPT ![e] = SubSeq(@, len + 1, Len(@))]
               /\ Becomes(e, "poll", 0)
               /\ UNCHANGED stage
          ELSE Gone(Other(e)) /\ Closes(e) /\ UNCHANGED <<received, wire>>
    /\ part' = [part EXCEPT ![e] = <<>>]
    /\ UNCHANGED <<setup, sent, readable, torn>>

-----------------------------------------------------------------------------
Step(e) == Lock(e) \/ PairSend(e) \/ PairRecv(e) \/ write(e) \/ read_u32(e) \/ read(e)

Accept == InprocAccept \/ RawAccept \/ TlsAccept

Next ==
    \/ Accept
    \/ \E s \in Schemes : Listen(s) \/ InprocConnect(s) \/ RawConnect(s) \/ TlsConnect(s)
    \/ \E e \in Ends : Send(e) \/ Recv(e) \/ Disconnect(e) \/ Step(e)

\* Listeners accept in a loop, reactors handle every event of a poll, and a thread goes on.
Fairness ==
    /\ WF_vars(Accept)
    /\ \A e \in Ends : WF_vars(Recv(e)) /\ WF_vars(Step(e))

Spec == Init /\ [][Next]_vars /\ Fairness

-----------------------------------------------------------------------------
(* Properties. *)

\* Each end sends, and what it must have the other holds: the lock of the other's readiness,
\* or the room that the other, who does not receive, would make.
Waits(e) ==
    /\ At(e, "send")
    /\ IF kind = "inproc" THEN op[e].done = 2 /\ NextLock(e) \in Holds(Other(e))
       ELSE Len(wire[Other(e)]) = BufferSize

Deadlocked == \A e \in Ends : Waits(e)

\* Whatever transport the addresses name, what the ends send is received in the end, all of it,
\* as it was sent and in order, if neither end closes: no wake-up is lost between send and recv
\* of a Pair, and read puts the pieces of a stream together.  There are two exceptions.  When
\* both ends send they may wait for each other for ever, and when the stream pauses inside a
\* length read drops a part of it (read_u32 is called again) and never finds its place again.
SentIsReceived ==
    <>[](\/ \A e \in Ends : received[Other(e)] = [i \in 1..sent[e] |-> i]
         \/ Deadlocked \/ torn
         \/ \E e \in Ends : Gone(e))
=============================================================================
