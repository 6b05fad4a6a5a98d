------------------------------ MODULE Gameroom ------------------------------
(***************************************************************************)
(* The gameroom daemon of one node, and one gameroom (rooms share no rows).*)
(* A websocket brings it the admin service's events, from the first one    *)
(* each time it connects; each of them is a transaction on the daemon's    *)
(* tables.  The one that says the room's circuit is ready starts another   *)
(* websocket, on the state of the room's scabbard service, which brings    *)
(* every commit from the first each time it connects.  When the daemon     *)
(* made the proposal, opening that websocket also submits the batch that   *)
(* sets up the xo contract.  The websockets run on different threads.      *)
(*                                                                         *)
(* A client asks the daemon for the payload of a proposal or of a vote,    *)
(* which the daemon checks against its tables, signs it and has the daemon *)
(* pass it on; and it submits moves, whose fate the daemon asks for until  *)
(* it is known or the client's patience ends.                              *)
(***************************************************************************)
EXTENDS Naturals, Sequences, FiniteSets

CONSTANTS
    None,
    MaxVotes,       \* bound on votes before the last one
    MaxMoves,       \* bound on moves committed
    MaxSubs,        \* bound on websockets on the room's state
    MaxFaults       \* bound on lost connections, failures and restarts

VARIABLES
    log,            \* the admin events about the room
    posted,         \* the batch that sets up the contract was submitted
    commits,        \* commits of the room's scabbard: the contract, then moves of a game
    key,            \* who holds the key that the proposal names first: this daemon ("mine"),
                    \* another node's ("other") or, after a restart, nobody ("lost"); None at first
    payload,        \* what the client has been given to sign: "create", "vote" or None
    submitted,      \* what splinterd has accepted of it
    move,           \* the status of the batch with the client's move
    answer,         \* the daemon's answer about it (202 is "accepted"); None while it waits
    admin,          \* the websocket for admin events: its link and the next event
    checked,        \* the handler of CircuitReady found the room not active
    subs,           \* the websockets on the room's state
    room, proposal, members,    \* statuses in the tables; services have their members' status
    votes,          \* rows of proposal_vote_record
    game,           \* rows of the game in xo_games and the board they show
    notifications,  \* the kinds of notification that have a row
    missed,         \* an event was dropped because the database could not be reached
    faults

tables == <<room, proposal, members, votes, game, notifications>>
splinter == <<log, posted, commits>>
client == <<payload, submitted, move, answer>>
vars == <<splinter, key, client, admin, checked, subs, tables, missed, faults>>

Last(s) == s[Len(s)]
Fault == faults < MaxFaults /\ faults' = faults + 1

-----------------------------------------------------------------------------
(* The admin service and the scabbard of the room.                         *)

AdminEvent(e) ==
    /\ log' = Append(log, e)
    /\ CASE e = "submitted" -> log = <<>> /\ (key = "other" \/ "create" \in submitted)
         [] e = "vote" -> /\ log # <<>> /\ Last(log) \in {"submitted", "vote"}
                          /\ Cardinality({i \in DOMAIN log : log[i] = "vote"}) < MaxVotes
         [] e = "rejected" -> log # <<>> /\ Last(log) \in {"submitted", "vote"}
         [] e = "accepted" -> /\ log # <<>> /\ Last(log) \in {"submitted", "vote"}
                              /\ key = "other" => "vote" \in submitted
         [] e = "ready" -> log # <<>> /\ Last(log) = "accepted"
    /\ UNCHANGED <<posted, commits, key, client, admin, checked, subs, tables, missed, faults>>

CommitSetup ==
    /\ posted /\ commits = 0
    /\ commits' = 1
    /\ UNCHANGED <<log, posted, key, client, admin, checked, subs, tables, missed, faults>>

\* The daemon of the node that made the proposal submits the batch.
OtherPosts ==
    /\ key = "other" /\ log # <<>> /\ Last(log) = "ready" /\ ~posted
    /\ posted' = TRUE
    /\ UNCHANGED <<log, commits, key, client, admin, checked, subs, tables, missed, faults>>

CommitMove ==
    /\ commits \in 1..MaxMoves
    /\ commits' = commits + 1
    /\ UNCHANGED <<log, posted, key, client, admin, checked, subs, tables, missed, faults>>

-----------------------------------------------------------------------------
(* process_admin_event: an event, and the transaction that it makes.       *)

Moves(status, old, new) == IF status = old THEN new ELSE status
Notify(kind) == notifications' = notifications \cup {kind}
update_gameroom_status(status) == room' = IF room = None THEN None ELSE status
insert_proposal_vote_record == votes' = votes + 1

\* parse_proposal, parse_gameroom, parse_splinter_services and parse_splinter_nodes.
NewRows == room' = "Pending" /\ proposal' = "Pending" /\ members' = "Pending"

\* The rows of the room exist already when the event is replayed: the transaction fails.
proposal_submitted ==
    IF room # None THEN UNCHANGED tables
    ELSE /\ NewRows
         /\ Notify("submitted")
         /\ UNCHANGED <<votes, game>>

get_pending_proposal_with_circuit_id == proposal = "Pending"

proposal_vote ==
    IF ~get_pending_proposal_with_circuit_id THEN UNCHANGED tables
    ELSE /\ insert_proposal_vote_record
         /\ Notify("vote")
         /\ UNCHANGED <<room, proposal, members, game>>

proposal_decided(status) ==
    IF ~get_pending_proposal_with_circuit_id THEN UNCHANGED tables
    ELSE /\ proposal' = status
         /\ update_gameroom_status(status)
         /\ members' = Moves(members, "Pending", status)
         /\ insert_proposal_vote_record
         /\ Notify(IF status = "Accepted" THEN "accepted" ELSE "rejected")
         /\ UNCHANGED game

AtEvent == admin.link = "up" /\ admin.next <= Len(log) /\ ~checked
Advance == admin' = [admin EXCEPT !.next = @ + 1]

process_admin_event ==
    /\ AtEvent
    /\ log[admin.next] # "ready"
    /\ CASE log[admin.next] = "submitted" -> proposal_submitted
         [] log[admin.next] = "vote" -> proposal_vote
         [] log[admin.next] = "accepted" -> proposal_decided("Accepted")
         [] log[admin.next] = "rejected" -> proposal_decided("Rejected")
    /\ Advance
    /\ UNCHANGED <<splinter, key, client, checked, subs, missed, faults>>

\* The pool has no connection, or the transaction fails: the event is logged and dropped.
EventFails ==
    /\ AtEvent \/ checked
    /\ Fault
    /\ missed' = TRUE
    /\ checked' = FALSE
    /\ Advance
    /\ UNCHANGED <<splinter, key, client, subs, tables>>

gameroom_service_is_active == members = "Active"

\* The check is made before the transaction.
circuit_ready_check ==
    /\ AtEvent
    /\ log[admin.next] = "ready"
    /\ IF gameroom_service_is_active THEN Advance /\ UNCHANGED checked
       ELSE checked' = TRUE /\ UNCHANGED admin
    /\ UNCHANGED <<splinter, key, client, subs, tables, missed, faults>>

\* A websocket on the room's state: opens when its on_open sets up the contract.
Sub(opens) == [opens |-> opens, link |-> "down", next |-> 1, fetched |-> None]

\* Mutant of circuit_ready: the members keep the status they had.
ForgetsMembers ==
    /\ checked
    /\ Len(subs) < MaxSubs
    /\ checked' = FALSE
    /\ update_gameroom_status("Ready")
    /\ subs' = Append(subs, Sub(TRUE))
    /\ Notify("ready")
    /\ Advance
    /\ UNCHANGED <<splinter, key, client, proposal, members, votes, game, missed, faults>>

\* The transaction, and the websocket on the room's state.
circuit_ready ==
    /\ checked
    /\ Len(subs) < MaxSubs
    /\ checked' = FALSE
    /\ update_gameroom_status("Ready")
    /\ members' = Moves(members, "Accepted", "Ready")
    /\ subs' = Append(subs, Sub(TRUE))
    /\ Notify("ready")
    /\ Advance
    /\ UNCHANGED <<splinter, key, client, proposal, votes, game, missed, faults>>

AdminConnects ==
    /\ admin.link = "down"
    /\ admin' = [link |-> "up", next |-> 1]
    /\ UNCHANGED <<splinter, key, client, checked, subs, tables, missed, faults>>

\* The connection is lost, or its reconnects reached RECONNECT_LIMIT and on_error lets it go.
AdminLost ==
    /\ admin.link # "gone" /\ ~checked
    /\ Fault
    /\ admin' = [admin EXCEPT !.link = IF @ = "up" THEN "down" ELSE "gone"]
    /\ UNCHANGED <<splinter, key, client, checked, subs, tables, missed>>

-----------------------------------------------------------------------------
(* The websockets on the room's state.                                     *)

\* setup_xo submits the batch when the daemon's key is the first of the admin keys; nobody looks
\* at how the request ended.
setup_xo ==
    IF key # "mine" THEN UNCHANGED <<posted, missed, faults>>
    ELSE \/ posted' = TRUE /\ UNCHANGED <<missed, faults>>
         \/ Fault /\ missed' = TRUE /\ UNCHANGED posted

SubOpens(i) ==
    /\ subs[i].link = "down"
    /\ subs' = [subs EXCEPT ![i].link = "up", ![i].next = 1]
    /\ IF subs[i].opens THEN setup_xo ELSE UNCHANGED <<posted, missed, faults>>
    /\ UNCHANGED <<log, commits, key, client, admin, checked, tables>>

SubLost(i) ==
    /\ subs[i].link # "gone" /\ subs[i].fetched = None
    /\ Fault
    /\ subs' = [subs EXCEPT ![i].link = IF @ = "up" THEN "down" ELSE "gone"]
    /\ UNCHANGED <<splinter, key, client, admin, checked, tables, missed>>

\* handle_state_change at the address of the contract.
ContractSet(i) ==
    /\ subs[i].link = "up" /\ subs[i].next = 1 /\ commits >= 1
    /\ update_gameroom_status("Active")
    /\ members' = Moves(members, "Ready", "Active")
    /\ Notify("active")
    /\ subs' = [subs EXCEPT ![i].next = 2]
    /\ UNCHANGED <<splinter, key, client, admin, checked, proposal, votes, game, missed, faults>>

fetch_xo_game == game.rows > 0
\* All rows of the game are updated.
update_xo_game(board) == [game EXCEPT !.boards = {board}]
\* A game refers to its room: it is not inserted when the room has no row.
insert_xo_game(board) ==
    IF room = None THEN game ELSE [rows |-> game.rows + 1, boards |-> game.boards \cup {board}]

\* handle_state_change of a game: whether it has a row, then the row, in a transaction that other
\* transactions may run beside.
FetchGame(i) ==
    /\ subs[i].link = "up" /\ subs[i].fetched = None
    /\ subs[i].next \in 2..commits
    /\ subs' = [subs EXCEPT ![i].fetched = fetch_xo_game]
    /\ UNCHANGED <<splinter, key, client, admin, checked, tables, missed, faults>>

StoreGame(i) ==
    /\ subs[i].fetched # None
    /\ game' = IF subs[i].fetched THEN update_xo_game(subs[i].next) ELSE insert_xo_game(subs[i].next)
    /\ IF subs[i].fetched \/ room # None THEN Notify("game") ELSE UNCHANGED notifications
    /\ subs' = [subs EXCEPT ![i].next = @ + 1, ![i].fetched = None]
    /\ UNCHANGED <<splinter, key, client, admin, checked, room, proposal, members, votes, missed, faults>>

\* The pool has no connection, or the transaction fails: the change is logged and dropped.
ChangeFails(i) ==
    /\ subs[i].link = "up" /\ subs[i].next <= commits
    /\ Fault
    /\ missed' = TRUE
    /\ subs' = [subs EXCEPT ![i].next = @ + 1, ![i].fetched = None]
    /\ UNCHANGED <<splinter, key, client, admin, checked, tables>>

-----------------------------------------------------------------------------
(* The REST API.  A request that is refused changes nothing.               *)

\* propose_gameroom: the payload names the key that the daemon has now.  A client proposes one room.
check_alias_uniqueness == room = None
propose_gameroom ==
    /\ key # "other" /\ "create" \notin submitted
    /\ check_alias_uniqueness
    /\ payload' = "create"
    /\ key' = "mine"
    /\ UNCHANGED <<splinter, submitted, move, answer, admin, checked, subs, tables, missed, faults>>

\* The route proposal_vote.
check_proposal_exists == proposal = "Pending"
make_vote ==
    /\ key = "other" /\ payload = None
    /\ check_proposal_exists
    /\ payload' = "vote"
    /\ UNCHANGED <<splinter, key, submitted, move, answer, admin, checked, subs, tables, missed, faults>>

\* splinterd accepts the payload, refuses it, or cannot be reached.
submit_signed_payload ==
    /\ payload # None
    /\ payload' = None
    /\ submitted' \in {submitted, submitted \cup {payload}}
    /\ UNCHANGED <<splinter, key, move, answer, admin, checked, subs, tables, missed, faults>>

\* A move is posted to the room's scabbard, which refuses it or has it pending.  The client posts
\* one; other moves are other players'.
submit_scabbard_payload ==
    /\ commits \in 1..MaxMoves
    /\ move = None /\ answer = None
    /\ \/ move' = "Pending" /\ UNCHANGED answer
       \/ answer' \in {"bad_request", "error"} /\ UNCHANGED move
    /\ UNCHANGED <<splinter, key, payload, submitted, admin, checked, subs, tables, missed, faults>>

\* What becomes of the batch: it is found valid or invalid, and a valid one is committed.
Scabbard ==
    /\ \/ move = "Pending" /\ move' \in {"Valid", "Invalid"} /\ UNCHANGED commits
       \/ move = "Valid" /\ commits <= MaxMoves /\ move' = "Committed" /\ commits' = commits + 1
    /\ UNCHANGED <<log, posted, key, payload, submitted, answer, admin, checked, subs, tables, missed, faults>>

Answer(status) == CASE status = "Invalid" -> "bad_request" [] status = "Pending" -> "accepted" [] OTHER -> "ok"

\* The daemon asks for the status each second, until it is final or the time to wait has passed,
\* and then answers; a batch that is valid and not committed is answered with 200 all the same.
\* One that is not final then goes its way as any other's (CommitMove).
check_batch_status ==
    /\ move # None
    /\ answer' \in {Answer(move), "error"}
    /\ move' = None
    /\ UNCHANGED <<splinter, key, payload, submitted, admin, checked, subs, tables, missed, faults>>

-----------------------------------------------------------------------------
fetch_active_gamerooms == members = "Active"
resubscribe == Sub(FALSE)

\* The daemon ends and starts: main makes a new key, and run subscribes to the state of the rooms
\* that are active (resubscribe, without on_open) before it listens to admin events.
Restart ==
    /\ Fault
    /\ key' = Moves(key, "mine", "lost")
    /\ checked' = FALSE
    /\ admin' = [link |-> "down", next |-> 1]
    /\ subs' = IF fetch_active_gamerooms THEN <<resubscribe>> ELSE <<>>
    /\ UNCHANGED <<splinter, client, tables, missed>>

Init ==
    /\ log = <<>>
    /\ posted = FALSE /\ commits = 0
    /\ key \in {None, "other"}
    /\ payload = None /\ submitted = {}
    /\ move = None /\ answer = None
    /\ admin = [link |-> "down", next |-> 1]
    /\ checked = FALSE
    /\ subs = <<>>
    /\ room = None /\ proposal = None /\ members = None
    /\ votes = 0
    /\ game = [rows |-> 0, boards |-> {}]
    /\ notifications = {}
    /\ missed = FALSE
    /\ faults = 0

SubStep(i) == SubOpens(i) \/ ContractSet(i) \/ FetchGame(i) \/ StoreGame(i)

Next ==
    \/ \E e \in {"submitted", "vote", "accepted", "rejected", "ready"} : AdminEvent(e)
    \/ CommitSetup \/ CommitMove \/ OtherPosts
    \/ process_admin_event \/ EventFails \/ circuit_ready_check \/ circuit_ready
    \/ AdminConnects \/ AdminLost
    \/ \E i \in DOMAIN subs : SubStep(i) \/ SubLost(i) \/ ChangeFails(i)
    \/ propose_gameroom \/ make_vote \/ submit_signed_payload
    \/ submit_scabbard_payload \/ Scabbard \/ check_batch_status
    \/ Restart

Spec == Init /\ [][Next]_vars

-----------------------------------------------------------------------------
(* Properties.                                                             *)

Quiet ==
    /\ admin.link = "up" /\ admin.next > Len(log) /\ ~checked
    /\ \A i \in DOMAIN subs : subs[i].link = "up" /\ subs[i].next > commits

Expected ==
    IF log = <<>> THEN None
    ELSE CASE Last(log) \in {"submitted", "vote"} -> "Pending"
           [] Last(log) = "accepted" -> "Accepted"
           [] Last(log) = "rejected" -> "Rejected"
           [] Last(log) = "ready" -> IF commits >= 1 THEN "Active" ELSE "Ready"

\* When every websocket is connected and has brought what there is, and no transaction failed, the
\* tables say what the admin events and the commits say: the room and its members have the status
\* of the last event, Active once the contract is committed, and every row of the game shows the
\* last move, and players were notified of each kind of event.  This is so however connections were
\* lost, events replayed from the first, rooms subscribed to twice, the check of CircuitReady
\* overtaken by the room's state (process_admin_event, handle_state_change), and the daemon
\* restarted (run, resubscribe).
TablesMatchLog ==
    Quiet /\ ~missed =>
      /\ room = Expected
      /\ members = Expected
      /\ {log[i] : i \in DOMAIN log} \subseteq notifications
      /\ commits > 1 /\ Expected = "Active" => game.boards = {commits}
=============================================================================
