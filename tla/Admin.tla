------------------------------- MODULE Admin --------------------------------
(***************************************************************************)
(* The admin service (admin/service): circuits are proposed, voted on and  *)
(* committed by the admin services of their members.  Every call holds the *)
(* lock on AdminServiceShared, so each is one step.                        *)
(*                                                                         *)
(* Consensus is the two-phase engine of TwoPhase, reduced to what its      *)
(* theorems promise a manager: a node evaluates one proposal at a time,    *)
(* the coordinator decides first, and once every verifier has found the    *)
(* proposal valid it may accept.  A verifier's vote reaches the            *)
(* coordinator unseen; requests and results travel in order.               *)
(*                                                                         *)
(* The ID of a consensus proposal is the hash of its payload, and the      *)
(* expected hash that of the circuit proposal the payload leads to: here,  *)
(* the payload and the circuit proposal themselves.                        *)
(***************************************************************************)
EXTENDS Naturals, FiniteSets, Subsequences

CONSTANTS
    Nodes,           \* node IDs; PeerId is ordered, so numbers
    Definitions,     \* circuit definitions
    Id,              \* [Definitions -> circuit IDs]
    Members,         \* [Definitions -> SUBSET Nodes]
    Workloads,       \* what users submit, among which peers, and what may fail
    None

FaultKinds == {"restart", "store", "send", "service", "disconnect"}
Ids == {Id[d] : d \in Definitions}
Payload == [action : {"create"}, circuit : Definitions, requester : Nodes]
    \cup [action : {"vote"}, circuit : Definitions, requester : Nodes, vote : {"ACCEPT", "REJECT"}]

ASSUME AdminAssumption ==
    /\ Nodes \subseteq Nat
    /\ Members \in [Definitions -> SUBSET Nodes]
    /\ Workloads \subseteq
         [payloads : SUBSET Payload, most : Nat, strangers : SUBSET (Nodes \X Nodes), faults : SUBSET FaultKinds]

VARIABLES
    workload,                     \* one of Workloads, the same throughout a behaviour
    open_proposals,               \* [Nodes -> [Ids -> CircuitProposal or None]]
    circuits,                     \* the circuits in SplinterState
    disk,                         \* both of them as last stored
    uninitialized_circuits,       \* per ID: the circuit, once committed, and the members ready
    running_services,             \* the circuits whose services here have been started
    authorized,                   \* peers that are authorized
    met,                          \* <<payload, peer>>: authorized when it was submitted, or since (history)
    unpeered_payloads,            \* <<peers awaited, payload>>
    pending_circuit_payloads,
    pending_consensus_proposals,  \* <<payload, expected circuit proposal>>
    pending_changes,
    current_consensus_verifiers,
    events,                       \* the admin events sent to applications (history)
    submitted,                    \* the payloads submitted (history, bounded)
    evaluating,                   \* the proposal that the engine evaluates, or None
    backlog,                      \* its proposals not yet evaluated
    requests,                     \* its verification requests not yet taken up
    validated,                    \* the proposals found valid
    orders,                       \* requests and results under way, per coordinator and node
    proposed,                     \* PROPOSED_CIRCUIT messages under way to each node
    member_ready                  \* MEMBER_READY messages under way to each node

stored == <<open_proposals, circuits, disk>>
services == <<uninitialized_circuits, running_services, events, member_ready>>
peering == <<authorized, met, unpeered_payloads>>
change == <<pending_changes, current_consensus_verifiers>>
engine == <<evaluating, backlog, requests, validated, orders>>
vars == <<workload, stored, services, peering, change, engine, pending_circuit_payloads,
          pending_consensus_proposals, submitted, proposed>>

Payloads == workload.payloads      \* the CircuitManagementPayloads that users submit
MaxSubmissions == workload.most    \* bound: how many they submit
Strangers == workload.strangers    \* <<node, peer>>: not yet authorized there, may come and go
Faults == workload.faults

Empty == [circuit |-> None, ready |-> {}]
Expected(n, p) == {q \in pending_consensus_proposals[n] : q[1] = p}
Coordinator(p) == CHOOSE c \in Members[p.circuit] : \A m \in Members[p.circuit] : c =< m

-----------------------------------------------------------------------------
(* propose_change *)

\* Mutant of validate_create_circuit: only open proposals are looked at.
CreateIgnoresState(n, p) == open_proposals[n][Id[p.circuit]] = None /\ n \in Members[p.circuit]

\* Keys are registered and permitted, and the circuits well formed.
validate_create_circuit(n, p) ==
    /\ open_proposals[n][Id[p.circuit]] = None
    /\ \A d \in circuits[n] : Id[d] # Id[p.circuit]
    /\ n \in Members[p.circuit]

validate_circuit_vote(open, p) ==
    /\ open # None
    /\ open.requester # p.requester
    /\ \A i \in DOMAIN open.votes : open.votes[i].node # p.requester
    /\ open.circuit = p.circuit

Valid(n, p) ==
    \/ p.action = "create" /\ validate_create_circuit(n, p)
    \/ p.action = "vote" /\ validate_circuit_vote(open_proposals[n][Id[p.circuit]], p)

\* The circuit proposal that a valid payload leads to.
Proposed(n, p) ==
    IF p.action = "create"
    THEN [circuit |-> p.circuit, requester |-> p.requester, votes |-> <<>>]
    ELSE [open_proposals[n][Id[p.circuit]] EXCEPT
            !.votes = Append(@, [node |-> p.requester, vote |-> p.vote])]

\* Mutant of Propose: the verifiers are those of the change before.
ProposeKeepsVerifiers(n, p) ==
    /\ Valid(n, p)
    /\ pending_changes' = [pending_changes EXCEPT ![n] = [proposal |-> Proposed(n, p), action |-> p.action]]
    /\ current_consensus_verifiers' =
         [current_consensus_verifiers EXCEPT ![n] = IF @ = {} THEN Members[p.circuit] ELSE @]

Propose(n, p) ==
    /\ Valid(n, p)
    /\ pending_changes' = [pending_changes EXCEPT ![n] = [proposal |-> Proposed(n, p), action |-> p.action]]
    /\ current_consensus_verifiers' = [current_consensus_verifiers EXCEPT ![n] = Members[p.circuit]]

-----------------------------------------------------------------------------
(* commit and rollback *)

\* Mutant of check_approved: no vote is missing as long as none is a stranger's.
ApprovedByAny(proposal) ==
    LET votes == {proposal.votes[i] : i \in DOMAIN proposal.votes}
    IN IF \E v \in votes : v.vote = "REJECT" THEN "Rejected"
       ELSE IF {v.node : v \in votes} \subseteq Members[proposal.circuit] \ {proposal.requester}
       THEN "Accepted" ELSE "Pending"

check_approved(proposal) ==
    LET votes == {proposal.votes[i] : i \in DOMAIN proposal.votes}
    IN IF \E v \in votes : v.vote = "REJECT" THEN "Rejected"
       ELSE IF {v.node : v \in votes} = Members[proposal.circuit] \ {proposal.requester}
       THEN "Accepted" ELSE "Pending"

Event(kind, d) == [kind |-> kind, circuit |-> d]
Tell(n, es) == events' = [events EXCEPT ![n] = @ \o es]

\* Mutant of AllReady: a member is waited for only if it has spoken.
AnyReady(uninit) == uninit.circuit # None

AllReady(uninit) == uninit.circuit # None /\ Members[uninit.circuit] \subseteq uninit.ready

\* initialize_services_if_members_ready, when the entry for id is uninit, with the
\* events es sent before.
initialize_services(n, id, uninit, es) ==
    IF AllReady(uninit)
    THEN /\ uninitialized_circuits' = [uninitialized_circuits EXCEPT ![n][id] = Empty]
         /\ running_services' = [running_services EXCEPT ![n] = @ \cup {uninit.circuit}]
         /\ Tell(n, Append(es, Event("Ready", uninit.circuit)))
    ELSE /\ uninitialized_circuits' = [uninitialized_circuits EXCEPT ![n][id] = uninit]
         /\ UNCHANGED running_services
         /\ Tell(n, es)

SendReady(n, d, to) ==
    member_ready' = [m \in Nodes |-> IF m \in to THEN member_ready[m] \cup {<<Id[d], n>>} ELSE member_ready[m]]

\* SplinterState and OpenProposals change what they hold, then write it.
AddCircuit(n, d) == circuits' = [circuits EXCEPT ![n] = {c \in @ : Id[c] # Id[d]} \cup {d}]
StoreProposal(n, id, proposal) == open_proposals' = [open_proposals EXCEPT ![n][id] = proposal]
Write(n) == disk' = [disk EXCEPT ![n] = [open |-> open_proposals'[n], circuits |-> circuits'[n]]]

CommitAccepted(n, proposal) ==
    LET d == proposal.circuit
        uninit == uninitialized_circuits[n][Id[d]]
    IN /\ AddCircuit(n, d) /\ StoreProposal(n, Id[d], None) /\ Write(n)
       /\ SendReady(n, d, Members[d] \ {n})
       /\ initialize_services(n, Id[d], [circuit |-> d, ready |-> uninit.ready \cup {n}], <<Event("Accepted", d)>>)

\* A service of a circuit that is ready cannot be created: the circuit is forgotten.
ServiceFails(n, id, uninit) ==
    /\ "service" \in Faults /\ AllReady(uninit)
    /\ uninitialized_circuits' = [uninitialized_circuits EXCEPT ![n][id] = Empty]
    /\ UNCHANGED running_services

\* commit fails when the state or the open proposals cannot be stored, when a member
\* cannot be sent to, or with the services; what was done before stays.
CommitAcceptedFails(n, proposal) ==
    LET d == proposal.circuit
        ready == uninitialized_circuits[n][Id[d]].ready \cup {n}
    IN \/ "store" \in Faults /\ UNCHANGED <<stored, services>>
       \/ /\ AddCircuit(n, d)
          /\ \/ "store" \in Faults /\ UNCHANGED <<open_proposals, disk, services>>
             \/ /\ "store" \in Faults
                /\ StoreProposal(n, Id[d], None)
                /\ disk' = [disk EXCEPT ![n].circuits = circuits'[n]]
                /\ UNCHANGED services
             \/ /\ StoreProposal(n, Id[d], None) /\ Write(n)
                /\ Tell(n, <<Event("Accepted", d)>>)
                /\ \/ /\ "send" \in Faults
                      /\ \E to \in SUBSET (Members[d] \ {n}) : SendReady(n, d, to)
                      /\ UNCHANGED <<uninitialized_circuits, running_services>>
                   \/ /\ SendReady(n, d, Members[d] \ {n})
                      /\ ServiceFails(n, Id[d], [circuit |-> d, ready |-> ready])

CommitOther(n, proposal, action) ==
    LET d == proposal.circuit
        status == check_approved(proposal)
    IN /\ StoreProposal(n, Id[d], IF status = "Pending" THEN proposal ELSE None)
       /\ Tell(n, <<Event(IF status = "Rejected" THEN "Rejected"
                          ELSE IF action = "create" THEN "Submitted" ELSE "Vote", d)>>)
       /\ UNCHANGED <<circuits, uninitialized_circuits, running_services, member_ready>>
       /\ Write(n)

\* commit takes the pending changes, whichever proposal they are for.
commit(n) ==
    LET proposal == pending_changes[n].proposal
    IN /\ pending_changes[n] # None
       /\ IF check_approved(proposal) = "Accepted"
          THEN CommitAccepted(n, proposal)
          ELSE CommitOther(n, proposal, pending_changes[n].action)

CommitFails(n) ==
    LET proposal == pending_changes[n].proposal
    IN \/ pending_changes[n] = None /\ UNCHANGED <<stored, services>>
       \/ /\ pending_changes[n] # None
          /\ IF check_approved(proposal) = "Accepted"
             THEN CommitAcceptedFails(n, proposal)
             ELSE /\ "store" \in Faults
                  /\ StoreProposal(n, Id[proposal.circuit],
                                   IF check_approved(proposal) = "Pending" THEN proposal ELSE None)
                  /\ UNCHANGED <<circuits, disk, services>>

-----------------------------------------------------------------------------
(* Users and peers. *)

Queue(n, ps) ==
    pending_circuit_payloads' = [pending_circuit_payloads EXCEPT ![n] = @ \o ps]

\* submit: a vote is queued; a new circuit too, once all of its members are peers.
submit(n, p) ==
    LET unauthorized == {m \in Members[p.circuit] : m # n /\ m \notin authorized[n]}
    IN /\ n = p.requester /\ Len(submitted) < MaxSubmissions
       /\ submitted' = Append(submitted, p)
       /\ met' = [met EXCEPT ![n] = @ \cup ({p} \X authorized[n])]
       /\ IF p.action = "vote" \/ unauthorized = {}
          THEN Queue(n, <<p>>) /\ UNCHANGED unpeered_payloads
          ELSE /\ unpeered_payloads' = [unpeered_payloads EXCEPT ![n] = Append(@, <<unauthorized, p>>)]
               /\ UNCHANGED pending_circuit_payloads
       /\ UNCHANGED <<stored, services, authorized, change, engine, pending_consensus_proposals, proposed>>

\* Mutant of StillAwaited: the payload is released at its first peer.
AwaitsNothing(peers, peer) == IF peer \in peers THEN {} ELSE peers

StillAwaited(peers, peer) == peers \ {peer}

\* AuthorizationManager::next_state tells of a peer that has identified itself, and
\* on_authorization_change releases the payloads that awaited no other.
PeerAuthorized(n, peer) ==
    LET waiting == [i \in DOMAIN unpeered_payloads[n] |->
                      <<StillAwaited(unpeered_payloads[n][i][1], peer), unpeered_payloads[n][i][2]>>]
        complete == {i \in DOMAIN waiting : waiting[i][1] = {}}
        released == Keep(waiting, complete)
    IN /\ peer # n
       /\ authorized' = [authorized EXCEPT ![n] = @ \cup {peer}]
       /\ met' = [met EXCEPT ![n] = @ \cup ({unpeered_payloads[n][i][2] : i \in DOMAIN unpeered_payloads[n]} \X {peer})]
       /\ unpeered_payloads' = [unpeered_payloads EXCEPT ![n] = Keep(waiting, DOMAIN waiting \ complete)]
       /\ Queue(n, [i \in DOMAIN released |-> released[i][2]])
       /\ UNCHANGED <<stored, services, change, engine, pending_consensus_proposals, submitted, proposed>>

\* A peer, authorized or still connecting, is unauthorized: on_authorization_change drops
\* the payloads that await it.
PeerRefused(n, peer) ==
    /\ peer # n
    /\ peer \in authorized[n] => "disconnect" \in Faults
    /\ authorized' = [authorized EXCEPT ![n] = @ \ {peer}]
    /\ unpeered_payloads' =
         [unpeered_payloads EXCEPT ![n] = Keep(@, {i \in DOMAIN @ : peer \notin @[i][1]})]
    /\ UNCHANGED <<stored, services, met, change, engine, pending_circuit_payloads,
                   pending_consensus_proposals, submitted, proposed>>

\* A peer disconnects: AuthorizationManager forgets it and tells nobody.  What was under way
\* to it, or is sent while it is gone, may be lost.
PeerLost(n, peer) ==
    /\ peer # n
    /\ "disconnect" \in Faults
    /\ authorized' = [authorized EXCEPT ![n] = @ \ {peer}]
    /\ \E k \in 0..Len(orders[<<n, peer>>]) :
          orders' = [orders EXCEPT ![<<n, peer>>] = SubSeq(@, 1, k)]
    /\ \E lost \in SUBSET {q \in proposed[peer] : q[1].requester = n} :
          proposed' = [proposed EXCEPT ![peer] = @ \ lost]
    /\ \E lost \in SUBSET {r \in member_ready[peer] : r[2] = n} :
          member_ready' = [member_ready EXCEPT ![peer] = @ \ lost]
    /\ UNCHANGED <<stored, uninitialized_circuits, running_services, events, met, unpeered_payloads,
                   change, evaluating, backlog, requests, validated, pending_circuit_payloads,
                   pending_consensus_proposals, submitted>>

-----------------------------------------------------------------------------
(* The proposal manager, and the engine's steps that call it. *)

Order(c, to, kind, p) ==
    orders' = [x \in Nodes \X Nodes |->
                 IF x[1] = c /\ x[2] \in to \ {c} THEN Append(orders[x], <<kind, p>>) ELSE orders[x]]
Forget(n, p) ==
    pending_consensus_proposals' = [pending_consensus_proposals EXCEPT ![n] = @ \ Expected(n, p)]
Become(n, p) == evaluating' = [evaluating EXCEPT ![n] = p]

\* Mutant of EngineIdle: a proposal may be created while another is evaluated.
EngineBusy(n) == n \in Nodes

EngineIdle(n) == evaluating[n] = None

\* create_proposal, by an engine that is idle: the proposal goes to the other members.
create_proposal(n) ==
    /\ EngineIdle(n) /\ pending_circuit_payloads[n] # <<>>
    /\ pending_circuit_payloads' = [pending_circuit_payloads EXCEPT ![n] = Tail(@)]
    /\ LET p == Head(pending_circuit_payloads[n])
           q == <<p, Proposed(n, p)>>
       IN IF Valid(n, p)
          THEN /\ Propose(n, p)
               /\ pending_consensus_proposals' =
                    [pending_consensus_proposals EXCEPT ![n] = (@ \ Expected(n, p)) \cup {q}]
               /\ backlog' = [backlog EXCEPT ![n] = @ \cup {p}]
               /\ proposed' = [m \in Nodes |-> IF m \in Members[p.circuit] \ {n}
                                               THEN proposed[m] \cup {q} ELSE proposed[m]]
          ELSE UNCHANGED <<change, pending_consensus_proposals, backlog, proposed>>
    /\ UNCHANGED <<stored, services, peering, evaluating, requests, validated, orders, submitted>>

\* handle_message, PROPOSED_CIRCUIT.
HandleProposedCircuit(n, q) ==
    /\ q \in proposed[n]
    /\ proposed' = [proposed EXCEPT ![n] = @ \ {q}]
    /\ pending_consensus_proposals' =
         [pending_consensus_proposals EXCEPT ![n] = (@ \ Expected(n, q[1])) \cup {q}]
    /\ backlog' = [backlog EXCEPT ![n] = @ \cup {q[1]}]
    /\ UNCHANGED <<stored, services, peering, change, pending_circuit_payloads, submitted,
                   evaluating, requests, validated, orders>>

\* Mutant of AddReady: the message counts only once the circuit is committed here.
AddReadyIfCommitted(uninit, m) == IF uninit.circuit = None THEN uninit ELSE [uninit EXCEPT !.ready = @ \cup {m}]

AddReady(uninit, m) == [uninit EXCEPT !.ready = @ \cup {m}]

\* handle_message, MEMBER_READY: add_ready_member.
HandleMemberReady(n, r) ==
    LET uninit == uninitialized_circuits[n][r[1]]
    IN /\ r \in member_ready[n]
       /\ member_ready' = [member_ready EXCEPT ![n] = @ \ {r}]
       /\ \/ initialize_services(n, r[1], AddReady(uninit, r[2]), <<>>)
          \/ ServiceFails(n, r[1], AddReady(uninit, r[2])) /\ UNCHANGED events
       /\ UNCHANGED <<stored, peering, change, engine, pending_circuit_payloads,
                      pending_consensus_proposals, submitted, proposed>>

\* check_proposal, when the change can be made: does it lead to the expected hash?
Checks(n, p) ==
    /\ Propose(n, p)
    /\ validated' = [validated EXCEPT ![n] = IF Expected(n, p) = {<<p, Proposed(n, p)>>}
                                             THEN @ \cup {p} ELSE @]

\* reject_proposal drops the pending changes, whichever proposal they are for.
reject_proposal(n, p) ==
    /\ Forget(n, p)
    /\ pending_changes' = [pending_changes EXCEPT ![n] = IF Expected(n, p) = {} THEN @ ELSE None]

\* accept_proposal: a failure is reported with ProposalAcceptFailed, which the engine
\* ignores, and what failed to commit stays pending.
accept_proposal(n, p) ==
    IF Expected(n, p) = {}
    THEN UNCHANGED <<stored, services, pending_changes, pending_consensus_proposals>>
    ELSE /\ pending_changes' = [pending_changes EXCEPT ![n] = None]
         /\ \/ commit(n) /\ Forget(n, p)
            \/ CommitFails(n) /\ UNCHANGED pending_consensus_proposals

\* start_coordination: what is valid is sent to the verifiers, what is not will be aborted;
\* when the check fails the proposal is rejected, and nobody is told.
Coordinate(c, p) ==
    /\ evaluating[c] = None /\ p \in backlog[c] /\ c = Coordinator(p)
    /\ backlog' = [backlog EXCEPT ![c] = @ \ {p}]
    /\ IF Valid(c, p) /\ Expected(c, p) # {}
       THEN /\ Checks(c, p) /\ Become(c, p)
            /\ Order(c, IF p \in validated'[c] THEN Members[p.circuit] ELSE {}, "REQUEST", p)
            /\ UNCHANGED pending_consensus_proposals
       ELSE /\ reject_proposal(c, p)
            /\ UNCHANGED <<current_consensus_verifiers, evaluating, validated, orders>>
    /\ UNCHANGED <<stored, services, peering, pending_circuit_payloads, submitted, requests, proposed>>

\* A verifier takes up a request for a proposal that it has.
Evaluate(n, p) ==
    /\ evaluating[n] = None /\ p \in requests[n] \cap backlog[n]
    /\ requests' = [requests EXCEPT ![n] = @ \ {p}]
    /\ backlog' = [backlog EXCEPT ![n] = @ \ {p}]
    /\ IF Valid(n, p) /\ Expected(n, p) # {}
       THEN Checks(n, p) /\ Become(n, p)
       ELSE UNCHANGED <<change, evaluating, validated>>
    /\ UNCHANGED <<stored, services, peering, pending_circuit_payloads, submitted, orders,
                   pending_consensus_proposals, proposed>>

\* complete_coordination, when all have found the proposal valid.
Accept(c, p) ==
    /\ evaluating[c] = p /\ p # None /\ c = Coordinator(p)
    /\ \A m \in Members[p.circuit] : p \in validated[m]
    /\ accept_proposal(c, p) /\ Become(c, None)
    /\ Order(c, current_consensus_verifiers[c], "APPLY", p)
    /\ UNCHANGED <<peering, pending_circuit_payloads, current_consensus_verifiers, backlog,
                   requests, validated, submitted, proposed>>

\* complete_coordination, after a vote against or the timeout.
Abort(c, p) ==
    /\ evaluating[c] = p /\ p # None /\ c = Coordinator(p)
    /\ reject_proposal(c, p) /\ Become(c, None)
    /\ Order(c, current_consensus_verifiers[c], "REJECT", p)
    /\ UNCHANGED <<stored, services, peering, pending_circuit_payloads, backlog, requests,
                   current_consensus_verifiers, validated, submitted, proposed>>

HandleOrder(c, n) ==
    /\ orders[<<c, n>>] # <<>>
    /\ orders' = [orders EXCEPT ![<<c, n>>] = Tail(@)]
    /\ LET kind == Head(orders[<<c, n>>])[1]
           p == Head(orders[<<c, n>>])[2]
       IN \/ /\ kind = "REQUEST"
             /\ requests' = [requests EXCEPT ![n] = @ \cup {p}]
             /\ UNCHANGED <<stored, services, change, evaluating, pending_consensus_proposals>>
          \/ /\ kind = "APPLY"
             /\ IF evaluating[n] = p
                THEN accept_proposal(n, p) /\ Become(n, None)
                ELSE UNCHANGED <<stored, services, pending_changes, evaluating, pending_consensus_proposals>>
             /\ UNCHANGED <<requests, current_consensus_verifiers>>
          \/ /\ kind = "REJECT"
             /\ reject_proposal(n, p)
             /\ Become(n, IF evaluating[n] = p THEN None ELSE evaluating[n])
             /\ UNCHANGED <<stored, services, requests, current_consensus_verifiers>>
    /\ UNCHANGED <<peering, pending_circuit_payloads, backlog, validated, submitted, proposed>>

\* restart_services: those of every circuit in the state.
restart_services(n) == running_services' = [running_services EXCEPT ![n] = circuits'[n]]

\* The daemon ends and starts again: what is stored is left.
Restart(n) ==
    /\ "restart" \in Faults
    /\ uninitialized_circuits' = [uninitialized_circuits EXCEPT ![n] = [id \in Ids |-> Empty]]
    /\ open_proposals' = [open_proposals EXCEPT ![n] = disk[n].open]
    /\ circuits' = [circuits EXCEPT ![n] = disk[n].circuits]
    /\ restart_services(n)
    /\ authorized' = [authorized EXCEPT ![n] = {}]
    /\ met' = [met EXCEPT ![n] = {}]
    /\ unpeered_payloads' = [unpeered_payloads EXCEPT ![n] = <<>>]
    /\ pending_circuit_payloads' = [pending_circuit_payloads EXCEPT ![n] = <<>>]
    /\ pending_consensus_proposals' = [pending_consensus_proposals EXCEPT ![n] = {}]
    /\ pending_changes' = [pending_changes EXCEPT ![n] = None]
    /\ current_consensus_verifiers' = [current_consensus_verifiers EXCEPT ![n] = {}]
    /\ evaluating' = [evaluating EXCEPT ![n] = None]
    /\ backlog' = [backlog EXCEPT ![n] = {}]
    /\ requests' = [requests EXCEPT ![n] = {}]
    /\ orders' = [x \in Nodes \X Nodes |-> IF x[2] = n THEN <<>> ELSE orders[x]]
    /\ proposed' = [proposed EXCEPT ![n] = {}]
    /\ member_ready' = [member_ready EXCEPT ![n] = {}]
    /\ UNCHANGED <<disk, validated, events, submitted>>

-----------------------------------------------------------------------------
Init ==
    /\ workload \in Workloads
    /\ open_proposals = [n \in Nodes |-> [id \in Ids |-> None]]
    /\ circuits = [n \in Nodes |-> {}]
    /\ disk = [n \in Nodes |-> [open |-> [id \in Ids |-> None], circuits |-> {}]]
    /\ uninitialized_circuits = [n \in Nodes |-> [id \in Ids |-> Empty]]
    /\ running_services = [n \in Nodes |-> {}]
    /\ authorized = [n \in Nodes |-> {m \in Nodes \ {n} : <<n, m>> \notin Strangers}]
    /\ met = [n \in Nodes |-> {}]
    /\ unpeered_payloads = [n \in Nodes |-> <<>>]
    /\ pending_circuit_payloads = [n \in Nodes |-> <<>>]
    /\ pending_consensus_proposals = [n \in Nodes |-> {}]
    /\ pending_changes = [n \in Nodes |-> None]
    /\ current_consensus_verifiers = [n \in Nodes |-> {}]
    /\ events = [n \in Nodes |-> <<>>]
    /\ submitted = <<>>
    /\ evaluating = [n \in Nodes |-> None]
    /\ backlog = [n \in Nodes |-> {}]
    /\ requests = [n \in Nodes |-> {}]
    /\ validated = [n \in Nodes |-> {}]
    /\ orders = [x \in Nodes \X Nodes |-> <<>>]
    /\ proposed = [n \in Nodes |-> {}]
    /\ member_ready = [n \in Nodes |-> {}]

Steps(n) ==
    \/ create_proposal(n)
    \/ \E q \in proposed[n] : HandleProposedCircuit(n, q)
    \/ \E r \in member_ready[n] : HandleMemberReady(n, r)
    \/ \E p \in Payloads : Coordinate(n, p) \/ Evaluate(n, p) \/ Accept(n, p) \/ Abort(n, p)
    \/ \E c \in Nodes : HandleOrder(c, n)

Next ==
    /\ \E n \in Nodes :
        \/ \E p \in Payloads : submit(n, p)
        \/ Steps(n)
        \/ Restart(n)
        \/ \E peer \in Nodes :
             /\ <<n, peer>> \in Strangers
             /\ PeerAuthorized(n, peer) \/ PeerRefused(n, peer) \/ PeerLost(n, peer)
    /\ UNCHANGED workload

Spec == Init /\ [][Next]_vars

-----------------------------------------------------------------------------
(* Properties. *)

Cast == {submitted[i] : i \in DOMAIN submitted}
VotedFor(d) ==
    \E c \in Cast :
        /\ c.action = "create" /\ c.circuit = d
        /\ \A m \in Members[d] \ {c.requester} :
              [action |-> "vote", circuit |-> d, requester |-> m, vote |-> "ACCEPT"] \in Cast

\* A circuit is in a node's state only if a member proposed it and every other member's
\* vote to accept was submitted (check_approved), whatever is aborted or lost by a restart.
CircuitsAreVotedFor == \A n \in Nodes : \A d \in circuits[n] : VotedFor(d)

\* Once committed, a circuit stays: it is not lost, nor replaced by another one of its ID,
\* although two definitions may be proposed, and voted on, at the same time
\* (validate_create_circuit).  A restart after a failed write is excepted: the circuit is lost
\* with it, and a proposal that was closed in memory only is open again after it, beside a
\* circuit of its ID that was committed since, and may replace it.
CircuitsStay ==
    [][{"store", "restart"} \subseteq Faults \/
         \A n \in Nodes : /\ circuits[n] \subseteq circuits'[n]
                          /\ \A d, e \in circuits'[n] : Id[d] = Id[e] => d = e]_vars

\* Whatever a node's engine broadcasts about the proposal it evaluates goes to the members
\* of that proposal's circuit: current_consensus_verifiers is never that of another change.
VerifiersAreMembers ==
    \A n \in Nodes : evaluating[n] # None =>
        current_consensus_verifiers[n] = Members[evaluating[n].circuit]

\* The services of a circuit start, unless by a restart, only when every member has it in
\* its state: MEMBER_READY follows the commit, and may overtake another member's.
ServicesStartTogether ==
    "restart" \notin Faults => \A n \in Nodes : \A d \in running_services[n] : \A m \in Members[d] : d \in circuits[m]

Story(n, m) == SelectSeq(events[n], LAMBDA e : e.kind # "Ready" /\ {n, m} \subseteq Members[e.circuit])

\* The applications of two members are told the same of their circuits, in the same order,
\* where one coordinator decides and nothing fails: one of them may only be behind.
MembersToldTheSame ==
    Faults = {} => \A n, m \in Nodes :
        LET a == Story(n, m)
            b == Story(m, n)
            k == IF Len(a) < Len(b) THEN Len(a) ELSE Len(b)
        IN SubSeq(a, 1, k) = SubSeq(b, 1, k)

\* A new circuit's payload goes to consensus only when each other member has been an
\* authorized peer since it was submitted, in whatever order peers are authorized, refused
\* and lost while it waits (on_authorization_change).  Not that they still are: a peer that
\* disconnects is forgotten without a callback.
ProposedAmongPeers ==
    \A n \in Nodes : \A i \in DOMAIN pending_circuit_payloads[n] :
        LET p == pending_circuit_payloads[n][i]
        IN p.action = "create" => \A m \in Members[p.circuit] \ {n} : <<p, m>> \in met[n]

\* The pending changes are those of the proposal under evaluation, as the comment on the
\* field says.
PendingChangesAreCurrent ==
    \A n \in Nodes : evaluating[n] # None =>
        /\ pending_changes[n] # None
        /\ pending_changes[n].proposal.circuit = evaluating[n].circuit

NothingUnderWay ==
    /\ \A x \in Nodes \X Nodes : orders[x] = <<>>
    /\ \A n \in Nodes : evaluating[n] = None /\ proposed[n] = {} /\ member_ready[n] = {}

\* When nothing is under way, a circuit that one member has committed runs at every member,
\* however MEMBER_READY and the commits raced; unless something failed, or a payload was
\* submitted twice, whose hash is the ID of both of its consensus proposals.
CommittedCircuitsRun ==
    NothingUnderWay /\ Faults = {} /\ (\A i, j \in DOMAIN submitted : submitted[i] = submitted[j] => i = j) =>
        \A d \in Definitions : \A n, m \in Members[d] : d \in circuits[n] => d \in running_services[m]
=============================================================================
