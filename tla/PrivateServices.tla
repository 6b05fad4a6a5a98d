-------------------------- MODULE PrivateServices --------------------------
(***************************************************************************)
(* The example services private_xo and private_counter, each a process of  *)
(* its own that joins a splinter node and runs the two-phase engine of     *)
(* TwoPhase over a proposal manager of its own.  A behaviour is of one of  *)
(* the two (workload.app).  A manager call of private_xo holds the lock on *)
(* pending_proposal, one of private_counter the lock on ServiceState, so a *)
(* call is one step, taken with the engine's step that makes it; the       *)
(* NetworkReceiver thread and the clients take the same locks between the  *)
(* calls.                                                                  *)
(*                                                                         *)
(* The ID of a proposal is the hash of the state that it should lead to: a *)
(* sequence of batches for private_xo, <<v>> for the counter's value v.    *)
(***************************************************************************)
EXTENDS TwoPhase, FiniteSets

CONSTANTS
    XoRoots,      \* the state roots that valid batches lead to
    NoBatch,      \* no pending changes
    U32,          \* the number of values of the counter's type
    Workloads     \* records [app, inputs, proposals, shutdown], see workload

\* The batches that those state roots are made of.
XoBatches == UNION {{p[i] : i \in DOMAIN p} : p \in XoRoots}

(***************************************************************************)
(* The consensus data of the services' proposals is empty, so every        *)
(* service verifies each of them.                                          *)
(***************************************************************************)
ASSUME PrivateAssumption ==
    /\ XoRoots \subseteq Proposals \cap (Seq(XoBatches) \ {<<>>})
    /\ Verifiers = [p \in Proposals |-> Nodes]
    /\ \E c \in Nodes : \A n \in Nodes : c =< n

VARIABLES
    workload,             \* app: "xo" or "counter"; inputs: what clients send, <<n, x>>;
                          \* proposals: bound on proposed; shutdown: who receives Ctrl-C
    inputs,               \* what is left of workload.inputs
    link,                 \* how far a service has joined its splinter node
    pending_batches,      \* xo: batches posted and not yet proposed
    pending_proposal,     \* xo: the only proposal that the service knows, or NoProposal
    pending_changes,      \* xo: the batch last executed, or NoBatch
    current_state_root,   \* xo
    proposed_increments,  \* counter: a map from expected hash to increment
    counter,              \* counter
    unhandled,            \* unhandled[<<s, n>>]: proposals of s that n's receiver has yet to handle, and
                          \* the number of s's messages in msgs that were sent before
    proposed              \* the proposals that managers have sent out

xoVars == <<pending_batches, pending_proposal, pending_changes, current_state_root>>
counterVars == <<proposed_increments, counter>>
serviceVars == <<workload, inputs, link, unhandled, proposed>>
privateVars == <<vars, xoVars, counterVars, serviceVars>>

Others(n) == Nodes \ {n}

-----------------------------------------------------------------------------
(* Joining the splinter node (which is external and answers every request). *)

\* The process connects to the node, starts the engine and the loops and asks to be authorized,
\* or it cannot connect and ends.
main(n) ==
    /\ link[n] = "down"
    /\ \/ link' = [link EXCEPT ![n] = "requested"] /\ UNCHANGED vars
       \/ link' = [link EXCEPT ![n] = "ended"] /\ Stop(n)
    /\ UNCHANGED <<xoVars, counterVars, workload, inputs, unhandled, proposed>>

\* CONNECT_RESPONSE: the node trusts identities, or it does not and nothing more is sent.
\* AUTHORIZE: the service asks to be connected to its circuit.
handle_authorized_msg(n) ==
    /\ \/ link[n] = "requested" /\ \E l \in {"trusting", "waiting"} : link' = [link EXCEPT ![n] = l]
       \/ link[n] = "trusting" /\ link' = [link EXCEPT ![n] = "joining"]
    /\ UNCHANGED <<vars, xoVars, counterVars, workload, inputs, unhandled, proposed>>

\* The end of run_service_loop: private_xo ends its process; private_counter's engine is
\* not told, and goes on.
LoopEnds(n) ==
    /\ link' = [link EXCEPT ![n] = "ended"]
    /\ IF workload.app = "xo" THEN Stop(n) ELSE UNCHANGED vars
    /\ UNCHANGED <<xoVars, counterVars, workload, inputs, unhandled, proposed>>

\* SERVICE_CONNECT_RESPONSE: connected, the queue is full (and the service waits), or an
\* error, which ends the loop.
handle_circuit_msg(n) ==
    /\ link[n] = "joining"
    /\ \/ /\ \E l \in {"connected", "waiting"} : link' = [link EXCEPT ![n] = l]
          /\ UNCHANGED <<vars, xoVars, counterVars, workload, inputs, unhandled, proposed>>
       \/ LoopEnds(n)

\* Ctrl-C: the loop sees running = false.
Shutdown(n) ==
    /\ n \in workload.shutdown /\ link[n] \notin {"down", "ended"}
    /\ LoopEnds(n)

-----------------------------------------------------------------------------
(* private_xo: XoState and PrivateXoProposalManager. *)

Batch(p) == p[Len(p)]
ExpectedHash(n, b) == Append(current_state_root[n], b)
Executes(n, b) == ExpectedHash(n, b) \in XoRoots

\* propose_change: an invalid batch leaves the earlier changes.
propose_change(n, b) ==
    pending_changes' = [pending_changes EXCEPT ![n] = IF Executes(n, b) THEN b ELSE @]

Changed(n) == pending_changes[n] # NoBatch

\* Fails when nothing is pending.
commit(n) ==
    /\ pending_changes' = [pending_changes EXCEPT ![n] = NoBatch]
    /\ current_state_root' = [current_state_root EXCEPT ![n] =
                                IF Changed(n) THEN Append(@, pending_changes[n]) ELSE @]

rollback(n) == pending_changes' = [pending_changes EXCEPT ![n] = NoBatch]

\* What a step of n's engine does to the connections.  It takes a consensus message of s only
\* if the receiver has handled the proposals that s sent before it, and a proposal only after
\* the receiver; out is the proposal that the manager sends to every verifier, if any.
Connections(n, out) ==
    LET took(ch, s) == Len(ch'[<<s, n>>]) < Len(ch[<<s, n>>])
        ahead(c) == [i \in DOMAIN unhandled[c] |-> [unhandled[c][i] EXCEPT !.after = @ - 1]]
    IN /\ \A s \in Others(n) :
            LET c == <<s, n>>
            IN /\ took(updates, s) => Len(unhandled[c]) < Len(updates[c])
               /\ took(msgs, s) => \A i \in DOMAIN unhandled[c] : unhandled[c][i].after > 0
       /\ unhandled' = [c \in Channels |->
            CASE c[2] = n /\ c[1] # n /\ took(msgs, c[1]) -> ahead(c)
              [] c[1] = n /\ c[2] # n /\ out # {} ->
                   Append(unhandled[c], [id |-> (CHOOSE e \in out : TRUE).id, after |-> Len(msgs[c]),
                                         increment |-> (CHOOSE e \in out : TRUE).increment])
              [] OTHER -> unhandled[c]]
       /\ proposed' = proposed + Cardinality(out)
       /\ proposed' <= workload.proposals

xo_create_proposal(n) ==
    \/ /\ pending_batches[n] = <<>>
       /\ CreateProposal(n, NoProposal)
       /\ UNCHANGED xoVars /\ Connections(n, {})
    \/ /\ pending_batches[n] # <<>>
       /\ pending_batches' = [pending_batches EXCEPT ![n] = Tail(@)]
       /\ LET b == Head(pending_batches[n])
          IN /\ propose_change(n, b)
             /\ IF Executes(n, b)
                THEN /\ pending_proposal' = [pending_proposal EXCEPT ![n] = ExpectedHash(n, b)]
                     /\ CreateProposal(n, ExpectedHash(n, b))
                     /\ Connections(n, {[id |-> ExpectedHash(n, b), increment |-> 0]})
                ELSE /\ CreateProposalFails(n, NoProposal, {})
                     /\ UNCHANGED pending_proposal /\ Connections(n, {})
       /\ UNCHANGED current_state_root

\* A proposal that is not the pending one is invalid; one that does not execute, an error.
xo_check_proposal(n, p, r) ==
    /\ IF pending_proposal[n] = p
       THEN /\ propose_change(n, Batch(p))
            /\ r = IF ~Executes(n, Batch(p)) THEN "error"
                   ELSE IF ExpectedHash(n, Batch(p)) = p THEN "valid" ELSE "invalid"
       ELSE r = "invalid" /\ UNCHANGED pending_changes
    /\ UNCHANGED <<pending_batches, pending_proposal, current_state_root>>

\* Mutant of xo_accept_proposal: the pending changes are committed whichever proposal is
\* the pending one.
AcceptsWhateverIsPending(n, p) ==
    LET b == Batch(pending_proposal[n])
    IN /\ IF pending_proposal[n] # NoProposal
          THEN /\ pending_changes' = [pending_changes EXCEPT ![n] = NoBatch]
               /\ pending_proposal' = [pending_proposal EXCEPT ![n] = NoProposal]
               /\ current_state_root' = [current_state_root EXCEPT ![n] = Append(@, b)]
          ELSE UNCHANGED <<pending_changes, pending_proposal, current_state_root>>
       /\ UNCHANGED pending_batches

\* The changes are committed if the proposal is still the pending one; else the update
\* ProposalAcceptFailed is sent, which the engine only logs, and the call succeeds.
xo_accept_proposal(n, p) ==
    /\ IF pending_proposal[n] = p
       THEN /\ commit(n)
            /\ pending_proposal' = [pending_proposal EXCEPT ![n] = IF Changed(n) THEN NoProposal ELSE @]
       ELSE UNCHANGED <<pending_changes, pending_proposal, current_state_root>>
    /\ UNCHANGED pending_batches

xo_reject_proposal(n, p) ==
    /\ IF pending_proposal[n] = p
       THEN /\ rollback(n)
            /\ pending_proposal' = [pending_proposal EXCEPT ![n] = NoProposal]
       ELSE UNCHANGED <<pending_changes, pending_proposal>>
    /\ UNCHANGED <<pending_batches, current_state_root>>

\* start_coordination after an error of check_proposal, which left the changes alone.
xo_check_then_reject(n, p) ==
    /\ pending_proposal[n] = p /\ ~Executes(n, Batch(p))
    /\ xo_reject_proposal(n, p)

-----------------------------------------------------------------------------
(* private_counter: ServiceState and PrivateCounterProposalManager. *)

hash(v) == <<v>>
Plus(v, i) == (v + i) % U32

Put(map, p, i) == {e \in map : e.id # p} \cup {[id |-> p, increment |-> i]}
Removed(map, p) == {e \in map : e.id # p}
IncrementOf(map, p) == (CHOOSE e \in map : e.id = p).increment
Has(map, p) == \E e \in map : e.id = p

\* The first key of the hash map, in the map's own order; the entry stays in the map.
counter_create_proposal(n) ==
    /\ \/ /\ proposed_increments[n] = {}
          /\ CreateProposal(n, NoProposal)
          /\ Connections(n, {})
       \/ \E e \in proposed_increments[n] : CreateProposal(n, e.id) /\ Connections(n, {e})
    /\ UNCHANGED counterVars

\* Mutant of counter_check_proposal: the hash of the new value is not compared.
ChecksOnlyThatItIsKnown(n, p, r) ==
    /\ r = (IF Has(proposed_increments[n], p) THEN "valid" ELSE "invalid")
    /\ UNCHANGED counterVars

counter_check_proposal(n, p, r) ==
    LET map == proposed_increments[n]
        valid == Has(map, p) /\ hash(Plus(counter[n], IncrementOf(map, p))) = p
    IN /\ r = (IF valid THEN "valid" ELSE "invalid")
       /\ UNCHANGED counterVars

counter_accept_proposal(n, p) ==
    LET map == proposed_increments[n]
    IN /\ proposed_increments' = [proposed_increments EXCEPT ![n] = Removed(map, p)]
       /\ counter' = IF Has(map, p)
                     THEN [counter EXCEPT ![n] = Plus(@, IncrementOf(map, p))]
                     ELSE counter

counter_reject_proposal(n, p) ==
    /\ proposed_increments' = [proposed_increments EXCEPT ![n] = Removed(@, p)]
    /\ UNCHANGED counter

-----------------------------------------------------------------------------
(* Clients, the NetworkReceiver thread, and the engine. *)

Connected == \A n \in Nodes : link[n] = "connected"

\* POST /batches queues the first batch of the list.
batches(n, b) ==
    /\ pending_batches' = [pending_batches EXCEPT ![n] = Append(@, b)]
    /\ UNCHANGED <<pending_proposal, pending_changes, current_state_root, counterVars>>

\* GET /add/i proposes i over the value that the counter has now.
handle_connection(n, i) ==
    /\ proposed_increments' = [proposed_increments EXCEPT ![n] = Put(@, hash(Plus(counter[n], i)), i)]
    /\ UNCHANGED <<xoVars, counter>>

Input(n, x) ==
    /\ Connected /\ <<n, x>> \in inputs
    /\ inputs' = inputs \ {<<n, x>>}
    /\ IF workload.app = "xo" THEN batches(n, x) ELSE handle_connection(n, x)
    /\ UNCHANGED <<vars, workload, link, unhandled, proposed>>

\* PROPOSED_BATCH takes the place of whatever proposal was pending.
xo_handle_direct_msg(n, e) ==
    /\ pending_proposal' = [pending_proposal EXCEPT ![n] = e.id]
    /\ UNCHANGED <<pending_batches, pending_changes, current_state_root, counterVars>>

\* PROPOSED_INCREMENT takes the place of an increment with the same expected hash.
counter_handle_direct_msg(n, e) ==
    /\ proposed_increments' = [proposed_increments EXCEPT ![n] = Put(@, e.id, e.increment)]
    /\ UNCHANGED <<xoVars, counter>>

\* The receiver stores what the proposal carries, then tells the engine.
HandleDirectMsg(s, n) ==
    /\ link[n] = "connected" /\ unhandled[<<s, n>>] # <<>>
    /\ unhandled' = [unhandled EXCEPT ![<<s, n>>] = Tail(@)]
    /\ LET e == Head(unhandled[<<s, n>>])
       IN IF workload.app = "xo" THEN xo_handle_direct_msg(n, e) ELSE counter_handle_direct_msg(n, e)
    /\ UNCHANGED <<vars, workload, inputs, link, proposed>>

AtHand(n) ==
    LET at(ch) == {Head(ch[c]).id : c \in {d \in Channels : d[2] = n /\ ch[d] # <<>>}}
    IN (at(msgs) \cup at(updates) \cup {current[n]}
          \cup {proposal_backlog[n][i] : i \in DOMAIN proposal_backlog[n]}) \ {NoProposal}

XoCalls(n) ==
    \/ xo_create_proposal(n)
    \/ /\ \E p \in AtHand(n) :
            \/ \E r \in {"valid", "invalid", "error"} : CheckCall(n, p, r) /\ xo_check_proposal(n, p, r)
            \/ AcceptCall(n, p, TRUE) /\ xo_accept_proposal(n, p)
            \/ RejectCall(n, p, TRUE) /\ xo_reject_proposal(n, p)
            \/ CheckRejectCall(n, p, TRUE) /\ xo_check_then_reject(n, p)
       /\ Connections(n, {})

CounterCalls(n) ==
    \/ counter_create_proposal(n)
    \/ /\ \E p \in AtHand(n) :
            \/ \E r \in {"valid", "invalid"} : CheckCall(n, p, r) /\ counter_check_proposal(n, p, r)
            \/ AcceptCall(n, p, TRUE) /\ counter_accept_proposal(n, p)
            \/ RejectCall(n, p, TRUE) /\ counter_reject_proposal(n, p)
       /\ Connections(n, {})

EngineStep(n) ==
    /\ link[n] # "down"
    /\ \/ NoCall(n) /\ UNCHANGED <<xoVars, counterVars>> /\ Connections(n, {})
       \/ workload.app = "xo" /\ XoCalls(n) /\ UNCHANGED counterVars
       \/ workload.app = "counter" /\ CounterCalls(n) /\ UNCHANGED xoVars
    /\ UNCHANGED <<workload, inputs, link>>

TimeoutStep(n) == TimeoutElapses(n) /\ UNCHANGED <<xoVars, counterVars, serviceVars>>

PrivateNext ==
    \E n \in Nodes :
        \/ main(n) \/ handle_authorized_msg(n) \/ handle_circuit_msg(n) \/ Shutdown(n)
        \/ \E i \in inputs : i[1] = n /\ Input(n, i[2])
        \/ \E s \in Others(n) : HandleDirectMsg(s, n)
        \/ EngineStep(n) \/ TimeoutStep(n)

PrivateInit ==
    /\ Init
    /\ workload \in Workloads
    /\ inputs = workload.inputs
    /\ link = [n \in Nodes |-> "down"]
    /\ pending_batches = [n \in Nodes |-> <<>>]
    /\ pending_proposal = [n \in Nodes |-> NoProposal]
    /\ pending_changes = [n \in Nodes |-> NoBatch]
    /\ current_state_root = [n \in Nodes |-> <<>>]
    /\ proposed_increments = [n \in Nodes |-> {}]
    /\ counter = [n \in Nodes |-> 0]
    /\ unhandled = [c \in Channels |-> <<>>]
    /\ proposed = 0

PrivateSpec == PrivateInit /\ [][PrivateNext]_privateVars

-----------------------------------------------------------------------------
(* Properties. *)

\* The states of two private_xo services never fork: one may miss a commit, and is then
\* behind, but what both have committed they have committed in the same order.
XoNeverForks ==
    \A m, n \in Nodes :
        LET r == current_state_root[m]
            s == current_state_root[n]
        IN Len(r) <= Len(s) => r = SubSeq(s, 1, Len(r))

\* A service moves to no state but the one that the engines have agreed on, whose hash is the ID of
\* the proposal that is being accepted: whatever PROPOSED_BATCH overwrites pending_proposal and
\* whatever create_proposal executed before (private_xo), and whichever other increment was accepted
\* since this one was proposed (private_counter, for two increments: of three, two may have the same
\* expected hash on different values, and PROPOSED_INCREMENT puts one in the place of the other
\* between check_proposal and accept_proposal).
CommitsTheProposal ==
    [][\A n \in Nodes :
         /\ current_state_root'[n] # current_state_root[n] => current_state_root'[n] = current[n]
         /\ Cardinality(workload.inputs) =< 2 /\ counter'[n] # counter[n] => hash(counter'[n]) = current[n]]_privateVars

\* Every input was proposed and every proposal decided, and nothing is under way.
AtRest ==
    /\ inputs = {}
    /\ \A c \in Channels : msgs[c] = <<>> /\ unhandled[c] = <<>> /\ updates[c] = <<>>
    /\ \A n \in Nodes : state[n] # "EvaluatingProposal" /\ pending_batches[n] = <<>>
                        /\ proposed_increments[n] = {} /\ link[n] = "connected"
                        /\ proposal_backlog[n] = <<>> /\ verification_request_backlog[n] = <<>>

\* Once every proposal has been decided, all services have the same state.
NodesShareState ==
    AtRest => \A m, n \in Nodes : /\ current_state_root[m] = current_state_root[n]
                                  /\ counter[m] = counter[n]
=============================================================================
