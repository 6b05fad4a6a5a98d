------------------------------ MODULE TwoPhase ------------------------------
(***************************************************************************)
(* The two-phase commit consensus engine of libsplinter                    *)
(* (consensus/two_phase/mod.rs): one engine thread per node, running the   *)
(* loop of `run`, over the ProposalManager and ConsensusNetworkSender      *)
(* interfaces of consensus/mod.rs.                                         *)
(*                                                                         *)
(* The proposal manager is open here: what check_proposal, accept_proposal *)
(* and reject_proposal answer is a parameter of the action that calls them *)
(* (r or ok), so that a module that EXTENDS this one can conjoin a manager *)
(* to it.  Next lets them answer anything that Faults allows.              *)
(***************************************************************************)
EXTENDS Naturals, Sequences

CONSTANTS
    Nodes,        \* the engines' peer IDs; PeerId is ordered, so numbers
    Proposals,    \* proposal IDs
    Verifiers,    \* [Proposals -> SUBSET Nodes]: the required verifiers
    Proposers,    \* [Proposals -> SUBSET Nodes]: where its payload may be submitted
    NoProposal,   \* no proposal: ProposalCreated(None), a state without one
    Faults        \* what may fail: a subset of FaultKinds

FaultKinds == {"check", "accept", "reject", "create", "send", "stop"}

(***************************************************************************)
(* The verifiers of a proposal are the list in its consensus data, or      *)
(* every peer when that is empty.  An empty RequiredVerifiers encodes to   *)
(* no bytes, that is, to the second case, so the set is never empty and    *)
(* has a lowest ID.                                                        *)
(***************************************************************************)
ASSUME VerifiersAssumption ==
    /\ Nodes \subseteq Nat
    /\ Verifiers \in [Proposals -> SUBSET Nodes]
    /\ \A p \in Proposals : \E c \in Verifiers[p] : \A v \in Verifiers[p] : c =< v
    /\ Proposers \in [Proposals -> SUBSET Nodes]
    /\ NoProposal \notin Proposals
    /\ Faults \subseteq FaultKinds

VARIABLES
    pc,                           \* next step of each engine's loop
    state,                        \* State::{Idle, AwaitingProposal, EvaluatingProposal}
    current,                      \* the proposal being evaluated
    peers_verified,               \* its peers_verified
    coordinator_timeout,          \* the timer
    proposal_backlog,
    verification_request_backlog,
    msgs,                         \* consensus messages under way, per sender and receiver
    updates,                      \* proposal updates under way: <<n, n>> from n's own
                                  \* manager, <<s, n>> proposals that s has sent to n
    created,                      \* proposals some manager has built (history)
    validated,                    \* proposals each manager has found valid (history)
    accepted,                     \* proposals each manager has accepted (history)
    rejected                      \* proposals each manager has rejected (history)

evaluation == <<state, current, peers_verified>>
backlogs == <<proposal_backlog, verification_request_backlog>>
decisions == <<accepted, rejected>>
engineVars == <<evaluation, coordinator_timeout, backlogs>>
historyVars == <<created, validated, decisions>>
vars == <<pc, engineVars, msgs, updates, historyVars>>

Channels == Nodes \X Nodes

ConsensusMsg == [type : {"REQUEST", "VERIFIED", "FAILED", "APPLY", "REJECT"}, id : Proposals]

\* "Proposal" is ProposalCreated(Some(_)) and ProposalReceived, which the
\* engine treats alike; "None" is ProposalCreated(None).
ProposalUpdate == [type : {"Proposal", "Valid", "Invalid"}, id : Proposals]
                    \cup [type : {"None"}, id : {NoProposal}]

Msg(t, p) == [type |-> t, id |-> p]

\* The coordinator of a proposal is its verifier with the lowest ID.
Coordinator(p) == CHOOSE c \in Verifiers[p] : \A v \in Verifiers[p] : c =< v

\* What a manager call may answer.
CheckResults == {"valid", "invalid"} \cup (IF "check" \in Faults THEN {"error"} ELSE {})
CallResults(call) == IF call \in Faults THEN BOOLEAN ELSE {TRUE}

-----------------------------------------------------------------------------
(* Sequences: the two operators of SequencesExt that the engine needs, without the  *)
(* rest of that module, which would be in the context of every proof obligation.    *)

Contains(seq, x) == \E i \in 1..Len(seq) : seq[i] = x
RemoveAt(seq, i) == SubSeq(seq, 1, i - 1) \o SubSeq(seq, i + 1, Len(seq))

-----------------------------------------------------------------------------
(* Channels. *)

Push(ch, c, m) == [ch EXCEPT ![c] = Append(@, m)]
Pop(ch, c) == [ch EXCEPT ![c] = Tail(@)]
At(ch, c, m) == ch[c] # <<>> /\ Head(ch[c]) = m

\* Send m to every node of the set to.
SendAll(ch, n, to, m) ==
    [c \in Channels |-> IF c[1] = n /\ c[2] \in to THEN Append(ch[c], m) ELSE ch[c]]

\* network_sender.broadcast: the other verifiers of the proposal.
Broadcast(ch, n, t, p) == SendAll(ch, n, Verifiers[p] \ {n}, Msg(t, p))

\* n's backlog with p at the end, or without its i-th entry.
With(backlog, n, p) == [backlog EXCEPT ![n] = Append(@, p)]
Without(backlog, n, i) == [backlog EXCEPT ![n] = RemoveAt(@, i)]

-----------------------------------------------------------------------------
(* Parts of the handlers. *)

evaluating_proposal(n, p) == state[n] = "EvaluatingProposal" /\ current[n] = p

\* Mutant of EvaluatingOther: the comparison inverted.
EvaluatingOtherInverted(n, p) == evaluating_proposal(n, p)

EvaluatingOther(n, p) == state[n] = "EvaluatingProposal" /\ current[n] # p

Become(n, s, p) ==
    /\ state' = [state EXCEPT ![n] = s]
    /\ current' = [current EXCEPT ![n] = p]
    /\ peers_verified' = [peers_verified EXCEPT ![n] = {}]

\* check_proposal answered r # "error" and put its verdict in n's update queue, here ch.
Verdict(ch, n, p, r) ==
    Push(ch, <<n, n>>, Msg(IF r = "valid" THEN "Valid" ELSE "Invalid", p))
Validate(n, p, r) ==
    validated' = IF r = "valid" THEN [validated EXCEPT ![n] = @ \cup {p}] ELSE validated

Accept(n, p) == accepted' = [accepted EXCEPT ![n] = @ \cup {p}] /\ UNCHANGED rejected
Reject(n, p) == rejected' = [rejected EXCEPT ![n] = @ \cup {p}] /\ UNCHANGED accepted

\* Mutant of complete_coordination: the message is sent although the manager has failed.
CompleteSendsAnyway(n, p, result, ok, ch) ==
    /\ msgs' = Broadcast(ch, n, result, p)
    /\ IF ok
       THEN /\ Become(n, "Idle", NoProposal)
            /\ coordinator_timeout' = [coordinator_timeout EXCEPT ![n] = "inactive"]
            /\ IF result = "APPLY" THEN Accept(n, p) ELSE Reject(n, p)
       ELSE UNCHANGED <<evaluation, coordinator_timeout, decisions>>

\* Mutant of complete_coordination: the other verifiers are not told.
CompleteTellsNobody(n, p, result, ok, ch) ==
    /\ msgs' = ch
    /\ IF ok
       THEN /\ Become(n, "Idle", NoProposal)
            /\ coordinator_timeout' = [coordinator_timeout EXCEPT ![n] = "inactive"]
            /\ IF result = "APPLY" THEN Accept(n, p) ELSE Reject(n, p)
       ELSE UNCHANGED <<evaluation, coordinator_timeout, decisions>>

\* complete_coordination: the manager is told first; if it fails, nothing else
\* happens and the message is not sent.  ch is msgs without the message handled.
complete_coordination(n, p, result, ok, ch) ==
    IF ok
    THEN /\ Become(n, "Idle", NoProposal)
         /\ coordinator_timeout' = [coordinator_timeout EXCEPT ![n] = "inactive"]
         /\ msgs' = Broadcast(ch, n, result, p)
         /\ IF result = "APPLY" THEN Accept(n, p) ELSE Reject(n, p)
    ELSE /\ msgs' = ch
         /\ UNCHANGED <<evaluation, coordinator_timeout, decisions>>

\* Mutant of start_coordination: the timeout is not started.
StartWithoutTimer(n, p, r, ch) ==
    /\ Become(n, "EvaluatingProposal", p)
    /\ updates' = Verdict(ch, n, p, r)
    /\ Validate(n, p, r)
    /\ UNCHANGED coordinator_timeout

\* start_coordination, when check_proposal answers r # "error"; ch is updates
\* without the update handled.
start_coordination(n, p, r, ch) ==
    /\ Become(n, "EvaluatingProposal", p)
    /\ coordinator_timeout' = [coordinator_timeout EXCEPT ![n] = "active"]
    /\ updates' = Verdict(ch, n, p, r)
    /\ Validate(n, p, r)

-----------------------------------------------------------------------------
(* The loop of run: abort, backlog, next, message, update, and again.  A      *)
(* step that finds nothing to do is passed over: n is at a step when it comes *)
(* next, or when every step in between would leave the engine as it is.       *)

Goto(n, to) == pc' = [pc EXCEPT ![n] = to]

TimedOut(n) == state[n] = "EvaluatingProposal" /\ coordinator_timeout[n] = "expired"

\* i is the first backlogged request whose proposal is in the backlog, at j.
BackloggedRequest(n, i, j) ==
    /\ state[n] = "Idle"
    /\ verification_request_backlog[n][i] = proposal_backlog[n][j]
    /\ \A k \in 1..(i - 1) : ~Contains(proposal_backlog[n], verification_request_backlog[n][k])

AtAbort(n) == pc[n] = "abort"
AtBacklog(n) == pc[n] = "backlog" \/ (AtAbort(n) /\ ~TimedOut(n))
AtNext(n) == \/ pc[n] = "next"
             \/ /\ AtBacklog(n)
                /\ ~ \E i \in DOMAIN verification_request_backlog[n],
                       j \in DOMAIN proposal_backlog[n] : BackloggedRequest(n, i, j)
AtMessage(n) == pc[n] = "message" \/ (AtNext(n) /\ state[n] # "Idle")
AtUpdate(n) == pc[n] = "update"

-----------------------------------------------------------------------------
(* abort_proposal_if_timed_out *)

\* Timeout: the duration runs out some time after start().
TimeoutElapses(n) ==
    /\ coordinator_timeout[n] = "active"
    /\ coordinator_timeout' = [coordinator_timeout EXCEPT ![n] = "expired"]
    /\ UNCHANGED <<pc, evaluation, backlogs, msgs, updates, historyVars>>

AbortTimedOut(n, p, ok) ==
    /\ AtAbort(n) /\ Goto(n, "backlog")
    /\ TimedOut(n) /\ current[n] = p
    /\ complete_coordination(n, p, "REJECT", ok, msgs)
    /\ UNCHANGED <<backlogs, updates, created, validated>>

-----------------------------------------------------------------------------
(* handle_backlogged_verification_request *)

\* Both leave their backlogs before check_proposal is called.
HandleBackloggedRequest(n, p, r) ==
    /\ AtBacklog(n) /\ Goto(n, "next")
    /\ \E i \in DOMAIN verification_request_backlog[n], j \in DOMAIN proposal_backlog[n] :
         /\ BackloggedRequest(n, i, j)
         /\ p = proposal_backlog[n][j]
         /\ verification_request_backlog' = Without(verification_request_backlog, n, i)
         /\ proposal_backlog' = Without(proposal_backlog, n, j)
    /\ IF r = "error"
       THEN UNCHANGED <<evaluation, updates, validated>>
       ELSE /\ Become(n, "EvaluatingProposal", p)
            /\ updates' = Verdict(updates, n, p, r)
            /\ Validate(n, p, r)
    /\ UNCHANGED <<coordinator_timeout, msgs, created, decisions>>

-----------------------------------------------------------------------------
(* get_next_proposal *)

\* j is the first backlogged proposal that n coordinates.
NextToCoordinate(n, j) ==
    /\ Coordinator(proposal_backlog[n][j]) = n
    /\ \A k \in 1..(j - 1) : Coordinator(proposal_backlog[n][k]) # n

NothingToCoordinate(n) ==
    \A j \in DOMAIN proposal_backlog[n] : Coordinator(proposal_backlog[n][j]) # n

\* Mutant of TakeNextProposal: the proposal stays in the backlog.
TakeNextKeepsBacklog(n, p) ==
    /\ AtNext(n) /\ state[n] = "Idle" /\ Goto(n, "message")
    /\ \E j \in DOMAIN proposal_backlog[n] : NextToCoordinate(n, j) /\ p = proposal_backlog[n][j]
    /\ UNCHANGED <<backlogs, created>>

TakeNextProposal(n, p) ==
    /\ AtNext(n) /\ state[n] = "Idle" /\ Goto(n, "message")
    /\ \E j \in DOMAIN proposal_backlog[n] :
         /\ NextToCoordinate(n, j)
         /\ p = proposal_backlog[n][j]
         /\ proposal_backlog' = Without(proposal_backlog, n, j)
    /\ UNCHANGED <<verification_request_backlog, created>>

CoordinateNext(n, p, r) ==
    /\ TakeNextProposal(n, p)
    /\ start_coordination(n, p, r, updates)
    /\ UNCHANGED <<msgs, decisions>>

\* check_proposal fails, so start_coordination rejects the proposal.
CoordinateNextFails(n, p, ok) ==
    /\ TakeNextProposal(n, p)
    /\ complete_coordination(n, p, "REJECT", ok, msgs)
    /\ UNCHANGED <<updates, validated>>

\* create_proposal: nothing to propose (p = NoProposal), or a proposal that is
\* sent to the other verifiers and announced to the own engine.
CreateProposal(n, p) ==
    /\ AtNext(n) /\ state[n] = "Idle" /\ Goto(n, "message")
    /\ NothingToCoordinate(n)
    /\ Become(n, "AwaitingProposal", NoProposal)
    /\ updates' = IF p = NoProposal
                  THEN Push(updates, <<n, n>>, Msg("None", p))
                  ELSE Push(Broadcast(updates, n, "Proposal", p), <<n, n>>, Msg("Proposal", p))
    /\ created' = IF p = NoProposal THEN created ELSE created \cup {p}
    /\ UNCHANGED <<coordinator_timeout, backlogs, msgs, validated, decisions>>

\* create_proposal fails: before there is a proposal (p = NoProposal), or after it has
\* sent the proposal to some of the verifiers.
CreateProposalFails(n, p, to) ==
    /\ AtNext(n) /\ state[n] = "Idle" /\ Goto(n, "message")
    /\ NothingToCoordinate(n)
    /\ updates' = IF p = NoProposal THEN updates ELSE SendAll(updates, n, to, Msg("Proposal", p))
    /\ created' = IF p = NoProposal THEN created ELSE created \cup {p}
    /\ UNCHANGED <<engineVars, msgs, validated, decisions>>

-----------------------------------------------------------------------------
(* handle_consensus_msg *)

Receive(n, s, t, p) == At(msgs, <<s, n>>, Msg(t, p)) /\ AtMessage(n) /\ Goto(n, "update")

MessageTimeout(n) ==
    /\ AtMessage(n) /\ Goto(n, "update")
    /\ UNCHANGED <<engineVars, msgs, updates, historyVars>>

RequestBacklogged(n, s, p) ==
    /\ Receive(n, s, "REQUEST", p)
    /\ EvaluatingOther(n, p) \/ ~Contains(proposal_backlog[n], p)
    /\ verification_request_backlog' = With(verification_request_backlog, n, p)
    /\ msgs' = Pop(msgs, <<s, n>>)
    /\ UNCHANGED <<evaluation, coordinator_timeout, proposal_backlog, updates, historyVars>>

\* The request is lost when check_proposal fails; the proposal stays.
RequestEvaluated(n, s, p, r) ==
    /\ Receive(n, s, "REQUEST", p)
    /\ ~EvaluatingOther(n, p)
    /\ Contains(proposal_backlog[n], p)
    /\ msgs' = Pop(msgs, <<s, n>>)
    /\ IF r = "error"
       THEN UNCHANGED <<evaluation, proposal_backlog, updates, validated>>
       ELSE /\ Become(n, "EvaluatingProposal", p)
            /\ \E j \in DOMAIN proposal_backlog[n] :
                 /\ proposal_backlog[n][j] = p
                 /\ \A k \in 1..(j - 1) : proposal_backlog[n][k] # p
                 /\ proposal_backlog' = Without(proposal_backlog, n, j)
            /\ updates' = Verdict(updates, n, p, r)
            /\ Validate(n, p, r)
    /\ UNCHANGED <<coordinator_timeout, verification_request_backlog, created, decisions>>

\* A vote or an APPLY about a proposal that n does not evaluate.
MessageIgnored(n, s, p) ==
    /\ \E t \in {"VERIFIED", "FAILED", "APPLY"} : Receive(n, s, t, p)
    /\ ~evaluating_proposal(n, p)
    /\ msgs' = Pop(msgs, <<s, n>>)
    /\ UNCHANGED <<engineVars, updates, historyVars>>

AllVerified(n, s, p) == peers_verified[n] \cup {s} = Verifiers[p]

VerifiedCounted(n, s, p) ==
    /\ Receive(n, s, "VERIFIED", p)
    /\ evaluating_proposal(n, p)
    /\ ~AllVerified(n, s, p)
    /\ peers_verified' = [peers_verified EXCEPT ![n] = @ \cup {s}]
    /\ msgs' = Pop(msgs, <<s, n>>)
    /\ UNCHANGED <<state, current, coordinator_timeout, backlogs, updates, historyVars>>

VerifiedByAll(n, s, p, ok) ==
    /\ Receive(n, s, "VERIFIED", p)
    /\ evaluating_proposal(n, p)
    /\ AllVerified(n, s, p)
    /\ IF ok
       THEN complete_coordination(n, p, "APPLY", TRUE, Pop(msgs, <<s, n>>))
       ELSE /\ peers_verified' = [peers_verified EXCEPT ![n] = @ \cup {s}]
            /\ msgs' = Pop(msgs, <<s, n>>)
            /\ UNCHANGED <<state, current, coordinator_timeout, decisions>>
    /\ UNCHANGED <<backlogs, updates, created, validated>>

FailedByPeer(n, s, p, ok) ==
    /\ Receive(n, s, "FAILED", p)
    /\ evaluating_proposal(n, p)
    /\ complete_coordination(n, p, "REJECT", ok, Pop(msgs, <<s, n>>))
    /\ UNCHANGED <<backlogs, updates, created, validated>>

ApplyResult(n, s, p, ok) ==
    /\ Receive(n, s, "APPLY", p)
    /\ evaluating_proposal(n, p)
    /\ msgs' = Pop(msgs, <<s, n>>)
    /\ IF ok THEN Become(n, "Idle", NoProposal) /\ Accept(n, p)
             ELSE UNCHANGED <<evaluation, decisions>>
    /\ UNCHANGED <<coordinator_timeout, backlogs, updates, created, validated>>

\* The manager is told whether or not the proposal is the current one.
RejectResult(n, s, p, ok) ==
    /\ Receive(n, s, "REJECT", p)
    /\ msgs' = Pop(msgs, <<s, n>>)
    /\ IF ok THEN Reject(n, p) ELSE UNCHANGED decisions
    /\ IF ok /\ evaluating_proposal(n, p)
       THEN Become(n, "Idle", NoProposal)
       ELSE UNCHANGED evaluation
    /\ UNCHANGED <<coordinator_timeout, backlogs, updates, created, validated>>

-----------------------------------------------------------------------------
(* handle_proposal_update *)

Update(n, s, t, p) == AtUpdate(n) /\ At(updates, <<s, n>>, Msg(t, p)) /\ Goto(n, "abort")

\* The manager answers before its calls return, so its queue holds the answer.
UpdateTimeout(n) ==
    /\ AtUpdate(n) /\ Goto(n, "abort")
    /\ updates[<<n, n>>] = <<>>
    /\ UNCHANGED <<engineVars, msgs, updates, historyVars>>

NoneCreated(n) ==
    /\ Update(n, n, "None", NoProposal)
    /\ updates' = Pop(updates, <<n, n>>)
    /\ state' = [state EXCEPT ![n] = IF @ = "AwaitingProposal" THEN "Idle" ELSE @]
    /\ UNCHANGED <<current, peers_verified, coordinator_timeout, backlogs, msgs, historyVars>>

\* handle_proposal
Known(n, p) == Contains(proposal_backlog[n], p) \/ evaluating_proposal(n, p)

ProposalBacklogged(n, s, p) ==
    /\ Update(n, s, "Proposal", p)
    /\ ~Known(n, p)
    /\ state[n] = "EvaluatingProposal" \/ Coordinator(p) # n
    /\ proposal_backlog' = With(proposal_backlog, n, p)
    /\ updates' = Pop(updates, <<s, n>>)
    /\ UNCHANGED <<evaluation, coordinator_timeout, verification_request_backlog, msgs, historyVars>>

ProposalToCoordinate(n, s, p) ==
    /\ Update(n, s, "Proposal", p)
    /\ ~Known(n, p)
    /\ state[n] # "EvaluatingProposal" /\ Coordinator(p) = n
    /\ UNCHANGED <<backlogs, created>>

CoordinateProposal(n, s, p, r) ==
    /\ ProposalToCoordinate(n, s, p)
    /\ start_coordination(n, p, r, Pop(updates, <<s, n>>))
    /\ UNCHANGED <<msgs, decisions>>

CoordinateProposalFails(n, s, p, ok) ==
    /\ ProposalToCoordinate(n, s, p)
    /\ complete_coordination(n, p, "REJECT", ok, msgs)
    /\ updates' = Pop(updates, <<s, n>>)
    /\ UNCHANGED validated

ProposalValid(n, p) ==
    /\ Update(n, n, "Valid", p)
    /\ evaluating_proposal(n, p)
    /\ updates' = Pop(updates, <<n, n>>)
    /\ IF n = Coordinator(p)
       THEN /\ peers_verified' = [peers_verified EXCEPT ![n] = @ \cup {n}]
            /\ msgs' = Broadcast(msgs, n, "REQUEST", p)
       ELSE /\ msgs' = Push(msgs, <<n, Coordinator(p)>>, Msg("VERIFIED", p))
            /\ UNCHANGED peers_verified
    /\ UNCHANGED <<state, current, coordinator_timeout, backlogs, historyVars>>

InvalidAtCoordinator(n, p, ok) ==
    /\ Update(n, n, "Invalid", p)
    /\ evaluating_proposal(n, p) /\ n = Coordinator(p)
    /\ updates' = Pop(updates, <<n, n>>)
    /\ complete_coordination(n, p, "REJECT", ok, msgs)
    /\ UNCHANGED <<backlogs, created, validated>>

\* Mutant of InvalidAtVerifier: it answers as if the proposal were valid.
InvalidIsVerified(n, p) ==
    /\ Update(n, n, "Invalid", p)
    /\ evaluating_proposal(n, p) /\ n # Coordinator(p)
    /\ updates' = Pop(updates, <<n, n>>)
    /\ msgs' = Push(msgs, <<n, Coordinator(p)>>, Msg("VERIFIED", p))
    /\ UNCHANGED <<engineVars, historyVars>>

InvalidAtVerifier(n, p) ==
    /\ Update(n, n, "Invalid", p)
    /\ evaluating_proposal(n, p) /\ n # Coordinator(p)
    /\ updates' = Pop(updates, <<n, n>>)
    /\ msgs' = Push(msgs, <<n, Coordinator(p)>>, Msg("FAILED", p))
    /\ UNCHANGED <<engineVars, historyVars>>

\* A proposal that n knows, or a verdict on one that it does not evaluate.
UpdateIgnored(n, s, p) ==
    /\ \/ Update(n, s, "Proposal", p) /\ Known(n, p)
       \/ \E t \in {"Valid", "Invalid"} : Update(n, s, t, p) /\ ~evaluating_proposal(n, p)
    /\ updates' = Pop(updates, <<s, n>>)
    /\ UNCHANGED <<engineVars, msgs, historyVars>>

-----------------------------------------------------------------------------
(* The environment: lost messages, engines that stop and start again. *)

\* A send that fails, or a message for a peer that is not connected.
LoseMessage(c) ==
    /\ msgs[c] # <<>>
    /\ msgs' = Pop(msgs, c)
    /\ UNCHANGED <<pc, engineVars, updates, historyVars>>

LoseProposal(c) ==
    /\ c[1] # c[2] /\ updates[c] # <<>>
    /\ updates' = Pop(updates, c)
    /\ UNCHANGED <<pc, engineVars, msgs, historyVars>>

\* The thread ends (Shutdown, or the process dies) and its memory with it.
Stop(n) ==
    /\ pc[n] # "stopped" /\ Goto(n, "stopped")
    /\ Become(n, "Idle", NoProposal)
    /\ coordinator_timeout' = [coordinator_timeout EXCEPT ![n] = "inactive"]
    /\ proposal_backlog' = [proposal_backlog EXCEPT ![n] = <<>>]
    /\ verification_request_backlog' = [verification_request_backlog EXCEPT ![n] = <<>>]
    /\ updates' = [updates EXCEPT ![<<n, n>>] = <<>>]
    /\ UNCHANGED <<msgs, historyVars>>

Start(n) ==
    /\ pc[n] = "stopped" /\ Goto(n, "abort")
    /\ UNCHANGED <<engineVars, msgs, updates, historyVars>>

-----------------------------------------------------------------------------
(* The engine's steps, by the manager call they make. *)

NoCall(n) ==
    \/ MessageTimeout(n) \/ UpdateTimeout(n) \/ NoneCreated(n)
    \/ \E p \in Proposals :
         \/ ProposalValid(n, p) \/ InvalidAtVerifier(n, p)
         \/ \E s \in Nodes :
              \/ RequestBacklogged(n, s, p) \/ VerifiedCounted(n, s, p) \/ MessageIgnored(n, s, p)
              \/ ProposalBacklogged(n, s, p) \/ UpdateIgnored(n, s, p)

\* check_proposal(p) answers r.
CheckCall(n, p, r) ==
    \/ HandleBackloggedRequest(n, p, r)
    \/ \E s \in Nodes : RequestEvaluated(n, s, p, r)
    \/ r # "error" /\ CoordinateNext(n, p, r)
    \/ r # "error" /\ \E s \in Nodes : CoordinateProposal(n, s, p, r)

AcceptCall(n, p, ok) == \E s \in Nodes : VerifiedByAll(n, s, p, ok) \/ ApplyResult(n, s, p, ok)

RejectCall(n, p, ok) ==
    \/ AbortTimedOut(n, p, ok) \/ InvalidAtCoordinator(n, p, ok)
    \/ \E s \in Nodes : FailedByPeer(n, s, p, ok) \/ RejectResult(n, s, p, ok)

\* check_proposal(p) fails, and reject_proposal(p) answers ok.
CheckRejectCall(n, p, ok) ==
    CoordinateNextFails(n, p, ok) \/ \E s \in Nodes : CoordinateProposalFails(n, s, p, ok)

Calls(n) ==
    \/ \E p \in Proposals :
         \/ \E r \in CheckResults : CheckCall(n, p, r)
         \/ \E ok \in CallResults("accept") : AcceptCall(n, p, ok)
         \/ \E ok \in CallResults("reject") : RejectCall(n, p, ok)
         \/ "check" \in Faults /\ \E ok \in CallResults("reject") : CheckRejectCall(n, p, ok)
    \/ CreateProposal(n, NoProposal)
    \/ "create" \in Faults /\ CreateProposalFails(n, NoProposal, {})
    \/ \E p \in {q \in Proposals \ created : n \in Proposers[q]} :
         \/ CreateProposal(n, p)
         \/ "create" \in Faults /\ \E to \in SUBSET (Verifiers[p] \ {n}) :
              CreateProposalFails(n, p, to)

Environment ==
    \/ \E c \in Channels : "send" \in Faults /\ (LoseMessage(c) \/ LoseProposal(c))
    \/ \E n \in Nodes : TimeoutElapses(n)
    \/ \E n \in Nodes : "stop" \in Faults /\ (Stop(n) \/ Start(n))

Next == (\E n \in Nodes : NoCall(n) \/ Calls(n)) \/ Environment

Init ==
    /\ pc = [n \in Nodes |-> "abort"]
    /\ state = [n \in Nodes |-> "Idle"]
    /\ current = [n \in Nodes |-> NoProposal]
    /\ peers_verified = [n \in Nodes |-> {}]
    /\ coordinator_timeout = [n \in Nodes |-> "inactive"]
    /\ proposal_backlog = [n \in Nodes |-> <<>>]
    /\ verification_request_backlog = [n \in Nodes |-> <<>>]
    /\ msgs = [c \in Channels |-> <<>>]
    /\ updates = [c \in Channels |-> <<>>]
    /\ created = {}
    /\ validated = [n \in Nodes |-> {}]
    /\ accepted = [n \in Nodes |-> {}]
    /\ rejected = [n \in Nodes |-> {}]

Spec == Init /\ [][Next]_vars

-----------------------------------------------------------------------------
(* Properties. *)

\* The engines' states, queues and histories are of their types; a proposal is current
\* exactly in State::EvaluatingProposal, whatever order the updates arrive in.
TypeOK ==
    /\ pc \in [Nodes -> {"abort", "backlog", "next", "message", "update", "stopped"}]
    /\ state \in [Nodes -> {"Idle", "AwaitingProposal", "EvaluatingProposal"}]
    /\ current \in [Nodes -> Proposals \cup {NoProposal}]
    /\ \A n \in Nodes : state[n] = "EvaluatingProposal" <=> current[n] # NoProposal
    /\ peers_verified \in [Nodes -> SUBSET Nodes]
    /\ coordinator_timeout \in [Nodes -> {"inactive", "active", "expired"}]
    /\ proposal_backlog \in [Nodes -> Seq(Proposals)]
    /\ verification_request_backlog \in [Nodes -> Seq(Proposals)]
    /\ msgs \in [Channels -> Seq(ConsensusMsg)]
    /\ updates \in [Channels -> Seq(ProposalUpdate)]
    /\ created \subseteq Proposals
    /\ validated \in [Nodes -> SUBSET Proposals]
    /\ accepted \in [Nodes -> SUBSET Proposals]
    /\ rejected \in [Nodes -> SUBSET Proposals]

\* No proposal is accepted by one node's manager and rejected by another's (or
\* by the same one), however results, late votes and timeouts interleave.
Agreement == \A m, n \in Nodes : accepted[m] \cap rejected[n] = {}

\* A proposal that complete_coordination or a RESULT message applies anywhere was
\* found valid by the manager of every required verifier: votes are counted for
\* the proposal they were cast for, and no node answers for another.
AcceptedOnlyIfAllValid ==
    \A n \in Nodes : \A p \in accepted[n] : \A v \in Verifiers[p] : p \in validated[v]

\* complete_coordination tells the manager first: when another verifier applies or
\* rejects a proposal, the coordinator's manager already has.
CoordinatorDecidesFirst ==
    \A n \in Nodes : /\ \A p \in accepted[n] : p \in accepted[Coordinator(p)]
                     /\ \A p \in rejected[n] : p \in rejected[Coordinator(p)]

\* The engines implement the abstract commitment: every step is one of its steps or
\* leaves the managers' decisions alone.
AC == INSTANCE AtomicCommit
        WITH validated <- validated, accepted <- accepted, rejected <- rejected
ImplementsAtomicCommit == AC!Spec

\* The coordinator timeout runs only while its owner evaluates a proposal that it
\* coordinates itself, so that abort_proposal_if_timed_out, which asks for neither,
\* never aborts somebody else's proposal.
TimeoutOnlyWhenCoordinating ==
    \A n \in Nodes : coordinator_timeout[n] # "inactive" =>
        state[n] = "EvaluatingProposal" /\ n = Coordinator(current[n])

\* An engine drops the proposal that it evaluates only when its manager has
\* accepted or rejected that very proposal (or the engine stops): requests,
\* proposals and results about others leave the current evaluation alone.
EvaluationEndsInDecision ==
    [][\A n \in Nodes : current[n] # NoProposal /\ current'[n] # current[n] =>
          current[n] \in accepted'[n] \cup rejected'[n] \/ pc'[n] = "stopped"]_vars

-----------------------------------------------------------------------------
(* The inductive invariant behind the safety properties. *)

Decided(n, p) == p \in accepted[n] \/ p \in rejected[n]

\* A message or an update about p is under way from s to n.
In(ch, s, n, t, p) == Contains(ch[<<s, n>>], Msg(t, p))

Once(seq, x) == \A i, j \in 1..Len(seq) : seq[i] = x /\ seq[j] = x => i = j

\* The coordinator meets a proposal once: it waits in one queue, then perhaps in the
\* backlog, is then evaluated, and only then decided.
MetOnce(p) ==
    LET c == Coordinator(p)
    IN /\ \A s \in Nodes : In(updates, s, c, "Proposal", p) =>
            /\ p \in created /\ ~Known(c, p) /\ ~Decided(c, p)
            /\ Once(updates[<<s, c>>], Msg("Proposal", p))
            /\ \A t \in Nodes : In(updates, t, c, "Proposal", p) => t = s
       /\ Contains(proposal_backlog[c], p) =>
            /\ p \in created /\ ~evaluating_proposal(c, p) /\ ~Decided(c, p)
            /\ Once(proposal_backlog[c], p)
       /\ evaluating_proposal(c, p) => p \in created /\ ~Decided(c, p)
       /\ Decided(c, p) => p \in created

\* What a message under way says is so: votes are true and go to the coordinator,
\* results are the coordinator's and go to the others.
MessagesTrue(p) ==
    \A s, n \in Nodes :
        /\ In(msgs, s, n, "VERIFIED", p) => n = Coordinator(p) /\ p \in validated[s]
        /\ In(msgs, s, n, "FAILED", p) => n = Coordinator(p)
        /\ In(msgs, s, n, "APPLY", p) => n # Coordinator(p) /\ p \in accepted[Coordinator(p)]
        /\ In(msgs, s, n, "REJECT", p) => n # Coordinator(p) /\ p \in rejected[Coordinator(p)]

\* Votes counted, and verdicts waiting in the own queue, are true.
VotesTrue(p) ==
    \A n \in Nodes :
        /\ evaluating_proposal(n, p) => \A v \in peers_verified[n] : p \in validated[v]
        /\ In(updates, n, n, "Valid", p) => p \in validated[n]

\* Decisions follow the coordinator's.
DecisionsFollow(p) ==
    /\ \A n \in Nodes : /\ p \in accepted[n] => p \in accepted[Coordinator(p)]
                        /\ p \in rejected[n] => p \in rejected[Coordinator(p)]
    /\ ~(p \in accepted[Coordinator(p)] /\ p \in rejected[Coordinator(p)])
    /\ p \in accepted[Coordinator(p)] => \A v \in Verifiers[p] : p \in validated[v]

\* The strengthening of Agreement, AcceptedOnlyIfAllValid, CoordinatorDecidesFirst and
\* TimeoutOnlyWhenCoordinating that every step of the engines preserves.
IInv ==
    /\ TypeOK
    /\ TimeoutOnlyWhenCoordinating
    /\ \A p \in Proposals : MetOnce(p) /\ MessagesTrue(p) /\ VotesTrue(p) /\ DecisionsFollow(p)

-----------------------------------------------------------------------------
\* A coordinator's evaluation ends: by the votes, or else by the timeout, also when
\* requests and votes never arrive.  (Fairness is stated where managers are modelled.)
CoordinationEnds ==
    \A n \in Nodes, p \in Proposals :
        (evaluating_proposal(n, p) /\ n = Coordinator(p)) ~> ~evaluating_proposal(n, p)
=============================================================================
