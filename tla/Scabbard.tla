------------------------------ MODULE Scabbard ------------------------------
(***************************************************************************)
(* The scabbard service (service/scabbard): its proposal manager, shared   *)
(* data and state, under the two-phase engines of TwoPhase.  Every manager *)
(* call holds the lock on ScabbardShared, so it is one step, taken         *)
(* together with the engine's step that makes it.                          *)
(*                                                                         *)
(* A state root stands for the state it is the hash of: the sequence of    *)
(* the batches that have been applied.  The ID of a proposal is the state  *)
(* root that its batch should lead to, so an ID comes back when a batch is *)
(* submitted again; Proposals is the set of those that valid batches lead  *)
(* to.                                                                     *)
(***************************************************************************)
EXTENDS TwoPhase

CONSTANTS
    Batches,         \* batches, by their header signature
    Clients,         \* [Batches -> SUBSET Nodes]: the services a batch is submitted to
    NoBatch,         \* no pending change
    MaxSubmissions,  \* bound: the batches that clients submit
    MaxCrashes,      \* bound: the processes that end
    HistoryLimit,    \* BatchHistory's limit
    StateFaults      \* what may fail: a subset of {"merkle", "head", "receipts"}

(***************************************************************************)
(* The consensus data of scabbard's proposals is empty, so every service   *)
(* of the circuit verifies each of them.                                   *)
(***************************************************************************)
ASSUME BatchesAssumption ==
    /\ Proposals \subseteq Seq(Batches) \ {<<>>}
    /\ Verifiers = [p \in Proposals |-> Nodes]
    /\ \E c \in Nodes : \A n \in Nodes : c =< n
    /\ NoBatch \notin Batches

VARIABLES
    batch_queue,         \* batches submitted and not yet proposed
    proposed_batches,    \* the proposals whose batch the service knows
    pending_changes,     \* the batch last prepared, or NoBatch
    current_state_root,
    HEAD,                \* the state root in the database
    batch_history,       \* batches and their status, oldest first
    queued,              \* queued[<<s, n>>]: how many proposals of s n's service has handled
                         \* and its engine has not
    submissions,
    crashes

sharedVars == <<batch_queue, proposed_batches, batch_history>>
stateVars == <<pending_changes, current_state_root, HEAD>>
bounds == <<submissions, crashes>>
scabbardVars == <<sharedVars, stateVars, queued, bounds>>
allVars == <<vars, scabbardVars>>

Batch(p) == p[Len(p)]
ExpectedHash(n, b) == Append(current_state_root[n], b)
Executes(n, b) == ExpectedHash(n, b) \in Proposals

-----------------------------------------------------------------------------
(* BatchHistory. *)

Entry(b, status) == [id |-> b, status |-> status]

\* The history without b, which has one entry at most.
Others(h, b) ==
    IF \E i \in DOMAIN h : h[i].id = b THEN RemoveAt(h, CHOOSE i \in DOMAIN h : h[i].id = b) ELSE h

\* add_batch: a batch submitted again takes a new place; one over the limit, the oldest goes.
add_batch(h, b) ==
    LET added == Append(Others(h, b), Entry(b, "Pending"))
    IN IF Len(added) > HistoryLimit THEN Tail(added) ELSE added

\* Status changes: Pending to Valid or Invalid, Valid to Committed; others are ignored.
Change(h, b, from, to) ==
    [i \in DOMAIN h |-> IF h[i] = Entry(b, from) THEN Entry(b, to) ELSE h[i]]

get_batch_info(h, b) ==
    IF \E i \in DOMAIN h : h[i].id = b
    THEN h[CHOOSE i \in DOMAIN h : h[i].id = b].status ELSE "Unknown"

\* The status that the results of the batch's transactions make.
BatchStatus(n, b) == IF Executes(n, b) THEN "Valid" ELSE "Invalid"

-----------------------------------------------------------------------------
(* ScabbardState. *)

\* prepare_change, when every transaction of the batch is valid, and when one is not.
Prepared(n, b) ==
    /\ Executes(n, b)
    /\ pending_changes' = [pending_changes EXCEPT ![n] = b]
    /\ batch_history' = [batch_history EXCEPT ![n] = Change(@, b, "Pending", BatchStatus(n, b))]
    /\ UNCHANGED <<current_state_root, HEAD>>
NotPrepared(n, b) ==
    /\ ~Executes(n, b)
    /\ batch_history' = [batch_history EXCEPT ![n] = Change(@, b, "Pending", BatchStatus(n, b))]
    /\ UNCHANGED stateVars

\* Mutant of commit: the batch is marked before the tree is extended.
CommitMarksFirst(n, ok) ==
    LET b == pending_changes[n]
        root == ExpectedHash(n, b)
    IN /\ pending_changes' = [pending_changes EXCEPT ![n] = NoBatch]
       /\ b # NoBatch
       /\ batch_history' = [batch_history EXCEPT ![n] = Change(@, b, "Valid", "Committed")]
       /\ IF ok
          THEN /\ current_state_root' = [current_state_root EXCEPT ![n] = root]
               /\ HEAD' = [HEAD EXCEPT ![n] = root]
          ELSE "merkle" \in StateFaults /\ UNCHANGED <<current_state_root, HEAD>>

\* commit takes the pending changes, whichever proposal they are for.  It fails if there
\* are none, and may fail to extend the tree, to write HEAD, or to store the receipts.
commit(n, ok) ==
    LET b == pending_changes[n]
        root == ExpectedHash(n, b)
    IN /\ pending_changes' = [pending_changes EXCEPT ![n] = NoBatch]
       /\ \/ b # NoBatch /\ ok
             /\ current_state_root' = [current_state_root EXCEPT ![n] = root]
             /\ HEAD' = [HEAD EXCEPT ![n] = root]
             /\ batch_history' = [batch_history EXCEPT ![n] = Change(@, b, "Valid", "Committed")]
          \/ ~ok /\ (b = NoBatch \/ "merkle" \in StateFaults)
             /\ UNCHANGED <<current_state_root, HEAD, batch_history>>
          \/ b # NoBatch /\ ~ok
             /\ current_state_root' = [current_state_root EXCEPT ![n] = root]
             /\ \/ "head" \in StateFaults /\ UNCHANGED HEAD
                \/ "receipts" \in StateFaults /\ HEAD' = [HEAD EXCEPT ![n] = root]
             /\ UNCHANGED batch_history

rollback(n) ==
    /\ pending_changes' = [pending_changes EXCEPT ![n] = NoBatch]
    /\ UNCHANGED <<current_state_root, HEAD, batch_history>>

-----------------------------------------------------------------------------
(* ScabbardProposalManager. *)

AddProposed(ns, p) ==
    proposed_batches' = [n \in Nodes |-> proposed_batches[n] \cup (IF n \in ns THEN {p} ELSE {})]
RemoveProposed(n, p) == proposed_batches' = [proposed_batches EXCEPT ![n] = @ \ {p}]

\* create_proposal takes a batch off the queue; when the batch is invalid, that is the
\* end of it.
create_proposal(n) ==
    \/ /\ batch_queue[n] = <<>>
       /\ CreateProposal(n, NoProposal)
       /\ UNCHANGED <<sharedVars, stateVars>>
    \/ /\ batch_queue[n] # <<>>
       /\ batch_queue' = [batch_queue EXCEPT ![n] = Tail(@)]
       /\ LET b == Head(batch_queue[n])
              p == ExpectedHash(n, b)
          IN \/ /\ Prepared(n, b)
                /\ AddProposed({n}, p)
                /\ \/ CreateProposal(n, p)
                   \/ "create" \in Faults /\ \E to \in SUBSET (Nodes \ {n}) : CreateProposalFails(n, p, to)
             \/ /\ NotPrepared(n, b)
                /\ CreateProposalFails(n, NoProposal, {})
                /\ UNCHANGED proposed_batches

\* Mutant of check_proposal: the hash that the batch leads to is not compared with the ID.
CheckWithoutHash(n, p, r) ==
    /\ IF p \in proposed_batches[n]
       THEN \/ Prepared(n, Batch(p)) /\ r = "valid"
            \/ NotPrepared(n, Batch(p)) /\ r = "error"
       ELSE r = "error" /\ UNCHANGED <<stateVars, batch_history>>
    /\ UNCHANGED <<proposed_batches, batch_queue>>

\* check_proposal answers "error" for a proposal it does not know, or that does not execute.
check_proposal(n, p, r) ==
    /\ IF p \in proposed_batches[n]
       THEN \/ Prepared(n, Batch(p)) /\ r = (IF ExpectedHash(n, Batch(p)) = p THEN "valid" ELSE "invalid")
            \/ NotPrepared(n, Batch(p)) /\ r = "error"
       ELSE r = "error" /\ UNCHANGED <<stateVars, batch_history>>
    /\ UNCHANGED <<proposed_batches, batch_queue>>

accept_proposal(n, p, ok) ==
    /\ IF p \in proposed_batches[n]
       THEN commit(n, ok)
       ELSE ~ok /\ UNCHANGED <<stateVars, batch_history>>
    /\ RemoveProposed(n, p)
    /\ UNCHANGED batch_queue

\* reject_proposal drops the pending changes, whichever proposal they are for.
reject_proposal(n, p, ok) ==
    /\ ok = (p \in proposed_batches[n])
    /\ IF ok THEN rollback(n) ELSE UNCHANGED <<stateVars, batch_history>>
    /\ RemoveProposed(n, p)
    /\ UNCHANGED batch_queue

\* start_coordination: check_proposal fails, then reject_proposal.
check_then_reject(n, p, ok) ==
    /\ ok = (p \in proposed_batches[n])
    /\ IF ok
       THEN /\ ~Executes(n, Batch(p))
            /\ pending_changes' = [pending_changes EXCEPT ![n] = NoBatch]
            /\ batch_history' = [batch_history EXCEPT ![n] = Change(@, Batch(p), "Pending", "Invalid")]
            /\ UNCHANGED <<current_state_root, HEAD>>
       ELSE UNCHANGED <<stateVars, batch_history>>
    /\ RemoveProposed(n, p)
    /\ UNCHANGED batch_queue

-----------------------------------------------------------------------------
(* The service. *)

\* For a batch that verify_batches finds well formed.
add_batches(n, b) ==
    /\ batch_queue' = [batch_queue EXCEPT ![n] = Append(@, b)]
    /\ batch_history' = [batch_history EXCEPT ![n] = add_batch(@, b)]

\* The endpoint "/batches"; a request that is refused changes nothing.
SubmitBatch(n, b) ==
    /\ n \in Clients[b] /\ pc[n] # "stopped" /\ submissions < MaxSubmissions
    /\ submissions' = submissions + 1
    /\ add_batches(n, b)
    /\ UNCHANGED <<vars, stateVars, proposed_batches, queued, crashes>>

\* handle_message, PROPOSED_BATCH: the batch is stored and the engine's queue told.
HandleProposedBatch(s, n) ==
    /\ s # n /\ pc[n] # "stopped" /\ queued[<<s, n>>] < Len(updates[<<s, n>>])
    /\ AddProposed({n}, updates[<<s, n>>][queued[<<s, n>>] + 1].id)
    /\ queued' = [queued EXCEPT ![<<s, n>>] = @ + 1]
    /\ UNCHANGED <<vars, batch_queue, batch_history, stateVars, bounds>>

\* The engine's queue holds only what handle_message has put there.
TakesFromQueue(n) ==
    LET taken == {c \in Channels : c[1] # n /\ c[2] = n /\ Len(updates'[c]) < Len(updates[c])}
    IN /\ \A c \in taken : queued[c] > 0
       /\ queued' = [c \in Channels |-> IF c \in taken THEN queued[c] - 1 ELSE queued[c]]

\* The proposals that the engine's next manager call can be about.
AtHand(n) ==
    LET at(ch) == {Head(ch[c]).id : c \in {d \in Channels : d[2] = n /\ ch[d] # <<>>}}
    IN (at(msgs) \cup at(updates) \cup {current[n]}
          \cup {proposal_backlog[n][i] : i \in DOMAIN proposal_backlog[n]}) \ {NoProposal}

EngineStep(n) ==
    /\ \/ NoCall(n) /\ UNCHANGED <<sharedVars, stateVars>>
       \/ create_proposal(n)
       \/ \E p \in AtHand(n) :
            \/ \E r \in {"valid", "invalid", "error"} : CheckCall(n, p, r) /\ check_proposal(n, p, r)
            \/ \E ok \in BOOLEAN :
                 \/ AcceptCall(n, p, ok) /\ accept_proposal(n, p, ok)
                 \/ RejectCall(n, p, ok) /\ reject_proposal(n, p, ok)
                 \/ CheckRejectCall(n, p, ok) /\ check_then_reject(n, p, ok)
    /\ TakesFromQueue(n)
    /\ UNCHANGED bounds

\* The process ends and starts again: what is in the database is left.
Crash(n) ==
    /\ crashes < MaxCrashes /\ crashes' = crashes + 1
    /\ Stop(n)
    /\ batch_queue' = [batch_queue EXCEPT ![n] = <<>>]
    /\ proposed_batches' = [proposed_batches EXCEPT ![n] = {}]
    /\ batch_history' = [batch_history EXCEPT ![n] = <<>>]
    /\ pending_changes' = [pending_changes EXCEPT ![n] = NoBatch]
    /\ current_state_root' = [current_state_root EXCEPT ![n] = HEAD[n]]
    /\ queued' = [c \in Channels |-> IF c[2] = n THEN 0 ELSE queued[c]]
    /\ UNCHANGED <<HEAD, submissions>>

Lose(c) ==
    /\ "send" \in Faults
    /\ LoseMessage(c) \/ (queued[c] = 0 /\ LoseProposal(c))
    /\ UNCHANGED scabbardVars

ServiceEnvironment ==
    \/ \E n \in Nodes, b \in Batches : SubmitBatch(n, b)
    \/ \E s, n \in Nodes : HandleProposedBatch(s, n)
    \/ \E n \in Nodes : (TimeoutElapses(n) \/ Start(n)) /\ UNCHANGED scabbardVars
    \/ \E c \in Channels : Lose(c)
    \/ \E n \in Nodes : Crash(n)

ScabbardNext == (\E n \in Nodes : EngineStep(n)) \/ ServiceEnvironment

ScabbardInit ==
    /\ Init
    /\ batch_queue = [n \in Nodes |-> <<>>]
    /\ proposed_batches = [n \in Nodes |-> {}]
    /\ pending_changes = [n \in Nodes |-> NoBatch]
    /\ current_state_root = [n \in Nodes |-> <<>>]
    /\ HEAD = [n \in Nodes |-> <<>>]
    /\ batch_history = [n \in Nodes |-> <<>>]
    /\ queued = [c \in Channels |-> 0]
    /\ submissions = 0
    /\ crashes = 0

ScabbardSpec == ScabbardInit /\ [][ScabbardNext]_allVars

-----------------------------------------------------------------------------
(* Properties. *)

\* commit applies whatever is pending: what is pending is always the batch of the
\* proposal that is applied, on the state that it was checked on, so that a commit
\* leads to the state root that the proposal is named after.  A proposal ID is the hash of
\* the state and the batch alone: this is argued for IDs that do not recur (ScabbardTheorems).
CommitsTheProposal ==
    [][\A n \in Nodes : current_state_root'[n] # current_state_root[n] =>
          current_state_root'[n] = current[n] \/ pc'[n] = "stopped"]_allVars

\* Services share one history: each has applied the first of the batches that the
\* coordinator has applied, in the same order, whatever was lost, resubmitted or aborted, as
\* long as no proposal ID recurs (ScabbardTheorems).
Includes(n, root) ==
    Len(root) =< Len(current_state_root[n]) /\ SubSeq(current_state_root[n], 1, Len(root)) = root
StatesAgree ==
    \A m, n \in Nodes : Includes(m, current_state_root[n]) \/ Includes(n, current_state_root[m])

\* A batch that clients are told is committed is in the state.
CommittedIsApplied ==
    \A n \in Nodes, b \in Batches :
        get_batch_info(batch_history[n], b) = "Committed" => Contains(current_state_root[n], b)

-----------------------------------------------------------------------------
(* Fairness: the threads of engines and services run and time passes.  That what  *)
(* is under way arrives is not assumed, but for the property that needs it.       *)

ThreadsRun ==
    /\ \A n \in Nodes : WF_allVars(EngineStep(n)) /\ WF_allVars(TimeoutElapses(n) /\ UNCHANGED scabbardVars)
    /\ \A s, n \in Nodes : WF_allVars(HandleProposedBatch(s, n))

MessagesArrive ==
    \A s, n \in Nodes :
        /\ SF_allVars(s # n /\ EngineStep(n) /\ AtMessage(n) /\ msgs' [<<s, n>>] # msgs[<<s, n>>])
        /\ SF_allVars(EngineStep(n) /\ AtUpdate(n) /\ Len(updates' [<<s, n>>]) < Len(updates[<<s, n>>]))

FairScabbard == ScabbardSpec /\ ThreadsRun

\* What one service commits, every service commits, if messages arrive: an APPLY
\* finds its receiver ready.
CommitsReachAll ==
    MessagesArrive => \A n, m \in Nodes, p \in Proposals : Includes(n, p) ~> Includes(m, p)
=============================================================================
