-------------------------- MODULE ScabbardTheorems --------------------------
(***************************************************************************)
(* Proofs about the scabbard service, for every number of services, every  *)
(* set of batches, every history limit and every combination of faults.    *)
(*                                                                         *)
(* The status of a batch is proved as it stands.  What is committed and    *)
(* that the services agree on it are proved of the behaviours in which no  *)
(* proposal ID comes back, that is, in which no service proposes a batch   *)
(* again on a state on which it has been proposed before: a verdict or a   *)
(* vote on the first of two proposals with the same ID can be counted for  *)
(* the second.                                                             *)
(***************************************************************************)
EXTENDS Scabbard, TwoPhaseTheorems

\* What a leaf is tried with, unless it names its provers.
USE SMTT(20), ZenonT(20), SMTT(30)

-----------------------------------------------------------------------------
(* What a service's steps do to its data. *)

Statuses == {"Pending", "Valid", "Invalid", "Committed"}
HistoryEntry == [id : Batches, status : Statuses]

DataOK ==
    /\ batch_queue \in [Nodes -> Seq(Batches)]
    /\ pending_changes \in [Nodes -> Batches \cup {NoBatch}]
    /\ current_state_root \in [Nodes -> Seq(Batches)]
    /\ HEAD \in [Nodes -> Seq(Batches)]
    /\ batch_history \in [Nodes -> Seq(HistoryEntry)]

\* The batches that the history h says are committed are in the state root r.
Reported(h, r) == \A i \in 1..Len(h) : h[i].status = "Committed" => Contains(r, h[i].id)

\* What a step makes of a service's batch history h and state root r.
Moves(h, h2, r, r2) ==
    \/ h2 = h /\ r2 = r
    \/ h2 = <<>>
    \/ \E b \in Batches :
         \/ r2 = r /\ \E to \in {"Valid", "Invalid"} : h2 = Change(h, b, "Pending", to)
         \/ r2 = r /\ h2 = add_batch(h, b)
         \/ r2 = Append(r, b) /\ h2 \in {h, Change(h, b, "Valid", "Committed")}

\* A step of n's service: the others' data is left alone.
Elsewhere(n) ==
    \A m \in Nodes \ {n} : /\ pending_changes'[m] = pending_changes[m] /\ HEAD'[m] = HEAD[m]
                           /\ current_state_root'[m] = current_state_root[m]
                           /\ batch_history'[m] = batch_history[m]
Serves(n) ==
    /\ DataOK' /\ Elsewhere(n)
    /\ Moves(batch_history[n], batch_history'[n], current_state_root[n], current_state_root'[n])

\* A change of status keeps the history's entries but for the status of the batch's.
LEMMA ChangeFacts ==
    ASSUME NEW h \in Seq(HistoryEntry), NEW b \in Batches, NEW from, NEW to \in Statuses
    PROVE  /\ Change(h, b, from, to) \in Seq(HistoryEntry)
           /\ Len(Change(h, b, from, to)) = Len(h)
           /\ \A i \in 1..Len(h) : Change(h, b, from, to)[i] \in {h[i], Entry(b, to)}
<1> DEFINE c == Change(h, b, from, to)
<1>1. DOMAIN h = 1..Len(h) /\ Len(h) \in Nat /\ \A i \in 1..Len(h) : h[i] \in HistoryEntry
  OBVIOUS
<1>2. Entry(b, to) \in HistoryEntry
  BY DEF Entry, HistoryEntry
<1>3. c \in [1..Len(h) -> HistoryEntry] /\ \A i \in 1..Len(h) : c[i] \in {h[i], Entry(b, to)}
  BY <1>1, <1>2 DEF Change
<1> HIDE DEF c
<1>4. c \in Seq(HistoryEntry) /\ Len(c) = Len(h)
  BY <1>1, <1>3
<1> QED BY <1>3, <1>4 DEF c

\* add_batch keeps entries of the history and adds one that is pending.
LEMMA AddBatchFacts ==
    ASSUME NEW h \in Seq(HistoryEntry), NEW b \in Batches
    PROVE  /\ add_batch(h, b) \in Seq(HistoryEntry)
           /\ \A j \in 1..Len(add_batch(h, b)) :
                \/ add_batch(h, b)[j] = Entry(b, "Pending")
                \/ \E i \in 1..Len(h) : add_batch(h, b)[j] = h[i]
<1> DEFINE k == Others(h, b)
           a == Append(k, Entry(b, "Pending"))
           Good(s) == /\ s \in Seq(HistoryEntry)
                      /\ \A j \in 1..Len(s) : s[j] = Entry(b, "Pending") \/ \E i \in 1..Len(h) : s[j] = h[i]
<1>1. k \in Seq(HistoryEntry) /\ \A j \in DOMAIN k : \E i \in DOMAIN h : k[j] = h[i]
  <2>1. CASE k = h
    BY <2>1
  <2>2. ASSUME NEW i \in DOMAIN h, k = RemoveAt(h, i)
        PROVE  k \in Seq(HistoryEntry) /\ \A j \in DOMAIN k : \E l \in DOMAIN h : k[j] = h[l]
    <3>1. RemoveAt(h, i) \in Seq(HistoryEntry) /\ \A y : Contains(RemoveAt(h, i), y) => Contains(h, y)
      BY ContainsRemoveAt
    <3> HIDE DEF k
    <3> QED BY <2>2, <3>1 DEF Contains
  <2>3. (\E i \in DOMAIN h : h[i].id = b) => (CHOOSE i \in DOMAIN h : h[i].id = b) \in DOMAIN h
    BY Zenon
  <2> QED BY Zenon, <2>1, <2>2, <2>3 DEF Others
<1>2. Entry(b, "Pending") \in HistoryEntry
  BY DEF Entry, HistoryEntry, Statuses
<1> HIDE DEF k
<1>3. Len(a) = Len(k) + 1 /\ a \in Seq(HistoryEntry) /\ Len(k) \in Nat
  BY <1>1, <1>2
<1>4. ASSUME NEW j \in 1..Len(a)
      PROVE  a[j] = Entry(b, "Pending") \/ \E i \in 1..Len(h) : a[j] = h[i]
  <2>1. CASE j = Len(k) + 1
    BY <1>1, <1>2, <2>1
  <2>2. CASE j \in 1..Len(k)
    <3>1. a[j] = k[j]
      BY <1>1, <1>2, <2>2
    <3> QED BY <1>1, <2>2, <3>1
  <2> QED BY <1>3, <2>1, <2>2
<1>5. Good(a)
  BY <1>3, <1>4
<1>6. Tail(a) \in Seq(HistoryEntry) /\ Len(Tail(a)) = Len(a) - 1 /\ \A j \in 1..Len(Tail(a)) : Tail(a)[j] = a[j + 1] /\ j + 1 \in 1..Len(a)
  <2>1. a # <<>> /\ Len(a) \in Nat
    BY <1>3
  <2> HIDE DEF a
  <2> QED BY <1>3, <2>1
<1>7. Good(Tail(a))
  <2> HIDE DEF a
  <2> QED BY <1>5, <1>6
<1>8. add_batch(h, b) \in {a, Tail(a)}
  BY DEF add_batch, k
<1>9. Good(add_batch(h, b))
  <2> HIDE DEF a, Good
  <2> QED BY Zenon, <1>5, <1>7, <1>8
<1> QED BY <1>9

\* Each of them keeps what is reported true.
LEMMA MovesReport ==
    ASSUME NEW h \in Seq(HistoryEntry), NEW h2 \in Seq(HistoryEntry), NEW r \in Seq(Batches), NEW r2,
           Reported(h, r), Moves(h, h2, r, r2)
    PROVE  Reported(h2, r2)
<1>1. CASE h2 = h /\ r2 = r
  BY <1>1
<1>2. CASE h2 = <<>>
  BY <1>2 DEF Reported
<1>3. ASSUME NEW b \in Batches, r2 = r, NEW to \in {"Valid", "Invalid"}, h2 = Change(h, b, "Pending", to)
      PROVE  Reported(h2, r2)
  <2>1. to \in Statuses /\ Entry(b, to).status # "Committed"
    BY DEF Statuses, Entry
  <2>2. Len(h2) = Len(h) /\ \A i \in 1..Len(h) : h2[i] \in {h[i], Entry(b, to)}
    BY <1>3, <2>1, ChangeFacts
  <2> QED BY <1>3, <2>1, <2>2 DEF Reported
<1>4. ASSUME NEW b \in Batches, r2 = r, h2 = add_batch(h, b)
      PROVE  Reported(h2, r2)
  <2>1. Entry(b, "Pending").status # "Committed"
    BY DEF Entry
  <2>2. \A j \in 1..Len(h2) : h2[j] = Entry(b, "Pending") \/ \E i \in 1..Len(h) : h2[j] = h[i]
    BY <1>4, AddBatchFacts
  <2> QED BY <1>4, <2>1, <2>2 DEF Reported
<1>5. ASSUME NEW b \in Batches, r2 = Append(r, b), h2 \in {h, Change(h, b, "Valid", "Committed")}
      PROVE  Reported(h2, r2)
  <2>1. "Committed" \in Statuses /\ Entry(b, "Committed").id = b
    BY DEF Statuses, Entry
  <2>2. Len(h2) = Len(h) /\ \A i \in 1..Len(h) : h2[i] \in {h[i], Entry(b, "Committed")}
    BY <1>5, <2>1, ChangeFacts
  <2>3. \A y : Contains(r, y) \/ y = b => Contains(r2, y)
    BY <1>5, ContainsAppend
  <2> QED BY <2>1, <2>2, <2>3 DEF Reported
<1> QED BY <1>1, <1>2, <1>3, <1>4, <1>5 DEF Moves

\* A proposal is the state root that its last batch leads to.
LEMMA BatchFacts == \A p \in Proposals : p \in Seq(Batches) /\ Len(p) \in Nat \ {0} /\ Batch(p) \in Batches
<1> TAKE p \in Proposals
<1>1. p \in Seq(Batches) /\ p # <<>>
  BY BatchesAssumption
<1> QED BY <1>1 DEF Batch

\* Steps that leave the service's state alone, but for its queue.
LEMMA IdleServes ==
    ASSUME DataOK, NEW n \in Nodes, UNCHANGED <<stateVars, batch_history>>,
           batch_queue' \in [Nodes -> Seq(Batches)]
    PROVE  Serves(n)
  BY DEF DataOK, stateVars, Serves, Elsewhere, Moves

\* prepare_change.
LEMMA PrepareServes ==
    ASSUME DataOK, NEW n \in Nodes, NEW b \in Batches, Prepared(n, b) \/ NotPrepared(n, b),
           batch_queue' \in [Nodes -> Seq(Batches)]
    PROVE  Serves(n)
<1> DEFINE h == batch_history[n]
           to == BatchStatus(n, b)
<1>1. h \in Seq(HistoryEntry) /\ to \in {"Valid", "Invalid"}
  BY DEF DataOK, BatchStatus
<1>2. Change(h, b, "Pending", to) \in Seq(HistoryEntry)
  BY <1>1, ChangeFacts DEF Statuses
<1>3. batch_history' = [batch_history EXCEPT ![n] = Change(h, b, "Pending", to)]
  BY DEF Prepared, NotPrepared, DataOK
<1> HIDE DEF h, to
<1>4. batch_history' \in [Nodes -> Seq(HistoryEntry)] /\ batch_history'[n] = Change(h, b, "Pending", to)
  BY <1>2, <1>3 DEF DataOK
<1>5. /\ pending_changes' \in [Nodes -> Batches \cup {NoBatch}]
      /\ UNCHANGED <<current_state_root, HEAD>>
      /\ \A m \in Nodes \ {n} : pending_changes'[m] = pending_changes[m]
  BY Zenon DEF Prepared, NotPrepared, DataOK, stateVars
<1>6. DataOK'
  BY <1>4, <1>5 DEF DataOK
<1>7. Elsewhere(n)
  BY <1>3, <1>5 DEF Elsewhere, DataOK
<1>8. Moves(h, batch_history'[n], current_state_root[n], current_state_root'[n])
  BY <1>1, <1>4, <1>5 DEF Moves
<1> QED BY <1>6, <1>7, <1>8 DEF Serves, h

\* commit, whether or not it fails part way.
LEMMA CommitServes ==
    ASSUME DataOK, NEW n \in Nodes, NEW ok \in BOOLEAN, commit(n, ok), batch_queue' \in [Nodes -> Seq(Batches)]
    PROVE  Serves(n)
<1> DEFINE h == batch_history[n]
           r == current_state_root[n]
           b == pending_changes[n]
           to == Change(h, b, "Valid", "Committed")
<1>1. h \in Seq(HistoryEntry) /\ r \in Seq(Batches) /\ b \in Batches \cup {NoBatch}
  BY DEF DataOK
<1>2. ASSUME b # NoBatch
      PROVE  b \in Batches /\ to \in Seq(HistoryEntry) /\ Append(r, b) \in Seq(Batches)
  BY <1>1, <1>2, ChangeFacts DEF Statuses
<1>3. /\ pending_changes' = [pending_changes EXCEPT ![n] = NoBatch]
      /\ \/ UNCHANGED <<current_state_root, HEAD, batch_history>>
         \/ /\ b # NoBatch
            /\ current_state_root' = [current_state_root EXCEPT ![n] = Append(r, b)]
            /\ UNCHANGED HEAD \/ HEAD' = [HEAD EXCEPT ![n] = Append(r, b)]
            /\ UNCHANGED batch_history \/ batch_history' = [batch_history EXCEPT ![n] = to]
  BY DEF commit, ExpectedHash, DataOK
<1> HIDE DEF h, r, b, to
<1>4. /\ pending_changes' \in [Nodes -> Batches \cup {NoBatch}]
      /\ \A m \in Nodes \ {n} : pending_changes'[m] = pending_changes[m]
  BY <1>3 DEF DataOK
<1>5. CASE UNCHANGED <<current_state_root, HEAD, batch_history>>
  BY <1>4, <1>5 DEF Serves, DataOK, Elsewhere, Moves
<1>6. CASE /\ b # NoBatch
           /\ current_state_root' = [current_state_root EXCEPT ![n] = Append(r, b)]
           /\ UNCHANGED HEAD \/ HEAD' = [HEAD EXCEPT ![n] = Append(r, b)]
           /\ UNCHANGED batch_history \/ batch_history' = [batch_history EXCEPT ![n] = to]
  <2>1. DataOK'
    BY ZenonT(60), <1>2, <1>4, <1>6 DEF DataOK
  <2>2. Elsewhere(n)
    BY <1>4, <1>6 DEF Elsewhere, DataOK
  <2>3. current_state_root'[n] = Append(r, b) /\ batch_history'[n] \in {h, to} /\ b \in Batches
    BY <1>2, <1>6 DEF DataOK, h
  <2>4. Moves(h, batch_history'[n], r, current_state_root'[n])
    BY <2>3 DEF Moves, to
  <2> QED BY <2>1, <2>2, <2>4 DEF Serves, h, r
<1> QED BY <1>3, <1>5, <1>6

\* rollback.
LEMMA RollbackServes ==
    ASSUME DataOK, NEW n \in Nodes, rollback(n), batch_queue' \in [Nodes -> Seq(Batches)]
    PROVE  Serves(n)
  BY Zenon DEF DataOK, rollback, Serves, Elsewhere, Moves

\* A manager call is about a proposal.
LEMMA AtHandFacts ==
    ASSUME TypeOK, NEW n \in Nodes
    PROVE  AtHand(n) \subseteq Proposals
<1>1. ASSUME NEW c \in Channels
      PROVE  /\ msgs[c] # <<>> => Head(msgs[c]).id \in Proposals
             /\ updates[c] # <<>> => Head(updates[c]).id \in Proposals \cup {NoProposal}
  <2>1. msgs[c] \in Seq(ConsensusMsg) /\ updates[c] \in Seq(ProposalUpdate)
    BY DEF TypeOK
  <2>2. /\ msgs[c] # <<>> => Head(msgs[c]) \in ConsensusMsg
        /\ updates[c] # <<>> => Head(updates[c]) \in ProposalUpdate
    BY <2>1
  <2> QED BY <2>2 DEF ConsensusMsg, ProposalUpdate
<1>2. current[n] \in Proposals \cup {NoProposal} /\ \A i \in DOMAIN proposal_backlog[n] : proposal_backlog[n][i] \in Proposals
  BY DEF TypeOK
<1> QED BY <1>1, <1>2 DEF AtHand

\* create_proposal, for the engine: nothing to propose, an invalid batch, or a proposal that is
\* the state root its batch leads to.
LEMMA CreateServes ==
    ASSUME DataOK, NEW n \in Nodes, create_proposal(n)
    PROVE  /\ Serves(n)
           /\ \/ CreateProposal(n, NoProposal) /\ UNCHANGED stateVars
              \/ CreateProposalFails(n, NoProposal, {}) /\ UNCHANGED stateVars
              \/ \E p \in Proposals :
                   /\ Creates(n, p) /\ UNCHANGED <<current_state_root, HEAD>>
                   /\ batch_queue[n] # <<>> /\ p = ExpectedHash(n, Head(batch_queue[n]))
<1>1. CASE /\ CreateProposal(n, NoProposal)
           /\ UNCHANGED <<sharedVars, stateVars>>
  <2>1. UNCHANGED <<stateVars, batch_history>> /\ UNCHANGED batch_queue
    BY <1>1 DEF sharedVars
  <2>2. batch_queue' \in [Nodes -> Seq(Batches)]
    BY <2>1 DEF DataOK
  <2> QED BY <1>1, <2>1, <2>2, IdleServes
<1> DEFINE b == Head(batch_queue[n])
           p == ExpectedHash(n, b)
<1>2. CASE /\ batch_queue[n] # <<>>
           /\ batch_queue' = [batch_queue EXCEPT ![n] = Tail(@)]
           /\ \/ /\ Prepared(n, b)
                 /\ \/ CreateProposal(n, p)
                    \/ \E to \in SUBSET (Nodes \ {n}) : CreateProposalFails(n, p, to)
              \/ /\ NotPrepared(n, b)
                 /\ CreateProposalFails(n, NoProposal, {})
  <2>1. b \in Batches /\ batch_queue' \in [Nodes -> Seq(Batches)]
    <3>1. batch_queue[n] \in Seq(Batches) /\ batch_queue[n] # <<>>
      BY <1>2 DEF DataOK
    <3>2. b \in Batches /\ Tail(batch_queue[n]) \in Seq(Batches)
      BY <3>1
    <3> QED BY <1>2, <3>2 DEF DataOK
  <2>2. Serves(n)
    BY <1>2, <2>1, PrepareServes
  <2>3. Prepared(n, b) => p \in Proposals /\ UNCHANGED <<current_state_root, HEAD>>
    BY DEF Prepared, Executes
  <2>4. NotPrepared(n, b) => UNCHANGED stateVars
    BY DEF NotPrepared
  <2>5. CreateProposal(n, p) \/ (\E to : CreateProposalFails(n, p, to)) => Creates(n, p)
    BY DEF Creates
  <2>6. p = ExpectedHash(n, Head(batch_queue[n]))
    OBVIOUS
  <2> HIDE DEF b, p
  <2> QED BY <1>2, <2>2, <2>3, <2>4, <2>5, <2>6
<1> QED BY <1>1, <1>2 DEF create_proposal

\* The other calls.
LEMMA AnswerServes ==
    ASSUME DataOK, NEW n \in Nodes, NEW p \in Proposals,
           \/ \E r : check_proposal(n, p, r)
           \/ \E ok \in BOOLEAN : accept_proposal(n, p, ok) \/ reject_proposal(n, p, ok) \/ check_then_reject(n, p, ok)
    PROVE  Serves(n)
<1>0. Batch(p) \in Batches /\ batch_queue' \in [Nodes -> Seq(Batches)]
  BY BatchFacts DEF DataOK, check_proposal, accept_proposal, reject_proposal, check_then_reject
<1>1. ASSUME NEW r, check_proposal(n, p, r)
      PROVE  Serves(n)
  BY <1>0, <1>1, PrepareServes, IdleServes DEF check_proposal
<1>2. ASSUME NEW ok \in BOOLEAN, accept_proposal(n, p, ok)
      PROVE  Serves(n)
  BY <1>0, <1>2, CommitServes, IdleServes DEF accept_proposal
<1>3. ASSUME NEW ok \in BOOLEAN, reject_proposal(n, p, ok)
      PROVE  Serves(n)
  BY ZenonT(60), <1>0, <1>3, RollbackServes, IdleServes DEF reject_proposal
<1>4. ASSUME NEW ok \in BOOLEAN, check_then_reject(n, p, ok)
      PROVE  Serves(n)
  <2>1. CASE UNCHANGED <<stateVars, batch_history>>
    BY <1>0, <2>1, IdleServes
  <2>2. CASE /\ pending_changes' = [pending_changes EXCEPT ![n] = NoBatch]
             /\ batch_history' = [batch_history EXCEPT ![n] = Change(@, Batch(p), "Pending", "Invalid")]
             /\ UNCHANGED <<current_state_root, HEAD>>
    <3> DEFINE h == batch_history[n]
               c == Change(h, Batch(p), "Pending", "Invalid")
    <3>1. h \in Seq(HistoryEntry) /\ c \in Seq(HistoryEntry)
      BY <1>0, ChangeFacts DEF DataOK, Statuses
    <3>2. batch_history' = [batch_history EXCEPT ![n] = c]
      BY <2>2 DEF DataOK
    <3> HIDE DEF h, c
    <3>3. DataOK' /\ Elsewhere(n) /\ batch_history'[n] = c
      BY <1>0, <2>2, <3>1, <3>2 DEF DataOK, Elsewhere
    <3>4. Moves(h, batch_history'[n], current_state_root[n], current_state_root'[n])
      BY <1>0, <2>2, <3>3 DEF Moves, c
    <3> QED BY <3>3, <3>4 DEF Serves, h
  <2> QED BY <1>4, <2>1, <2>2 DEF check_then_reject
<1> QED BY ZenonT(60), <1>1, <1>2, <1>3, <1>4

\* Every step of an engine with its manager is a step of the service, and one of the engine.
LEMMA EngineServes ==
    ASSUME TypeOK, DataOK, NEW n \in Nodes, EngineStep(n)
    PROVE  Serves(n) /\ (NoCall(n) \/ Answers(n) \/ \E p \in Proposals : Creates(n, p))
<1>1. CASE NoCall(n) /\ UNCHANGED <<sharedVars, stateVars>>
  <2>1. UNCHANGED <<stateVars, batch_history>> /\ UNCHANGED batch_queue
    BY <1>1 DEF sharedVars
  <2>2. batch_queue' \in [Nodes -> Seq(Batches)]
    BY <2>1 DEF DataOK
  <2> QED BY <1>1, <2>1, <2>2, IdleServes
<1>2. CASE create_proposal(n)
  BY <1>2, CreateServes DEF Answers
<1>3. ASSUME NEW p \in AtHand(n),
             \/ \E r \in {"valid", "invalid", "error"} : CheckCall(n, p, r) /\ check_proposal(n, p, r)
             \/ \E ok \in BOOLEAN :
                  \/ AcceptCall(n, p, ok) /\ accept_proposal(n, p, ok)
                  \/ RejectCall(n, p, ok) /\ reject_proposal(n, p, ok)
                  \/ CheckRejectCall(n, p, ok) /\ check_then_reject(n, p, ok)
      PROVE  Serves(n) /\ Answers(n)
  <2>1. p \in Proposals
    BY AtHandFacts
  <2>2. Serves(n)
    BY <1>3, <2>1, AnswerServes
  <2> QED BY <1>3, <2>1, <2>2 DEF Answers
<1> QED BY <1>1, <1>2, <1>3 DEF EngineStep

\* So is every other step of the service: batches submitted and proposals stored, with the
\* engine left alone, and crashes and lost messages, with what they do to the engines.
LEMMA EnvironmentServes ==
    ASSUME DataOK, ServiceEnvironment
    PROVE  (\E n \in Nodes : Serves(n)) /\ (UNCHANGED vars \/ Disturbances)
<1>0. UNCHANGED batch_queue => batch_queue' \in [Nodes -> Seq(Batches)]
  BY DEF DataOK
<1>1. ASSUME NEW n \in Nodes, NEW b \in Batches, SubmitBatch(n, b)
      PROVE  Serves(n) /\ UNCHANGED vars
  <2> DEFINE h == batch_history[n]
             a == add_batch(h, b)
  <2>1. h \in Seq(HistoryEntry) /\ a \in Seq(HistoryEntry)
    BY AddBatchFacts DEF DataOK
  <2>2. /\ batch_queue' = [batch_queue EXCEPT ![n] = Append(@, b)] /\ UNCHANGED stateVars
        /\ batch_history' = [batch_history EXCEPT ![n] = a] /\ UNCHANGED vars
    BY <1>1 DEF SubmitBatch, add_batches, DataOK
  <2> HIDE DEF h, a
  <2>3. DataOK' /\ Elsewhere(n) /\ batch_history'[n] = a /\ UNCHANGED current_state_root
    BY <2>1, <2>2 DEF DataOK, Elsewhere, stateVars
  <2>4. Moves(h, batch_history'[n], current_state_root[n], current_state_root'[n])
    BY <2>3 DEF Moves, a
  <2> QED BY <2>2, <2>3, <2>4 DEF Serves, h
<1>2. ASSUME NEW s \in Nodes, NEW n \in Nodes, HandleProposedBatch(s, n)
      PROVE  Serves(n) /\ UNCHANGED vars
  <2>1. UNCHANGED <<stateVars, batch_history>> /\ UNCHANGED batch_queue /\ UNCHANGED vars
    BY <1>2 DEF HandleProposedBatch
  <2> QED BY <1>0, <2>1, IdleServes
<1>3. UNCHANGED scabbardVars => \A n \in Nodes : Serves(n)
  BY <1>0, IdleServes DEF scabbardVars, sharedVars
<1>4. ASSUME NEW n \in Nodes, TimeoutElapses(n) \/ Start(n), UNCHANGED scabbardVars
      PROVE  Serves(n) /\ Disturbances
  BY <1>3, <1>4 DEF Disturbances
<1>5. ASSUME NEW c \in Channels, Lose(c)
      PROVE  (\E n \in Nodes : Serves(n)) /\ Disturbances
  <2>1. PICK n \in Nodes : TRUE
    BY DEF Channels
  <2> QED BY <1>3, <1>5, <2>1 DEF Lose, Disturbances
<1>6. ASSUME NEW n \in Nodes, Crash(n)
      PROVE  Serves(n) /\ Disturbances
  <2>1. DataOK' /\ Elsewhere(n) /\ batch_history'[n] = <<>>
    BY <1>6 DEF Crash, DataOK, Elsewhere
  <2> QED BY <1>6, <2>1 DEF Serves, Moves, Crash, Disturbances
<1> QED BY <1>1, <1>2, <1>4, <1>5, <1>6 DEF ServiceEnvironment

\* What clients are told of a batch, in a state in which the history is true.
LEMMA ReportedIsTrue ==
    ASSUME DataOK, \A n \in Nodes : Reported(batch_history[n], current_state_root[n])
    PROVE  CommittedIsApplied
<1> SUFFICES ASSUME NEW n \in Nodes, NEW b \in Batches, get_batch_info(batch_history[n], b) = "Committed"
             PROVE  Contains(current_state_root[n], b)
  BY DEF CommittedIsApplied
<1> DEFINE h == batch_history[n]
<1>1. h \in Seq(HistoryEntry) /\ DOMAIN h = 1..Len(h)
  BY DEF DataOK
<1>2. \E i \in DOMAIN h : h[i].id = b
  BY DEF get_batch_info
<1>3. PICK i \in DOMAIN h : h[i].id = b /\ h[i].status = "Committed"
  BY <1>2, Zenon DEF get_batch_info
<1> QED BY <1>1, <1>3 DEF Reported

\* The types of the services and the truth of their histories are kept together.
StatusInv == TypeOK /\ DataOK /\ \A n \in Nodes : Reported(batch_history[n], current_state_root[n])

\* Services start without batches.
LEMMA StatusInit == ScabbardInit => StatusInv
  BY TypeInit, BatchesAssumption DEF ScabbardInit, StatusInv, DataOK, Reported

\* Every step of engines, services and their environment keeps them.
LEMMA StatusStep ==
    ASSUME StatusInv, [ScabbardNext]_allVars
    PROVE  StatusInv'
<1>1. ASSUME NEW n \in Nodes, Serves(n)
      PROVE  DataOK' /\ \A m \in Nodes : Reported(batch_history[m], current_state_root[m])'
  <2>1. DataOK'
    BY <1>1 DEF Serves
  <2>2. ASSUME NEW m \in Nodes
        PROVE  Reported(batch_history'[m], current_state_root'[m])
    <3>1. CASE m = n
      BY <1>1, <2>1, <3>1, MovesReport DEF Serves, StatusInv, DataOK
    <3>2. CASE m # n
      BY <1>1, <3>2 DEF Serves, Elsewhere, StatusInv
    <3> QED BY <3>1, <3>2
  <2> QED BY <2>1, <2>2
<1>2. CASE \E n \in Nodes : EngineStep(n)
  BY <1>1, <1>2, EngineServes, NoCallType, CallsType DEF StatusInv
<1>3. CASE ServiceEnvironment
  <2>1. TypeOK'
    BY <1>3, EnvironmentServes, EnvironmentType, TypeStep DEF StatusInv
  <2> QED BY <1>1, <1>3, <2>1, EnvironmentServes DEF StatusInv
<1>4. CASE UNCHANGED allVars
  <2>1. TypeOK'
    BY <1>4, TypeStep DEF StatusInv, allVars
  <2>2. UNCHANGED <<batch_queue, batch_history, pending_changes, current_state_root, HEAD>>
    BY <1>4 DEF allVars, scabbardVars, sharedVars, stateVars
  <2> QED BY <2>1, <2>2 DEF StatusInv, DataOK
<1> QED BY <1>2, <1>3, <1>4 DEF ScabbardNext

\* A batch that clients are told is committed is in the state of the service that tells them,
\* whatever is resubmitted, lost, rejected or forgotten in a crash.
THEOREM CommittedAreApplied == ScabbardSpec => []CommittedIsApplied
<1>1. StatusInv => CommittedIsApplied
  BY ReportedIsTrue DEF StatusInv
<1>2. ScabbardSpec => []StatusInv
  BY StatusInit, StatusStep, PTL DEF ScabbardSpec
<1> QED BY <1>1, <1>2, PTL

-----------------------------------------------------------------------------
(* What is committed, when no proposal ID comes back. *)

\* No service proposes a batch on a state on which it has been proposed before.
ProposedOnce ==
    [][\A n \in Nodes : create_proposal(n) /\ batch_queue[n] # <<>> =>
          ExpectedHash(n, Head(batch_queue[n])) \notin created]_allVars

\* The service that coordinates every proposal.
Leader == CHOOSE c \in Nodes : \A n \in Nodes : c =< n

Prefix(s, t) == Len(s) =< Len(t) /\ \A i \in 1..Len(s) : s[i] = t[i]

\* What is pending while p is evaluated is p's batch, and, if p has been found valid, on the
\* state on which it leads to p.
Pending(n) ==
    \A p \in Proposals : evaluating_proposal(n, p) /\ pending_changes[n] # NoBatch =>
        /\ pending_changes[n] = Batch(p)
        /\ p \in validated[n] => Append(current_state_root[n], Batch(p)) = p

\* What the coordinator has accepted is in its database; no service is ahead of that.
Shared ==
    /\ \A p \in accepted[Leader] : Prefix(p, HEAD[Leader])
    /\ Prefix(HEAD[Leader], current_state_root[Leader])
    /\ \A n \in Nodes \ {Leader} :
         Prefix(HEAD[n], HEAD[Leader]) /\ Prefix(current_state_root[n], HEAD[Leader])

\* Every service of the circuit verifies each proposal, so that all have one coordinator.
LEMMA LeaderFacts == Leader \in Nodes /\ \A p \in Proposals : Coordinator(p) = Leader /\ Verifiers[p] = Nodes
<1>1. Leader \in Nodes
  BY BatchesAssumption, Zenon DEF Leader
<1>2. \A p \in Proposals : Verifiers[p] = Nodes
  BY BatchesAssumption
<1>3. \A p \in Proposals : Coordinator(p) = Leader
  BY <1>2 DEF Coordinator, Leader
<1> QED BY <1>1, <1>2, <1>3

\* Prefixes, and what StatesAgree says of them.
LEMMA PrefixFacts ==
    /\ \A s \in Seq(Batches) : Prefix(s, s)
    /\ \A s \in Seq(Batches), b \in Batches : Prefix(s, Append(s, b))
    /\ \A s, t, u \in Seq(Batches) : Prefix(s, t) /\ Prefix(t, u) => Prefix(s, u)
    /\ \A s, t, u \in Seq(Batches) : Prefix(s, u) /\ Prefix(t, u) => Prefix(s, t) \/ Prefix(t, s)
    /\ \A s, t \in Seq(Batches) : Prefix(s, t) => Len(s) =< Len(t) /\ SubSeq(t, 1, Len(s)) = s
<1>1. \A s \in Seq(Batches) : Prefix(s, s)
  BY DEF Prefix
<1>2. ASSUME NEW s \in Seq(Batches), NEW b \in Batches
      PROVE  Prefix(s, Append(s, b))
  BY DEF Prefix
<1>3. ASSUME NEW s \in Seq(Batches), NEW t \in Seq(Batches), NEW u \in Seq(Batches), Prefix(s, t), Prefix(t, u)
      PROVE  Prefix(s, u)
  <2>1. Len(s) \in Nat /\ Len(t) \in Nat /\ Len(u) \in Nat
    OBVIOUS
  <2> QED BY <1>3, <2>1 DEF Prefix
<1>4. ASSUME NEW s \in Seq(Batches), NEW t \in Seq(Batches), NEW u \in Seq(Batches), Prefix(s, u), Prefix(t, u)
      PROVE  Prefix(s, t) \/ Prefix(t, s)
  <2>1. Len(s) \in Nat /\ Len(t) \in Nat /\ Len(u) \in Nat
    OBVIOUS
  <2> QED BY <1>4, <2>1 DEF Prefix
<1>5. ASSUME NEW s \in Seq(Batches), NEW t \in Seq(Batches), Prefix(s, t)
      PROVE  Len(s) =< Len(t) /\ SubSeq(t, 1, Len(s)) = s
  <2> DEFINE u == SubSeq(t, 1, Len(s))
  <2>1. Len(s) \in Nat /\ Len(t) \in Nat /\ Len(s) =< Len(t)
    BY <1>5 DEF Prefix
  <2>2. u \in Seq(Batches) /\ Len(u) = Len(s) /\ \A i \in 1..Len(s) : u[i] = t[i]
    BY <2>1
  <2> HIDE DEF u
  <2>3. u = s
    <3>1. \A i \in 1..Len(s) : u[i] = s[i]
      BY <1>5, <2>2 DEF Prefix
    <3> QED BY <2>2, <3>1
  <2> QED BY <2>1, <2>3 DEF u
<1> QED BY <1>1, <1>2, <1>3, <1>4, <1>5

\* The services' states are all prefixes of the coordinator's.
LEMMA SharedAgrees ==
    ASSUME DataOK, Shared
    PROVE  StatesAgree
<1>1. ASSUME NEW n \in Nodes
      PROVE  Prefix(current_state_root[n], current_state_root[Leader])
  <2>1. /\ current_state_root[n] \in Seq(Batches) /\ HEAD[Leader] \in Seq(Batches)
        /\ current_state_root[Leader] \in Seq(Batches)
    BY LeaderFacts DEF DataOK
  <2> QED BY <2>1, PrefixFacts DEF Shared
<1>2. ASSUME NEW m \in Nodes, NEW n \in Nodes
      PROVE  Includes(m, current_state_root[n]) \/ Includes(n, current_state_root[m])
  <2>1. /\ current_state_root[n] \in Seq(Batches) /\ current_state_root[m] \in Seq(Batches)
        /\ current_state_root[Leader] \in Seq(Batches)
    BY LeaderFacts DEF DataOK
  <2>2. \/ Prefix(current_state_root[n], current_state_root[m])
        \/ Prefix(current_state_root[m], current_state_root[n])
    BY <1>1, <2>1, PrefixFacts
  <2> QED BY <2>1, <2>2, PrefixFacts DEF Includes
<1> QED BY <1>2 DEF StatesAgree

AllPending == \A n \in Nodes : Pending(n)

\* What a step may do to one service's state: a commit leads to the proposal under evaluation.
CommitsCurrent ==
    \A n \in Nodes : current_state_root'[n] # current_state_root[n] =>
        current_state_root'[n] = current[n] \/ pc'[n] = "stopped"

\* Changes that are dropped, or left as they are on a state that stays.
LEMMA PendingQuiet ==
    ASSUME AllPending, NoNewEvaluation, UNCHANGED validated,
           \A m \in Nodes : \/ pending_changes'[m] = NoBatch
                            \/ /\ pending_changes'[m] = pending_changes[m]
                               /\ current_state_root'[m] = current_state_root[m]
    PROVE  AllPending'
  BY DEF AllPending, Pending, NoNewEvaluation

\* check_proposal makes p's batch pending, on the state on which it has just been checked.
LEMMA CheckPending ==
    ASSUME IInv, Checks, DataOK, AllPending, Shared, NEW n \in Nodes, NEW p \in Proposals, NEW r,
           CheckCall(n, p, r), check_proposal(n, p, r)
    PROVE  AllPending' /\ Shared' /\ CommitsCurrent
<1>1. UNCHANGED <<current_state_root, HEAD>>
  BY DEF check_proposal, Prepared, NotPrepared, stateVars
<1>2. UNCHANGED accepted /\ p \notin validated[n]
  BY ZenonT(60), CheckEffect, CheckCallChecks
<1>3. Shared' /\ CommitsCurrent
  BY <1>1, <1>2 DEF Shared, CommitsCurrent
<1>4. CASE r = "error"
  <2>1. UNCHANGED <<state, current, validated>>
    BY ZenonT(60), <1>4, CheckEffect
  <2>2. UNCHANGED pending_changes
    BY <1>4 DEF check_proposal, Prepared, NotPrepared, stateVars
  <2>3. NoNewEvaluation
    BY <2>1 DEF NoNewEvaluation, evaluating_proposal
  <2> QED BY <1>1, <1>3, <2>1, <2>2, <2>3, PendingQuiet
<1>5. CASE r # "error"
  <2>1. Become(n, "EvaluatingProposal", p) /\ Validate(n, p, r)
    BY ZenonT(60), <1>5, CheckEffect
  <2>2. pending_changes' = [pending_changes EXCEPT ![n] = Batch(p)] /\ (r = "valid" => ExpectedHash(n, Batch(p)) = p)
    BY <1>5 DEF check_proposal, Prepared, NotPrepared
  <2>3. ASSUME NEW m \in Nodes, m # n
        PROVE  Pending(m)'
    <3>1. /\ state'[m] = state[m] /\ current'[m] = current[m] /\ validated'[m] = validated[m]
          /\ pending_changes'[m] = pending_changes[m] /\ current_state_root'[m] = current_state_root[m]
      BY ZenonT(60), <1>1, <2>1, <2>2, <2>3 DEF Become, Validate, IInv, TypeOK, DataOK
    <3>2. Pending(m)
      BY Zenon DEF AllPending
    <3> QED BY Zenon, <3>1, <3>2 DEF Pending, evaluating_proposal
  <2>4. Pending(n)'
    <3>1. /\ current'[n] = p /\ pending_changes'[n] = Batch(p)
          /\ p \in validated'[n] => r = "valid"
      BY ZenonT(60), <1>2, <2>1, <2>2 DEF Become, Validate, IInv, TypeOK, DataOK
    <3> QED BY Zenon, <1>1, <2>2, <3>1 DEF Pending, evaluating_proposal, ExpectedHash
  <2> QED BY <1>3, <2>3, <2>4 DEF AllPending
<1> QED BY <1>4, <1>5

\* accept_proposal: what is committed leads to p, which no other service's state contradicts.
LEMMA AcceptShared ==
    ASSUME IInv, DataOK, DataOK', AllPending, Shared, NEW n \in Nodes, NEW p \in Proposals, NEW ok \in BOOLEAN,
           AcceptCall(n, p, ok), accept_proposal(n, p, ok)
    PROVE  AllPending' /\ Shared' /\ CommitsCurrent
<1>0. /\ Leader \in Nodes /\ evaluating_proposal(n, p) /\ p \in validated[n] /\ NoNewEvaluation /\ UNCHANGED validated
      /\ n # Leader => p \in accepted[Leader]
      /\ p \in Seq(Batches) /\ Batch(p) \in Batches
  <2>1. n \in Verifiers[p] /\ Coordinator(p) = Leader /\ Leader \in Nodes
    BY LeaderFacts
  <2> QED BY <2>1, AcceptEffect, BatchFacts
<1>a. accepted' = IF ok THEN [accepted EXCEPT ![n] = @ \cup {p}] ELSE accepted
  BY LeaderFacts, AcceptEffect
<1>1. CASE UNCHANGED stateVars /\ ~ok
  <2>1. UNCHANGED accepted
    BY <1>1, <1>a
  <2>2. UNCHANGED <<pending_changes, current_state_root, HEAD>>
    BY <1>1 DEF stateVars
  <2>3. Shared' /\ CommitsCurrent
    BY <2>1, <2>2 DEF Shared, CommitsCurrent
  <2> QED BY <1>0, <2>2, <2>3, PendingQuiet
<1>2. CASE commit(n, ok)
  <2>1. /\ pending_changes'[n] = NoBatch
        /\ \A m \in Nodes \ {n} : /\ pending_changes'[m] = pending_changes[m] /\ HEAD'[m] = HEAD[m]
                                  /\ current_state_root'[m] = current_state_root[m]
        /\ \/ ~ok /\ UNCHANGED <<current_state_root, HEAD>>
           \/ /\ pending_changes[n] # NoBatch
              /\ current_state_root'[n] = Append(current_state_root[n], pending_changes[n])
              /\ (HEAD'[n] = HEAD[n] /\ ~ok) \/ HEAD'[n] = current_state_root'[n]
    BY ZenonT(60), <1>2 DEF commit, DataOK, ExpectedHash
  <2>2. AllPending'
    BY <1>0, <2>1, PendingQuiet
  <2>3. CASE ~ok /\ UNCHANGED <<current_state_root, HEAD>>
    <3>1. UNCHANGED accepted
      BY <2>3, <1>a
    <3> QED BY <2>2, <2>3, <3>1 DEF Shared, CommitsCurrent
  <2>4. CASE /\ pending_changes[n] # NoBatch
             /\ current_state_root'[n] = Append(current_state_root[n], pending_changes[n])
             /\ (HEAD'[n] = HEAD[n] /\ ~ok) \/ HEAD'[n] = current_state_root'[n]
    <3>1. pending_changes[n] = Batch(p) /\ current_state_root'[n] = p /\ current[n] = p
      BY ZenonT(60), <1>0, <2>4 DEF AllPending, Pending, evaluating_proposal
    <3>2. CommitsCurrent
      BY <2>1, <3>1 DEF CommitsCurrent
    <3>3. Prefix(current_state_root[n], p)
      <4>1. current_state_root[n] \in Seq(Batches) /\ p = Append(current_state_root[n], Batch(p))
        BY <2>4, <3>1 DEF DataOK
      <4>2. Prefix(current_state_root[n], Append(current_state_root[n], Batch(p)))
        BY <1>0, <4>1, PrefixFacts
      <4> QED BY Zenon, <4>1, <4>2
    <3>4. Shared'
      <4>0. \A m \in Nodes : HEAD[m] \in Seq(Batches) /\ current_state_root[m] \in Seq(Batches) /\ accepted[m] \subseteq Proposals
        BY DEF DataOK, IInv, TypeOK
      <4>1. CASE n # Leader
        <5>1. accepted'[Leader] = accepted[Leader]
          BY ZenonT(60), <1>0, <1>a, <4>1 DEF IInv, TypeOK
        <5>2. Prefix(p, HEAD[Leader])
          BY <1>0, <4>1 DEF Shared
        <5>3. HEAD'[Leader] = HEAD[Leader] /\ current_state_root'[Leader] = current_state_root[Leader]
          BY <1>0, <2>1, <4>1
        <5>4. ASSUME NEW m \in Nodes \ {Leader}
              PROVE  Prefix(HEAD'[m], HEAD'[Leader]) /\ Prefix(current_state_root'[m], HEAD'[Leader])
          BY Zenon, <2>1, <2>4, <3>1, <5>2, <5>3 DEF Shared
        <5> QED BY Zenon, <5>1, <5>3, <5>4 DEF Shared
      <4>2. CASE n = Leader
        <5>1. Prefix(HEAD[Leader], p)
          BY Zenon, <1>0, <3>3, <4>0, <4>2, PrefixFacts DEF Shared
        <5>2. \A s \in Seq(Batches) : Prefix(s, HEAD[Leader]) => Prefix(s, p)
          BY Zenon, <1>0, <4>0, <5>1, PrefixFacts
        <5>3. CASE HEAD'[n] = HEAD[n] /\ ~ok
          <6>1. UNCHANGED accepted
            BY Zenon, <5>3, <1>a
          <6> QED BY Zenon, <2>1, <3>1, <4>2, <5>1, <5>3, <6>1 DEF Shared
        <5>4. CASE HEAD'[n] = current_state_root'[n]
          <6>1. HEAD'[Leader] = p /\ current_state_root'[Leader] = p
            BY ZenonT(60), <3>1, <4>2, <5>4
          <6>2. \A q \in accepted'[Leader] : q \in accepted[Leader] \/ q = p
            BY <1>0, <1>a, <4>2 DEF IInv, TypeOK
          <6>3. \A q \in accepted'[Leader] : Prefix(q, p)
            <7>1. ASSUME NEW q \in accepted[Leader]
                  PROVE  Prefix(q, p)
              BY Zenon, <1>0, <4>0, <5>2, BatchFacts DEF Shared
            <7> QED BY Zenon, <1>0, <6>2, <7>1, PrefixFacts
          <6>4. ASSUME NEW m \in Nodes \ {Leader}
                PROVE  Prefix(HEAD'[m], p) /\ Prefix(current_state_root'[m], p)
            BY ZenonT(60), <2>1, <4>0, <4>2, <5>2 DEF Shared
          <6>5. Prefix(p, p)
            BY <1>0, PrefixFacts
          <6> QED BY Zenon, <6>1, <6>3, <6>4, <6>5 DEF Shared
        <5> QED BY Zenon, <2>4, <5>3, <5>4
      <4> QED BY <4>1, <4>2
    <3> QED BY Zenon, <2>2, <3>2, <3>4
  <2> QED BY <2>1, <2>3, <2>4
<1> QED BY <1>1, <1>2 DEF accept_proposal

\* The invariant: the engines', each proposal checked once, and what the services share.
ServicesInv == IInv /\ Checks /\ DataOK /\ AllPending /\ Shared

\* It holds when the services start.
LEMMA ServicesInit == ScabbardInit => ServicesInv
<1> SUFFICES ASSUME ScabbardInit PROVE ServicesInv
  OBVIOUS
<1>1. IInv /\ Checks /\ DataOK
  BY InvInit, ChecksInit, StatusInit DEF ScabbardInit, StatusInv
<1>2. AllPending
  BY DEF ScabbardInit, AllPending, Pending
<1>3. Shared
  <2>1. Leader \in Nodes /\ accepted[Leader] = {}
    BY Zenon, LeaderFacts DEF ScabbardInit, Init
  <2>2. \A n \in Nodes : HEAD[n] = <<>> /\ current_state_root[n] = <<>>
    BY Zenon DEF ScabbardInit
  <2>3. Prefix(<<>>, <<>>)
    BY DEF Prefix
  <2> QED BY <2>1, <2>2, <2>3 DEF Shared
<1> QED BY <1>1, <1>2, <1>3 DEF ServicesInv

\* A step that leaves the services' state alone and starts no evaluation.
LEMMA StateStays ==
    ASSUME AllPending, Shared, NoNewEvaluation, UNCHANGED <<validated, accepted>>, UNCHANGED stateVars
    PROVE  AllPending' /\ Shared' /\ CommitsCurrent
<1>1. UNCHANGED <<pending_changes, current_state_root, HEAD, validated, accepted>>
  BY DEF stateVars
<1>2. Shared' /\ CommitsCurrent
  BY <1>1 DEF Shared, CommitsCurrent
<1> QED BY <1>1, <1>2, PendingQuiet

\* A step of an engine that does not build a proposal again.
LEMMA EngineShares ==
    ASSUME ServicesInv, NEW n \in Nodes, EngineStep(n),
           create_proposal(n) /\ batch_queue[n] # <<>> => ExpectedHash(n, Head(batch_queue[n])) \notin created
    PROVE  Proceeds /\ DataOK' /\ AllPending' /\ Shared' /\ CommitsCurrent
<1>0. TypeOK /\ DataOK /\ AllPending /\ Shared /\ IInv /\ Checks
  BY Zenon DEF ServicesInv, IInv
<1>1. DataOK' /\ (NoCall(n) \/ Answers(n) => Proceeds)
  BY Zenon, <1>0, EngineServes DEF Serves, Proceeds
<1>2. CASE NoCall(n) /\ UNCHANGED <<sharedVars, stateVars>>
  BY Zenon, <1>0, <1>1, <1>2, QuietEffect, StateStays
<1>3. CASE create_proposal(n)
  <2>1. CASE /\ CreateProposal(n, NoProposal) \/ CreateProposalFails(n, NoProposal, {})
             /\ UNCHANGED stateVars
    <3>1. Answers(n)
      BY Zenon, <2>1 DEF Answers
    <3>2. NoNewEvaluation /\ UNCHANGED <<validated, accepted>>
      BY Zenon, <1>0, <2>1, CreateEffect
    <3> QED BY Zenon, <1>0, <1>1, <2>1, <3>1, <3>2, StateStays
  <2>2. ASSUME NEW p \in Proposals, Creates(n, p), UNCHANGED <<current_state_root, HEAD>>,
               batch_queue[n] # <<>>, p = ExpectedHash(n, Head(batch_queue[n]))
        PROVE  Proceeds /\ AllPending' /\ Shared' /\ CommitsCurrent
    <3>1. p \in Proposals \ created
      BY Zenon, <1>3, <2>2
    <3>2. Proceeds
      BY Zenon, <2>2, <3>1 DEF Proceeds
    <3>3. NoNewEvaluation /\ UNCHANGED <<validated, accepted>> /\ \A q : ~evaluating_proposal(n, q)'
      BY ZenonT(60), <1>0, <2>2, CreateEffect DEF Creates
    <3>4. Shared' /\ CommitsCurrent
      BY <1>0, <2>2, <3>3 DEF Shared, CommitsCurrent
    <3>5. \A m \in Nodes \ {n} : pending_changes'[m] = pending_changes[m]
      BY Zenon, <1>0, <1>3, CreateServes DEF Serves, Elsewhere
    <3>6. AllPending'
      <4>1. ASSUME NEW m \in Nodes, NEW q \in Proposals, evaluating_proposal(m, q)', pending_changes'[m] # NoBatch
            PROVE  /\ pending_changes'[m] = Batch(q)
                   /\ q \in validated'[m] => Append(current_state_root'[m], Batch(q)) = q
        <5>1. m # n /\ evaluating_proposal(m, q) /\ pending_changes[m] # NoBatch
          BY Zenon, <3>3, <3>5, <4>1 DEF NoNewEvaluation
        <5> QED BY Zenon, <1>0, <2>2, <3>3, <3>5, <5>1 DEF AllPending, Pending
      <4> QED BY Zenon, <4>1 DEF AllPending, Pending
    <3> QED BY Zenon, <3>2, <3>4, <3>6
  <2> QED BY Zenon, <1>0, <1>1, <1>3, <2>1, <2>2, CreateServes
<1>4. ASSUME NEW p \in AtHand(n)
      PROVE  /\ \A r \in {"valid", "invalid", "error"} : CheckCall(n, p, r) /\ check_proposal(n, p, r) =>
                  Proceeds /\ AllPending' /\ Shared' /\ CommitsCurrent
             /\ \A ok \in BOOLEAN :
                  \/ AcceptCall(n, p, ok) /\ accept_proposal(n, p, ok)
                  \/ RejectCall(n, p, ok) /\ reject_proposal(n, p, ok)
                  \/ CheckRejectCall(n, p, ok) /\ check_then_reject(n, p, ok)
                  => Proceeds /\ AllPending' /\ Shared' /\ CommitsCurrent
  <2>0. p \in Proposals
    BY <1>0, AtHandFacts
  <2>1. ASSUME NEW r, CheckCall(n, p, r), check_proposal(n, p, r)
        PROVE  Proceeds /\ AllPending' /\ Shared' /\ CommitsCurrent
    BY Zenon, <1>0, <1>1, <2>0, <2>1, CheckPending DEF Answers
  <2>2. ASSUME NEW ok \in BOOLEAN, AcceptCall(n, p, ok), accept_proposal(n, p, ok)
        PROVE  Proceeds /\ AllPending' /\ Shared' /\ CommitsCurrent
    BY Zenon, <1>0, <1>1, <2>0, <2>2, AcceptShared DEF Answers
  <2>3. ASSUME NEW ok \in BOOLEAN, \/ RejectCall(n, p, ok) /\ reject_proposal(n, p, ok)
                                   \/ CheckRejectCall(n, p, ok) /\ check_then_reject(n, p, ok)
        PROVE  Proceeds /\ AllPending' /\ Shared' /\ CommitsCurrent
    <3>1. Answers(n)
      BY Zenon, <2>0, <2>3 DEF Answers
    <3>2. NoNewEvaluation /\ UNCHANGED <<validated, accepted>>
      BY <1>0, <2>3, QuietEffect
    <3>3. /\ UNCHANGED <<current_state_root, HEAD>>
          /\ UNCHANGED pending_changes \/ pending_changes' = [pending_changes EXCEPT ![n] = NoBatch]
      BY Zenon, <2>3 DEF reject_proposal, check_then_reject, rollback, stateVars
    <3>4. Shared' /\ CommitsCurrent
      BY Zenon, <1>0, <3>2, <3>3 DEF Shared, CommitsCurrent
    <3>5. \A m \in Nodes : /\ pending_changes'[m] = NoBatch \/ pending_changes'[m] = pending_changes[m]
                           /\ current_state_root'[m] = current_state_root[m]
      BY <1>0, <3>3 DEF DataOK
    <3> QED BY <1>0, <1>1, <3>1, <3>2, <3>4, <3>5, PendingQuiet
  <2> QED BY ZenonT(60), <2>1, <2>2, <2>3
<1> QED BY Zenon, <1>1, <1>2, <1>3, <1>4 DEF EngineStep

\* A crash goes back to what is in the database; nothing else outside the engines touches the
\* services' state.
LEMMA EnvironmentShares ==
    ASSUME ServicesInv, ServiceEnvironment
    PROVE  Proceeds /\ DataOK' /\ AllPending' /\ Shared' /\ CommitsCurrent
<1>0. TypeOK /\ DataOK /\ AllPending /\ Shared
  BY DEF ServicesInv, IInv
<1>1. Proceeds /\ DataOK'
  BY <1>0, EnvironmentServes DEF Proceeds, Serves
<1>2. NoNewEvaluation /\ UNCHANGED <<validated, accepted>>
  BY <1>0, EnvironmentServes, QuietEffect
<1>3. ASSUME NEW n \in Nodes, Crash(n)
      PROVE  AllPending' /\ Shared' /\ CommitsCurrent
  <2>1. /\ pending_changes' = [pending_changes EXCEPT ![n] = NoBatch] /\ UNCHANGED HEAD
        /\ current_state_root' = [current_state_root EXCEPT ![n] = HEAD[n]] /\ pc' = [pc EXCEPT ![n] = "stopped"]
    BY Zenon, <1>3 DEF Crash, Stop, Goto
  <2>2. /\ pending_changes'[n] = NoBatch /\ current_state_root'[n] = HEAD[n] /\ pc'[n] = "stopped"
        /\ \A m \in Nodes \ {n} : /\ pending_changes'[m] = pending_changes[m]
                                  /\ current_state_root'[m] = current_state_root[m]
    BY <1>0, <2>1 DEF DataOK, TypeOK
  <2>3. AllPending'
    BY Zenon, <1>0, <1>2, <2>2, PendingQuiet
  <2>4. CommitsCurrent
    BY <2>2 DEF CommitsCurrent
  <2>5. Leader \in Nodes /\ Prefix(HEAD[Leader], HEAD[Leader])
    BY Zenon, <1>0, LeaderFacts, PrefixFacts DEF DataOK
  <2>6. Shared'
    BY <1>0, <1>2, <2>1, <2>2, <2>5 DEF Shared
  <2> QED BY <2>3, <2>4, <2>6
<1>4. CASE \A n \in Nodes : ~Crash(n)
  <2>1. UNCHANGED stateVars
    BY ZenonT(60), <1>4 DEF ServiceEnvironment, SubmitBatch, HandleProposedBatch, Lose, scabbardVars
  <2> QED BY <1>0, <1>1, <1>2, <2>1, StateStays
<1> QED BY <1>1, <1>3, <1>4

\* Every step in which no proposal is built again keeps the invariant, and commits what is
\* under evaluation.
LEMMA ServicesStep ==
    ASSUME ServicesInv, [ScabbardNext]_allVars,
           [\A n \in Nodes : create_proposal(n) /\ batch_queue[n] # <<>> =>
               ExpectedHash(n, Head(batch_queue[n])) \notin created]_allVars
    PROVE  ServicesInv' /\ CommitsCurrent
<1>1. ASSUME Proceeds /\ DataOK' /\ AllPending' /\ Shared' /\ CommitsCurrent
      PROVE  ServicesInv' /\ CommitsCurrent
  BY <1>1, EnginesProceed DEF ServicesInv
<1>2. CASE UNCHANGED allVars
  <2>1. Proceeds
    BY <1>2 DEF allVars, Proceeds
  <2>2. UNCHANGED stateVars /\ UNCHANGED <<state, current, validated, accepted>> /\ UNCHANGED <<batch_queue, batch_history>>
    BY <1>2 DEF allVars, scabbardVars, sharedVars, vars, engineVars, evaluation, historyVars, decisions
  <2>3. NoNewEvaluation
    BY <2>2 DEF NoNewEvaluation, evaluating_proposal
  <2>4. AllPending' /\ Shared' /\ CommitsCurrent
    BY <2>2, <2>3, StateStays DEF ServicesInv
  <2>5. DataOK'
    BY <2>2 DEF ServicesInv, DataOK, stateVars
  <2> QED BY <1>1, <2>1, <2>4, <2>5
<1>3. ASSUME NEW n \in Nodes, EngineStep(n), ~UNCHANGED allVars
      PROVE  ServicesInv' /\ CommitsCurrent
  <2>1. create_proposal(n) /\ batch_queue[n] # <<>> => ExpectedHash(n, Head(batch_queue[n])) \notin created
    BY <1>3
  <2> QED BY <1>1, <1>3, <2>1, EngineShares
<1>4. CASE ServiceEnvironment
  BY <1>1, <1>4, EnvironmentShares
<1> QED BY <1>2, <1>3, <1>4 DEF ScabbardNext

\* Where no proposal ID comes back, the services' states agree: each is a prefix of the
\* coordinator's, whatever is lost, aborted or fails part way, and whoever crashes.
THEOREM ServicesAgree == ScabbardSpec /\ ProposedOnce => []StatesAgree
<1>1. ServicesInv => StatesAgree
  BY SharedAgrees DEF ServicesInv
<1>2. ScabbardSpec /\ ProposedOnce => []ServicesInv
  BY ServicesInit, ServicesStep, PTL DEF ScabbardSpec, ProposedOnce
<1> QED BY <1>1, <1>2, PTL

\* And a commit leads to the state root that the proposal under evaluation is named after:
\* whatever is pending then is that proposal's batch, on the state that it was checked on.
THEOREM CommitsProposal == ScabbardSpec /\ ProposedOnce => CommitsTheProposal
<1>1. CommitsCurrent => [CommitsCurrent]_allVars
  OBVIOUS
<1>2. ScabbardSpec /\ ProposedOnce => [][CommitsCurrent]_allVars
  BY <1>1, ServicesInit, ServicesStep, PTL DEF ScabbardSpec, ProposedOnce
<1> QED BY <1>2 DEF CommitsTheProposal, CommitsCurrent
=============================================================================
