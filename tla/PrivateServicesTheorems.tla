---------------------- MODULE PrivateServicesTheorems ----------------------
(***************************************************************************)
(* Proofs about the private_xo services, for every number of them and      *)
(* every set of batches: their states never fork, and what one commits is  *)
(* the proposal that its engine has agreed on.  As with scabbard, this is  *)
(* proved of the behaviours in which no proposal ID comes back.            *)
(*                                                                         *)
(* A service may miss a commit, when a PROPOSED_BATCH has taken the place  *)
(* of the proposal that is being decided.  From then on it is behind, and  *)
(* no proposal is valid at it and at the others: the last proposal that    *)
(* the coordinator has accepted is the state of each service, or the       *)
(* service has yet to commit it, for good perhaps.                         *)
(***************************************************************************)
EXTENDS PrivateServices, TwoPhaseTheorems

\* What a leaf is tried with, unless it names its provers.
USE SMTT(20), ZenonT(20), SMTT(30)

\* No private_xo service proposes a batch on a state on which it has been proposed before.
XoOnce ==
    \A n \in Nodes : workload.app = "xo" /\ pending_batches[n] # <<>> /\ xo_create_proposal(n) =>
        ExpectedHash(n, Head(pending_batches[n])) \notin created
XoProposedOnce == [][XoOnce]_privateVars

-----------------------------------------------------------------------------
(* The invariant. *)

\* The service that coordinates every proposal.
Leader == CHOOSE c \in Nodes : \A n \in Nodes : c =< n

RootsOK == current_state_root \in [Nodes -> Seq(XoBatches)] /\ pending_changes \in [Nodes -> XoBatches \cup {NoBatch}]

\* n has found p valid and not decided it.
Open(n, p) == p \in validated[n] /\ ~Decided(n, p)

\* Then p is what its batch leads to from the state of n; while n's engine runs, it evaluates p,
\* and no other batch is pending.
Leads(n) ==
    \A p \in Proposals : Open(n, p) =>
        /\ Append(current_state_root[n], Batch(p)) = p
        /\ pc[n] # "stopped" => current[n] = p /\ pending_changes[n] \in {NoBatch, Batch(p)}
        /\ \A q \in Proposals : Open(n, q) => q = p

\* What is evaluated has not been accepted.
Fresh(n) == \A p \in Proposals : evaluating_proposal(n, p) => p \notin accepted[n]

AllLead == \A n \in Nodes : Leads(n) /\ Fresh(n)

\* r is the state of n, or is one batch ahead of it.
Near(n, r) == current_state_root[n] = r \/ Append(current_state_root[n], Batch(r)) = r

\* Nothing has been accepted; or each service is near the last proposal that the coordinator has
\* accepted, and has decided the ones before it.
Common ==
    \/ accepted[Leader] = {} /\ \A n \in Nodes : current_state_root[n] = <<>>
    \/ \E r \in accepted[Leader] :
         \A n \in Nodes : Near(n, r) /\ \A p \in accepted[Leader] : ~Decided(n, p) => p = r

XoInv ==
    IF workload.app = "xo"
    THEN IInv /\ Checks /\ RootsOK /\ Common /\ AllLead
    ELSE \A n \in Nodes : current_state_root[n] = <<>>

-----------------------------------------------------------------------------
(* What follows from the invariant. *)

\* Every service verifies each proposal, so that all have one coordinator.
LEMMA LeaderFacts == Leader \in Nodes /\ \A p \in Proposals : Coordinator(p) = Leader /\ Verifiers[p] = Nodes
<1>1. Leader \in Nodes
  BY PrivateAssumption, Zenon DEF Leader
<1>2. \A p \in Proposals : Verifiers[p] = Nodes
  BY PrivateAssumption
<1>3. \A p \in Proposals : Coordinator(p) = Leader
  BY <1>2 DEF Coordinator, Leader
<1> QED BY <1>1, <1>2, <1>3

\* What Append adds, and takes back.
LEMMA AppendFacts ==
    ASSUME NEW S, NEW s \in Seq(S), NEW b
    PROVE  /\ Append(s, b) \in Seq(S) => b \in S
           /\ Append(s, b) # <<>>
           /\ Len(s) < Len(Append(s, b)) /\ SubSeq(Append(s, b), 1, Len(s)) = s
<1> DEFINE T == S \cup {b}
           a == Append(s, b)
           u == SubSeq(a, 1, Len(s))
<1>1. s \in Seq(T) /\ b \in T /\ Len(s) \in Nat
  <2>1. Len(s) \in Nat /\ s \in [1..Len(s) -> S]
    OBVIOUS
  <2>2. s \in [1..Len(s) -> T]
    BY <2>1
  <2> QED BY <2>1, <2>2
<1> HIDE DEF T
<1>2. a \in Seq(T) /\ Len(a) = Len(s) + 1 /\ a[Len(s) + 1] = b /\ \A i \in 1..Len(s) : a[i] = s[i]
  BY <1>1
<1> HIDE DEF a
<1>3. a \in Seq(S) => b \in S
  <2> SUFFICES ASSUME a \in Seq(S) PROVE b \in S
    OBVIOUS
  <2>1. Len(s) + 1 \in 1..Len(a)
    BY <1>1, <1>2
  <2>2. a[Len(s) + 1] \in S
    BY <2>1
  <2> QED BY <1>2, <2>2
<1>4. u \in Seq(T) /\ Len(u) = Len(s) /\ \A i \in 1..Len(s) : u[i] = a[i]
  BY <1>1, <1>2
<1> HIDE DEF u
<1>5. u = s
  BY <1>1, <1>2, <1>4
<1>6. Len(s) < Len(a) /\ a # <<>>
  BY <1>1, <1>2
<1> QED BY <1>3, <1>5, <1>6 DEF a, u

\* A batch that executes is one of those that the state roots are made of.
LEMMA ExecutesFacts ==
    ASSUME RootsOK, NEW n \in Nodes, NEW b, Executes(n, b)
    PROVE  b \in XoBatches
<1>1. current_state_root[n] \in Seq(XoBatches)
  BY DEF RootsOK
<1>2. Append(current_state_root[n], b) \in Seq(XoBatches)
  BY Zenon, PrivateAssumption DEF Executes, ExpectedHash
<1> QED BY <1>1, <1>2, AppendFacts

\* Services whose states are near one proposal have not forked.
LEMMA NearAgrees ==
    ASSUME RootsOK, Common
    PROVE  XoNeverForks
<1> SUFFICES ASSUME NEW m \in Nodes, NEW n \in Nodes, Len(current_state_root[m]) =< Len(current_state_root[n])
             PROVE  current_state_root[m] = SubSeq(current_state_root[n], 1, Len(current_state_root[m]))
  BY DEF XoNeverForks
<1> DEFINE r == current_state_root[m]
           s == current_state_root[n]
<1>1. r \in Seq(XoBatches) /\ s \in Seq(XoBatches) /\ Len(r) \in Nat /\ Len(s) \in Nat
  BY DEF RootsOK
<1>2. CASE r = s
  BY <1>1, <1>2
<1>3. ASSUME NEW b, Append(r, b) = s
      PROVE  r = SubSeq(s, 1, Len(r))
  BY <1>1, <1>3, AppendFacts
<1>4. ASSUME NEW b, Append(s, b) = r
      PROVE  FALSE
  <2>1. Len(s) < Len(r)
    BY <1>1, <1>4, AppendFacts
  <2> QED BY <1>1, <2>1
<1>5. ASSUME NEW b, Append(s, b) = Append(r, b)
      PROVE  r = s
  <2>1. /\ Len(Append(s, b)) = Len(s) + 1 /\ Len(Append(r, b)) = Len(r) + 1
    BY <1>1
  <2>2. SubSeq(Append(s, b), 1, Len(s)) = s /\ SubSeq(Append(r, b), 1, Len(r)) = r
    BY <1>1, AppendFacts
  <2>3. Len(s) = Len(r)
    BY <1>1, <1>5, <2>1
  <2> QED BY <1>5, <2>2, <2>3
<1>6. CASE \A k \in Nodes : current_state_root[k] = <<>>
  BY <1>2, <1>6
<1>7. ASSUME NEW q, Near(m, q), Near(n, q)
      PROVE  r = SubSeq(s, 1, Len(r))
  <2>1. /\ r = q \/ Append(r, Batch(q)) = q
        /\ s = q \/ Append(s, Batch(q)) = q
    BY <1>7 DEF Near
  <2>2. CASE r = q /\ s = q
    BY <1>2, <2>2
  <2>3. CASE r = q /\ Append(s, Batch(q)) = q
    BY <1>4, <2>3
  <2>4. CASE Append(r, Batch(q)) = q /\ s = q
    BY <1>3, <2>4
  <2>5. CASE Append(r, Batch(q)) = q /\ Append(s, Batch(q)) = q
    BY Zenon, <1>2, <1>5, <2>5
  <2> QED BY Zenon, <2>1, <2>2, <2>3, <2>4, <2>5
<1>8. ASSUME NEW q, \A k \in Nodes : Near(k, q)
      PROVE  r = SubSeq(s, 1, Len(r))
  BY <1>7, <1>8
<1>9. (\A k \in Nodes : current_state_root[k] = <<>>) \/ \E q : \A k \in Nodes : Near(k, q)
  BY Zenon DEF Common
<1> QED BY Zenon, <1>6, <1>8, <1>9

-----------------------------------------------------------------------------
(* The steps. *)

\* What a step may do to the services' states: a commit leads to the proposal under evaluation.
XoCommits == \A n \in Nodes : current_state_root'[n] # current_state_root[n] => current_state_root'[n] = current[n]

\* A stopped engine stays so: a service that has ended does not come back.
StaysStopped == \A m \in Nodes : pc[m] = "stopped" => pc'[m] = "stopped"

\* A step with which m finds nothing else valid: what m has open stays as it is, on a state that
\* stays, or is decided.
LEMMA LeadsQuiet ==
    ASSUME NEW m \in Nodes, Leads(m), EvaluationKept(m), validated'[m] = validated[m],
           accepted[m] \subseteq accepted'[m], rejected[m] \subseteq rejected'[m],
           pc[m] = "stopped" => pc'[m] = "stopped",
           \/ \A p \in Proposals : ~Open(m, p)'
           \/ /\ current_state_root'[m] = current_state_root[m]
              /\ pending_changes'[m] = NoBatch \/ pending_changes'[m] = pending_changes[m]
    PROVE  Leads(m)'
<1>1. \A p \in Proposals : Open(m, p)' => Open(m, p) /\ p \notin accepted'[m] \cup rejected'[m]
  BY Zenon DEF Open, Decided
<1> SUFFICES ASSUME NEW p \in Proposals, Open(m, p)'
             PROVE  /\ Append(current_state_root'[m], Batch(p)) = p
                    /\ pc'[m] # "stopped" => current'[m] = p /\ pending_changes'[m] \in {NoBatch, Batch(p)}
                    /\ \A q \in Proposals : Open(m, q)' => q = p
  BY DEF Leads
<1>2. Open(m, p) /\ p \notin accepted'[m] \cup rejected'[m] /\ p # NoProposal
  BY <1>1, VerifiersAssumption
<1>3. /\ Append(current_state_root[m], Batch(p)) = p
      /\ pc[m] # "stopped" => current[m] = p /\ pending_changes[m] \in {NoBatch, Batch(p)}
      /\ \A q \in Proposals : Open(m, q) => q = p
  BY <1>2 DEF Leads
<1>4. /\ current_state_root'[m] = current_state_root[m]
      /\ pending_changes'[m] = NoBatch \/ pending_changes'[m] = pending_changes[m]
  OBVIOUS
<1>5. ASSUME pc'[m] # "stopped"
      PROVE  current'[m] = p /\ pending_changes'[m] \in {NoBatch, Batch(p)}
  <2>1. current[m] = p /\ pending_changes[m] \in {NoBatch, Batch(p)}
    BY <1>3, <1>5
  <2> QED BY <1>2, <1>4, <1>5, <2>1 DEF EvaluationKept
<1>6. \A q \in Proposals : Open(m, q)' => q = p
  BY Zenon, <1>1, <1>3
<1> QED BY <1>3, <1>4, <1>5, <1>6

\* A step that accepts nothing and commits nothing.
LEMMA CommonQuiet ==
    ASSUME Common, UNCHANGED <<accepted, current_state_root>>, \A n \in Nodes : rejected[n] \subseteq rejected'[n]
    PROVE  Common'
<1>1. \A n \in Nodes, p \in Proposals : Decided(n, p) => Decided(n, p)'
  BY Zenon DEF Decided
<1>2. CASE accepted[Leader] = {} /\ \A n \in Nodes : current_state_root[n] = <<>>
  BY <1>2 DEF Common
<1>3. ASSUME NEW r \in accepted[Leader],
             \A n \in Nodes : Near(n, r) /\ \A p \in accepted[Leader] : ~Decided(n, p) => p = r
      PROVE  Common'
  <2>1. r \in accepted'[Leader]
    OBVIOUS
  <2>2. ASSUME NEW n \in Nodes
        PROVE  Near(n, r)' /\ \A p \in accepted'[Leader] : ~Decided(n, p)' => p = r
    BY <1>3 DEF Near, Decided
  <2> QED BY Zenon, <2>1, <2>2 DEF Common
<1> QED BY Zenon, <1>2, <1>3 DEF Common

\* Nor does it start an evaluation: changes that are pending where something is open stay as
\* they are or are dropped.
LEMMA XoQuiet ==
    ASSUME TypeOK, Common, AllLead, EngineMoves, StaysStopped, NoNewEvaluation,
           UNCHANGED <<validated, accepted, current_state_root>>,
           \A m \in Nodes : \/ pending_changes'[m] = NoBatch \/ pending_changes'[m] = pending_changes[m]
                            \/ \A p \in Proposals : ~Open(m, p)
    PROVE  Common' /\ AllLead' /\ XoCommits
<1>1. \A n \in Nodes : accepted[n] \subseteq accepted'[n] /\ rejected[n] \subseteq rejected'[n] /\ EvaluationKept(n)
  BY Zenon, HistoryGrows, StepKeeps
<1>2. Common' /\ XoCommits
  BY <1>1, CommonQuiet DEF XoCommits
<1>3. ASSUME NEW m \in Nodes
      PROVE  Leads(m)'
  <2>1. (\A p \in Proposals : ~Open(m, p)) => \A p \in Proposals : ~Open(m, p)'
    BY Zenon, <1>1 DEF Open, Decided
  <2>2. Leads(m) /\ validated'[m] = validated[m] /\ current_state_root'[m] = current_state_root[m]
    BY DEF AllLead
  <2>3. pc[m] = "stopped" => pc'[m] = "stopped"
    BY DEF StaysStopped
  <2>4. \/ \A p \in Proposals : ~Open(m, p)'
        \/ /\ current_state_root'[m] = current_state_root[m]
           /\ pending_changes'[m] = NoBatch \/ pending_changes'[m] = pending_changes[m]
    BY Zenon, <2>1, <2>2
  <2> QED BY Zenon, <1>1, <2>2, <2>3, <2>4, LeadsQuiet
<1>4. ASSUME NEW m \in Nodes
      PROVE  Fresh(m)'
  BY DEF AllLead, Fresh, NoNewEvaluation
<1> QED BY Zenon, <1>2, <1>3, <1>4 DEF AllLead
\* check_proposal: what n finds valid is what its batch leads to from the state of n, where
\* nothing else is open.
LEMMA XoChecks ==
    ASSUME IInv, Checks, RootsOK, Common, AllLead, StaysStopped, NEW n \in Nodes, NEW p \in Proposals, NEW r,
           CheckCall(n, p, r), xo_check_proposal(n, p, r)
    PROVE  RootsOK' /\ Common' /\ AllLead' /\ XoCommits
<1>0. TypeOK /\ DecisionsFollow(p) /\ Coordinator(p) \in Nodes /\ n \in Verifiers[p]
  BY LeaderFacts DEF IInv
<1>1. /\ UNCHANGED current_state_root
      /\ \/ UNCHANGED pending_changes
         \/ Executes(n, Batch(p)) /\ pending_changes' = [pending_changes EXCEPT ![n] = Batch(p)]
      /\ r = "valid" => /\ Append(current_state_root[n], Batch(p)) = p
                        /\ pending_changes' = [pending_changes EXCEPT ![n] = Batch(p)]
  <2>1. CASE pending_proposal[n] = p
    <3>1. CASE Executes(n, Batch(p))
      BY <2>1, <3>1 DEF xo_check_proposal, propose_change, ExpectedHash
    <3>2. CASE ~Executes(n, Batch(p))
      <4>1. r = "error" /\ UNCHANGED current_state_root
        BY Zenon, <2>1, <3>2 DEF xo_check_proposal
      <4>2. pending_changes' = [pending_changes EXCEPT ![n] = @]
        BY <2>1, <3>2 DEF xo_check_proposal, propose_change
      <4> QED BY <4>1, <4>2 DEF RootsOK
    <3> QED BY <3>1, <3>2
  <2>2. CASE pending_proposal[n] # p
    BY <2>2 DEF xo_check_proposal
  <2> QED BY <2>1, <2>2
<1>2. RootsOK'
  <2>1. Executes(n, Batch(p)) => Batch(p) \in XoBatches
    BY ExecutesFacts
  <2> QED BY <1>1, <2>1 DEF RootsOK
<1>3. /\ UNCHANGED accepted /\ p \notin validated[n] /\ ~EvaluatingOther(n, p)
      /\ \/ r = "error" /\ UNCHANGED <<state, current, validated>>
         \/ r # "error" /\ Become(n, "EvaluatingProposal", p) /\ Validate(n, p, r)
  BY Zenon, CheckEffect, CheckCallChecks, CheckedAlone
<1>4. EngineMoves /\ pc[n] # "stopped"
  <2>1. Answers(n)
    BY Zenon DEF Answers
  <2> QED BY Zenon, <2>1, StepRuns DEF EngineMoves
<1>5. \A m \in Nodes : accepted[m] \subseteq accepted'[m] /\ rejected[m] \subseteq rejected'[m] /\ EvaluationKept(m)
  BY Zenon, <1>0, <1>4, HistoryGrows, StepKeeps
<1>6. Common' /\ XoCommits
  BY <1>1, <1>3, <1>5, CommonQuiet DEF XoCommits
<1>7. p \notin accepted[n]
  BY Zenon, <1>0, <1>3 DEF DecisionsFollow
<1>8. ASSUME NEW m \in Nodes, m # n
      PROVE  Leads(m)' /\ Fresh(m)'
  <2>1. /\ validated'[m] = validated[m] /\ state'[m] = state[m] /\ current'[m] = current[m]
        /\ pending_changes'[m] = pending_changes[m] /\ current_state_root'[m] = current_state_root[m]
    BY <1>0, <1>1, <1>3, <1>8 DEF Become, Validate, TypeOK, RootsOK
  <2>2. Leads(m) /\ Fresh(m) /\ (pc[m] = "stopped" => pc'[m] = "stopped")
    BY DEF AllLead, StaysStopped
  <2>3. Leads(m)'
    BY <1>5, <2>1, <2>2, LeadsQuiet
  <2>4. Fresh(m)'
    BY <1>3, <2>1, <2>2 DEF Fresh, evaluating_proposal
  <2> QED BY <2>3, <2>4
<1>9. \A q \in Proposals : ~Open(n, q)
  <2> SUFFICES ASSUME NEW q \in Proposals, Open(n, q) PROVE FALSE
    OBVIOUS
  <2>1. current[n] = q /\ q # p /\ q # NoProposal
    BY <1>3, <1>4, VerifiersAssumption DEF AllLead, Leads, Open
  <2> QED BY <1>0, <1>3, <2>1 DEF TypeOK, EvaluatingOther
<1>10. Leads(n)'
  <2>1. CASE UNCHANGED validated
    <3>1. \A q \in Proposals : ~Open(n, q)'
      BY Zenon, <1>5, <1>9, <2>1 DEF Open, Decided
    <3> QED BY Zenon, <3>1 DEF Leads
  <2>2. CASE r = "valid" /\ ~UNCHANGED validated
    <3>1. /\ validated'[n] = validated[n] \cup {p} /\ current'[n] = p
          /\ pending_changes'[n] = Batch(p) /\ Append(current_state_root'[n], Batch(p)) = p
      BY <1>0, <1>1, <1>3, <2>2 DEF Become, Validate, TypeOK, RootsOK
    <3>2. \A q \in Proposals : Open(n, q)' => q = p
      BY Zenon, <1>5, <1>9, <3>1 DEF Open, Decided
    <3> QED BY <3>1, <3>2 DEF Leads
  <2> QED BY Zenon, <1>3, <2>1, <2>2 DEF Validate
<1>11. Fresh(n)'
  <2>1. ASSUME NEW q \in Proposals, evaluating_proposal(n, q)'
        PROVE  q \notin accepted'[n]
    <3>1. CASE UNCHANGED <<state, current>>
      BY <1>3, <2>1, <3>1 DEF AllLead, Fresh, evaluating_proposal
    <3>2. CASE Become(n, "EvaluatingProposal", p)
      <4>1. q = p
        BY <1>0, <2>1, <3>2 DEF Become, evaluating_proposal, TypeOK
      <4> QED BY <1>3, <1>7, <4>1
    <3> QED BY Zenon, <1>3, <3>1, <3>2
  <2> QED BY Zenon, <2>1 DEF Fresh
<1> QED BY Zenon, <1>2, <1>6, <1>8, <1>10, <1>11 DEF AllLead
\* After the step, p is the only proposal that the coordinator has accepted and another has not
\* decided, and the states before the step are near it.
AllNear(p) == \A m \in Nodes : Near(m, p) /\ \A q \in accepted'[Leader] : ~Decided(m, q)' => q = p

\* accept_proposal: what n commits, if it does, is p, which every service has open or has
\* decided together with the coordinator.
LEMMA XoAccepts ==
    ASSUME IInv, IInv', RootsOK, Common, AllLead, StaysStopped, NEW n \in Nodes, NEW p \in Proposals,
           AcceptCall(n, p, TRUE), xo_accept_proposal(n, p)
    PROVE  RootsOK' /\ Common' /\ AllLead' /\ XoCommits
<1>0. /\ TypeOK /\ MetOnce(p) /\ \A q \in Proposals : DecisionsFollow(q) /\ DecisionsFollow(q)'
      /\ Leader \in Nodes /\ \A q \in Proposals : Coordinator(q) = Leader /\ Verifiers[q] = Nodes
  BY LeaderFacts DEF IInv
<1>1. /\ evaluating_proposal(n, p) /\ p \in validated[n]
      /\ n # Leader => p \in accepted[Leader]
      /\ NoNewEvaluation /\ UNCHANGED validated
      /\ accepted' = [accepted EXCEPT ![n] = @ \cup {p}]
  BY Zenon, <1>0, AcceptEffect
<1>2. EngineMoves /\ pc[n] # "stopped"
  <2>1. Answers(n)
    BY Zenon DEF Answers
  <2> QED BY Zenon, <2>1, StepRuns DEF EngineMoves
<1>3. \A m \in Nodes : accepted[m] \subseteq accepted'[m] /\ rejected[m] \subseteq rejected'[m] /\ EvaluationKept(m)
  BY Zenon, <1>0, <1>2, HistoryGrows, StepKeeps
<1>4. Become(n, "Idle", NoProposal)
  BY Zenon DEF AcceptCall, VerifiedByAll, ApplyResult, complete_coordination
<1>5. ~Decided(n, p) /\ Open(n, p)
  <2>1. p \notin accepted[n]
    BY <1>1 DEF AllLead, Fresh
  <2>2. p \notin rejected[n]
    <3>1. CASE n = Leader
      BY Zenon, <1>0, <1>1, <3>1 DEF MetOnce, Decided
    <3>2. CASE n # Leader
      BY Zenon, <1>0, <1>1, <3>2 DEF DecisionsFollow
    <3> QED BY <3>1, <3>2
  <2> QED BY <1>1, <2>1, <2>2 DEF Decided, Open
<1>6. /\ Append(current_state_root[n], Batch(p)) = p /\ current[n] = p
      /\ pending_changes[n] \in {NoBatch, Batch(p)} /\ \A q \in Proposals : Open(n, q) => q = p
  BY <1>2, <1>5 DEF AllLead, Leads
<1>7. /\ current_state_root'[n] = current_state_root[n] \/ current_state_root'[n] = p
      /\ \A m \in Nodes \ {n} : /\ pending_changes'[m] = pending_changes[m]
                                /\ current_state_root'[m] = current_state_root[m]
      /\ RootsOK'
  <2>1. CASE UNCHANGED <<pending_changes, current_state_root>>
    BY <2>1 DEF RootsOK
  <2>2. CASE commit(n) /\ Changed(n)
    <3>1. /\ pending_changes' = [pending_changes EXCEPT ![n] = NoBatch]
          /\ current_state_root' = [current_state_root EXCEPT ![n] = Append(@, pending_changes[n])]
          /\ pending_changes[n] = Batch(p) /\ pending_changes[n] \in XoBatches
      BY Zenon, <1>6, <2>2 DEF commit, Changed, RootsOK
    <3>2. Append(current_state_root[n], pending_changes[n]) = p
      BY <1>6, <3>1
    <3>3. current_state_root[n] \in Seq(XoBatches)
      BY DEF RootsOK
    <3>4. p \in Seq(XoBatches)
      <4>1. \A s \in Seq(XoBatches), b \in XoBatches : Append(s, b) \in Seq(XoBatches)
        OBVIOUS
      <4>2. Append(current_state_root[n], pending_changes[n]) \in Seq(XoBatches)
        BY Zenon, <3>1, <3>3, <4>1
      <4> QED BY <3>2, <4>2
    <3>5. current_state_root' = [current_state_root EXCEPT ![n] = p]
      BY <3>1, <3>2 DEF RootsOK
    <3> QED BY <3>1, <3>4, <3>5 DEF RootsOK
  <2>3. CASE commit(n) /\ ~Changed(n)
    <3>1. pending_changes' = [pending_changes EXCEPT ![n] = NoBatch] /\ UNCHANGED current_state_root
      BY <2>3 DEF commit, RootsOK
    <3> QED BY <3>1 DEF RootsOK
  <2> QED BY Zenon, <2>1, <2>2, <2>3 DEF xo_accept_proposal
<1>8. XoCommits
  BY <1>6, <1>7 DEF XoCommits
<1>9. \A m \in Nodes, q \in Proposals : Decided(m, q) => Decided(m, q)'
  BY Zenon, <1>3 DEF Decided
<1>10. ASSUME NEW m \in Nodes
       PROVE  Leads(m)'
  <2>1. Leads(m) /\ (pc[m] = "stopped" => pc'[m] = "stopped")
    BY DEF AllLead, StaysStopped
  <2>2. CASE m # n
    BY <1>1, <1>3, <1>7, <2>1, <2>2, LeadsQuiet
  <2>3. CASE m = n
    <3>1. p \in accepted'[n]
      BY <1>0, <1>1 DEF TypeOK
    <3>2. \A q \in Proposals : ~Open(n, q)'
      BY Zenon, <1>1, <1>6, <1>9, <3>1 DEF Open, Decided
    <3> QED BY ZenonT(60), <2>3, <3>2 DEF Leads
  <2> QED BY <2>2, <2>3
<1>11. ASSUME NEW m \in Nodes
       PROVE  Fresh(m)'
  <2>1. ASSUME NEW q \in Proposals, evaluating_proposal(m, q)'
        PROVE  q \notin accepted'[m]
    <3>1. evaluating_proposal(m, q) /\ q # NoProposal
      BY ZenonT(60), <1>1, <2>1, VerifiersAssumption DEF NoNewEvaluation
    <3>2. m # n
      BY <1>0, <1>4, <2>1, <3>1 DEF Become, evaluating_proposal, TypeOK
    <3> QED BY Zenon, <1>0, <1>1, <3>1, <3>2 DEF AllLead, Fresh, TypeOK
  <2> QED BY Zenon, <2>1 DEF Fresh
<1>12. ASSUME AllNear(p)
       PROVE  Common'
  <2>1. p \in accepted'[Leader]
    BY <1>0, <1>1 DEF TypeOK
  <2>2. ASSUME NEW m \in Nodes
        PROVE  Near(m, p)'
    BY <1>7, <1>12 DEF AllNear, Near
  <2> QED BY ZenonT(60), <1>12, <2>1, <2>2 DEF AllNear, Common
<1>13. ASSUME n = Leader
       PROVE  Common'
  <2>1. ASSUME NEW m \in Nodes
        PROVE  Near(m, p) /\ \A q \in accepted'[Leader] : ~Decided(m, q)' => q = p
    <3>1. p \in accepted'[Leader]
      BY <1>0, <1>1, <1>13 DEF TypeOK
    <3>2. p \in validated[m]
      BY <1>0, <1>1, <3>1 DEF DecisionsFollow
    <3>3. ~Decided(m, p)
      BY Zenon, <1>0, <1>5, <1>13 DEF DecisionsFollow, Decided
    <3>4. Open(m, p)
      BY <3>2, <3>3 DEF Open
    <3>5. Near(m, p) /\ \A q \in Proposals : Open(m, q) => q = p
      BY Zenon, <3>4 DEF AllLead, Leads, Near
    <3>6. ASSUME NEW q \in accepted'[Leader], ~Decided(m, q)', q # p
          PROVE  FALSE
      <4>1. q \in accepted[Leader] /\ q \in Proposals
        BY ZenonT(60), <1>0, <1>1, <1>13, <3>6 DEF TypeOK
      <4>2. q \in validated[m] /\ ~Decided(m, q)
        BY <1>0, <1>9, <3>6, <4>1 DEF DecisionsFollow
      <4> QED BY Zenon, <3>5, <3>6, <4>1, <4>2 DEF Open
    <3> QED BY ZenonT(60), <3>5, <3>6
  <2>2. AllNear(p)
    BY Zenon, <2>1 DEF AllNear
  <2> QED BY Zenon, <1>12, <2>2
<1>14. ASSUME n # Leader
       PROVE  Common'
  <2>1. accepted'[Leader] = accepted[Leader] /\ p \in accepted[Leader] /\ accepted[Leader] \subseteq Proposals
    BY <1>0, <1>1, <1>14 DEF TypeOK
  <2>2. PICK r \in accepted[Leader] :
          \A m \in Nodes : Near(m, r) /\ \A q \in accepted[Leader] : ~Decided(m, q) => q = r
    BY Zenon, <2>1 DEF Common
  <2>3. r = p
    BY Zenon, <1>5, <2>1, <2>2
  <2>4. AllNear(p)
    BY <1>9, <2>1, <2>2, <2>3 DEF AllNear
  <2> QED BY ZenonT(60), <1>12, <2>4
<1> QED BY Zenon, <1>7, <1>8, <1>10, <1>11, <1>13, <1>14 DEF AllLead

\* An engine's step starts no other engine.
LEMMA StepStays ==
    ASSUME TypeOK, NEW n \in Nodes, NoCall(n) \/ Answers(n) \/ \E p \in Proposals : Creates(n, p)
    PROVE  StaysStopped
<1>1. pc[n] # "stopped" /\ \E to : Goto(n, to)
  BY Zenon, StepRuns
<1> QED BY <1>1 DEF StaysStopped, Goto, TypeOK

\* What the engine is at work on is a proposal.
LEMMA AtHandFacts ==
    ASSUME TypeOK, NEW n \in Nodes
    PROVE  AtHand(n) \subseteq Proposals
<1>1. ASSUME NEW c \in Channels
      PROVE  /\ msgs[c] # <<>> => Head(msgs[c]).id \in Proposals
             /\ updates[c] # <<>> => Head(updates[c]).id \in Proposals \cup {NoProposal}
  <2>1. msgs[c] \in Seq(ConsensusMsg) /\ updates[c] \in Seq(ProposalUpdate)
    BY DEF TypeOK
  <2>2. /\ msgs[c] # <<>> => Head(msgs[c]) \in ConsensusMsg
        /\ updates[c] # <<>> => Head(updates[c]) \in ProposalUpdate
    BY <2>1
  <2> QED BY <2>2 DEF ConsensusMsg, ProposalUpdate
<1>2. current[n] \in Proposals \cup {NoProposal} /\ \A i \in DOMAIN proposal_backlog[n] : proposal_backlog[n][i] \in Proposals
  BY DEF TypeOK
<1> QED BY <1>1, <1>2 DEF AtHand

\* What a step is shown to keep.
Kept == RootsOK' /\ Common' /\ AllLead' /\ XoCommits

\* create_proposal is called where nothing is open, so that it may execute another batch.
LEMMA XoCreates ==
    ASSUME TypeOK, RootsOK, Common, AllLead, NEW n \in Nodes, xo_create_proposal(n),
           pending_batches[n] # <<>> => ExpectedHash(n, Head(pending_batches[n])) \notin created
    PROVE  Proceeds /\ Kept
<1> DEFINE b == Head(pending_batches[n])
<1>1. \/ CreateProposal(n, NoProposal) /\ UNCHANGED <<pending_changes, current_state_root>>
      \/ /\ ~Executes(n, b) /\ CreateProposalFails(n, NoProposal, {})
         /\ propose_change(n, b) /\ UNCHANGED current_state_root
      \/ /\ pending_batches[n] # <<>> /\ Executes(n, b) /\ CreateProposal(n, ExpectedHash(n, b))
         /\ propose_change(n, b) /\ UNCHANGED current_state_root
  BY Zenon DEF xo_create_proposal, xoVars
<1>2. Executes(n, b) => ExpectedHash(n, b) \in Proposals /\ b \in XoBatches
  BY PrivateAssumption, ExecutesFacts DEF Executes
<1>3. Answers(n) \/ \E p \in Proposals \ created : Creates(n, p)
  BY Zenon, <1>1, <1>2 DEF Answers, Creates
<1>4. \E p : CreateProposal(n, p) \/ CreateProposalFails(n, p, {})
  BY Zenon, <1>1
<1>5. Proceeds /\ EngineMoves /\ StaysStopped
  <2>1. StaysStopped
    BY Zenon, <1>3, StepStays
  <2> QED BY Zenon, <1>3, <2>1 DEF Proceeds, EngineMoves
<1>6. UNCHANGED current_state_root
  BY Zenon, <1>1
<1>7. /\ pending_changes' \in [Nodes -> XoBatches \cup {NoBatch}]
      /\ \A m \in Nodes \ {n} : pending_changes'[m] = pending_changes[m]
  <2>1. CASE UNCHANGED pending_changes
    BY <2>1 DEF RootsOK
  <2>2. CASE propose_change(n, b)
    <3>1. PICK c \in XoBatches \cup {NoBatch} : pending_changes' = [pending_changes EXCEPT ![n] = c]
      <4>1. CASE Executes(n, b)
        BY Zenon, <1>2, <2>2, <4>1 DEF propose_change
      <4>2. CASE ~Executes(n, b)
        BY Zenon, <2>2, <4>2 DEF propose_change, RootsOK
      <4> QED BY <4>1, <4>2
    <3> QED BY <3>1 DEF RootsOK
  <2> QED BY Zenon, <1>1, <2>1, <2>2
<1>8. state[n] = "Idle" /\ pc[n] # "stopped"
  BY Zenon, <1>4, <1>3, StepRuns DEF CreateProposal, CreateProposalFails
<1>9. ASSUME NEW p \in Proposals, Open(n, p)
      PROVE  FALSE
  <2>1. current[n] = p /\ p # NoProposal
    BY <1>8, <1>9, VerifiersAssumption DEF AllLead, Leads
  <2> QED BY <1>8, <2>1 DEF TypeOK
<1>10. NoNewEvaluation /\ UNCHANGED <<validated, accepted>>
  BY Zenon, <1>4, CreateEffect
<1>11. \A m \in Nodes : \/ pending_changes'[m] = NoBatch \/ pending_changes'[m] = pending_changes[m]
                        \/ \A p \in Proposals : ~Open(m, p)
  BY Zenon, <1>7, <1>9
<1>12. Common' /\ AllLead' /\ XoCommits
  BY <1>5, <1>6, <1>10, <1>11, XoQuiet
<1>13. RootsOK'
  BY <1>6, <1>7 DEF RootsOK
<1> QED BY <1>5, <1>12, <1>13 DEF Kept

\* Where nothing is evaluated anew or accepted, a service at most drops its pending changes.
LEMMA XoIdles ==
    ASSUME TypeOK, RootsOK, Common, AllLead, EngineMoves, StaysStopped, NEW n \in Nodes,
           \/ NoCall(n) \/ Disturbances \/ UNCHANGED vars
           \/ \E p, ok : RejectCall(n, p, ok) \/ CheckRejectCall(n, p, ok),
           UNCHANGED current_state_root, UNCHANGED pending_changes \/ rollback(n)
    PROVE  Kept
<1>1. NoNewEvaluation /\ UNCHANGED <<validated, accepted>>
  BY Zenon, QuietEffect
<1>2. /\ RootsOK'
      /\ \A m \in Nodes : pending_changes'[m] = NoBatch \/ pending_changes'[m] = pending_changes[m]
  BY DEF RootsOK, rollback
<1>3. \A m \in Nodes : \/ pending_changes'[m] = NoBatch \/ pending_changes'[m] = pending_changes[m]
                       \/ \A p \in Proposals : ~Open(m, p)
  BY Zenon, <1>2
<1>4. Common' /\ AllLead' /\ XoCommits
  BY <1>1, <1>3, XoQuiet
<1> QED BY <1>2, <1>4 DEF Kept

\* A step of an engine of private_xo, with what its manager does.
LEMMA XoEngine ==
    ASSUME IInv, Checks, RootsOK, Common, AllLead, workload.app = "xo", NEW n \in Nodes, EngineStep(n),
           pending_batches[n] # <<>> /\ xo_create_proposal(n) =>
               ExpectedHash(n, Head(pending_batches[n])) \notin created
    PROVE  IInv' /\ Checks' /\ Kept
<1>0. TypeOK /\ AtHand(n) \subseteq Proposals
  BY AtHandFacts DEF IInv
<1>1. ASSUME NoCall(n) \/ Answers(n)
      PROVE  IInv' /\ Checks' /\ EngineMoves /\ StaysStopped
  <2>1. Proceeds /\ EngineMoves
    BY Zenon, <1>1 DEF Proceeds, EngineMoves
  <2>2. StaysStopped
    BY Zenon, <1>0, <1>1, StepStays
  <2> QED BY <2>1, <2>2, EnginesProceed
<1>2. CASE NoCall(n) /\ UNCHANGED <<xoVars, counterVars>>
  <2>1. UNCHANGED <<current_state_root, pending_changes>>
    BY <1>2 DEF xoVars
  <2> QED BY Zenon, <1>0, <1>1, <1>2, <2>1, XoIdles
<1>3. CASE xo_create_proposal(n)
  <2>1. Proceeds /\ Kept
    BY Zenon, <1>0, <1>3, XoCreates
  <2> QED BY <2>1, EnginesProceed
<1>4. ASSUME NEW p \in Proposals, NEW r, CheckCall(n, p, r) /\ xo_check_proposal(n, p, r)
      PROVE  IInv' /\ Checks' /\ Kept
  <2>1. Answers(n)
    BY Zenon, <1>4 DEF Answers
  <2> QED BY <1>1, <1>4, <2>1, XoChecks DEF Kept
<1>5. ASSUME NEW p \in Proposals, AcceptCall(n, p, TRUE) /\ xo_accept_proposal(n, p)
      PROVE  IInv' /\ Checks' /\ Kept
  <2>1. Answers(n)
    BY ZenonT(60), <1>5 DEF Answers
  <2> QED BY Zenon, <1>1, <1>5, <2>1, XoAccepts DEF Kept
<1>6. ASSUME NEW p \in Proposals, RejectCall(n, p, TRUE) \/ CheckRejectCall(n, p, TRUE), xo_reject_proposal(n, p)
      PROVE  IInv' /\ Checks' /\ Kept
  <2>1. Answers(n)
    BY Zenon, <1>6 DEF Answers
  <2>2. UNCHANGED current_state_root /\ (UNCHANGED pending_changes \/ rollback(n))
    BY Zenon, <1>6 DEF xo_reject_proposal
  <2>3. IInv' /\ Checks' /\ EngineMoves /\ StaysStopped
    BY <1>1, <2>1
  <2>4. \E q, ok : RejectCall(n, q, ok) \/ CheckRejectCall(n, q, ok)
    BY Zenon, <1>6
  <2> QED BY <1>0, <2>2, <2>3, <2>4, XoIdles
<1>7. \/ NoCall(n) /\ UNCHANGED <<xoVars, counterVars>>
      \/ XoCalls(n)
  BY DEF EngineStep
<1>8. CASE XoCalls(n)
  BY Zenon, <1>0, <1>3, <1>4, <1>5, <1>6, <1>8 DEF XoCalls, xo_check_then_reject
<1> QED BY Zenon, <1>2, <1>7, <1>8

\* The other steps leave the states alone; the engines too, but for timeouts and the end of a service.
LEMMA XoSurroundings ==
    ASSUME NEW n \in Nodes,
           \/ main(n) \/ handle_authorized_msg(n) \/ handle_circuit_msg(n) \/ Shutdown(n)
           \/ \E i \in inputs : i[1] = n /\ Input(n, i[2])
           \/ \E s \in Others(n) : HandleDirectMsg(s, n)
           \/ TimeoutStep(n) \/ UNCHANGED privateVars
    PROVE  /\ UNCHANGED workload
           /\ UNCHANGED <<pending_changes, current_state_root>>
           /\ UNCHANGED vars \/ TimeoutElapses(n) \/ Stop(n)
<1> USE DEF xoVars, LoopEnds
<1>1. CASE main(n) \/ handle_authorized_msg(n)
  BY Zenon, <1>1 DEF main, handle_authorized_msg
<1>2. CASE handle_circuit_msg(n) \/ Shutdown(n)
  BY Zenon, <1>2 DEF handle_circuit_msg, Shutdown
<1>3. ASSUME NEW x, Input(n, x)
      PROVE  UNCHANGED <<workload, vars, pending_changes, current_state_root>>
  BY Zenon, <1>3 DEF Input, batches, handle_connection
<1>4. ASSUME NEW s, HandleDirectMsg(s, n)
      PROVE  UNCHANGED <<workload, vars, pending_changes, current_state_root>>
  BY Zenon, <1>4 DEF HandleDirectMsg, xo_handle_direct_msg, counter_handle_direct_msg
<1>5. CASE TimeoutStep(n)
  BY Zenon, <1>5 DEF TimeoutStep, serviceVars
<1>6. CASE UNCHANGED privateVars
  BY Zenon, <1>6 DEF privateVars, serviceVars
<1> QED BY Zenon, <1>1, <1>2, <1>3, <1>4, <1>5, <1>6

-----------------------------------------------------------------------------
(* The theorems. *)

\* At the start every state is empty, and nothing has been proposed.
LEMMA XoInit == PrivateInit => XoInv
<1> SUFFICES ASSUME PrivateInit PROVE XoInv
  OBVIOUS
<1>1. IInv /\ Checks
  BY InvInit, ChecksInit DEF PrivateInit
<1>2. \A n \in Nodes : current_state_root[n] = <<>>
  BY Zenon DEF PrivateInit
<1>3. RootsOK
  BY DEF PrivateInit, RootsOK
<1>4. \A n \in Nodes : validated[n] = {} /\ accepted[n] = {}
  BY Zenon DEF PrivateInit, Init
<1>5. Common
  BY Zenon, <1>2, <1>4, LeaderFacts DEF Common
<1>6. ASSUME NEW n \in Nodes
      PROVE  Leads(n) /\ Fresh(n)
  BY Zenon, <1>4 DEF Leads, Fresh, Open
<1> QED BY Zenon, <1>1, <1>2, <1>3, <1>5, <1>6 DEF XoInv, AllLead

\* Every step in which no batch is proposed again on the same state keeps the invariant.
LEMMA XoStep ==
    ASSUME XoInv, [PrivateNext]_privateVars, [XoOnce]_privateVars
    PROVE  XoInv' /\ XoCommits
<1>1. ASSUME NEW n \in Nodes, EngineStep(n), XoOnce
      PROVE  XoInv' /\ XoCommits
  <2>1. UNCHANGED workload
    BY Zenon, <1>1 DEF EngineStep
  <2>2. CASE workload.app = "xo"
    <3>1. IInv /\ Checks /\ RootsOK /\ Common /\ AllLead
      BY Zenon, <2>2 DEF XoInv
    <3>2. IInv' /\ Checks' /\ Kept
      BY Zenon, <1>1, <2>2, <3>1, XoEngine DEF XoOnce
    <3> QED BY <2>1, <2>2, <3>2 DEF XoInv, Kept
  <2>3. CASE workload.app # "xo"
    <3>1. UNCHANGED current_state_root
      BY Zenon, <1>1, <2>3 DEF EngineStep, xoVars
    <3> QED BY <2>1, <2>3, <3>1 DEF XoInv, XoCommits
  <2> QED BY <2>2, <2>3
<1>2. ASSUME NEW n \in Nodes, UNCHANGED <<workload, pending_changes, current_state_root>>,
             UNCHANGED vars \/ TimeoutElapses(n) \/ Stop(n)
      PROVE  XoInv' /\ XoCommits
  <2>1. CASE workload.app = "xo"
    <3>1. IInv /\ Checks /\ RootsOK /\ Common /\ AllLead /\ TypeOK
      BY Zenon, <2>1 DEF XoInv, IInv
    <3>2. UNCHANGED vars \/ Disturbances
      BY Zenon, <1>2 DEF Disturbances
    <3>3. StaysStopped
      BY <1>2, <3>1 DEF StaysStopped, vars, TimeoutElapses, Stop, Goto, TypeOK
    <3>4. IInv' /\ Checks'
      BY Zenon, <3>1, <3>2, EnginesProceed DEF Proceeds
    <3>5. EngineMoves
      BY Zenon, <3>2 DEF EngineMoves
    <3>6. Kept
      BY Zenon, <1>2, <3>1, <3>2, <3>3, <3>5, XoIdles
    <3> QED BY <1>2, <2>1, <3>4, <3>6 DEF XoInv, Kept
  <2>2. CASE workload.app # "xo"
    BY <1>2, <2>2 DEF XoInv, XoCommits
  <2> QED BY <2>1, <2>2
<1>3. CASE UNCHANGED privateVars
  <2>1. PICK n \in Nodes : TRUE
    BY LeaderFacts
  <2> QED BY Zenon, <1>2, <1>3, <2>1, XoSurroundings
<1>4. CASE PrivateNext /\ XoOnce
  BY Zenon, <1>1, <1>2, <1>4, XoSurroundings DEF PrivateNext
<1> QED BY <1>3, <1>4

\* The states of the private_xo services never fork, however the engines' votes, the timeouts, the
\* PROPOSED_BATCH messages and the ends of services interleave: of two services one is at most behind.
THEOREM XoServicesNeverFork == PrivateSpec /\ XoProposedOnce => []XoNeverForks
<1>1. XoInv => XoNeverForks
  <2>1. CASE \A n \in Nodes : current_state_root[n] = <<>>
    <3>1. <<>> = SubSeq(<<>>, 1, Len(<<>>))
      OBVIOUS
    <3> QED BY Zenon, <2>1, <3>1 DEF XoNeverForks
  <2> QED BY Zenon, <2>1, NearAgrees DEF XoInv
<1>2. PrivateSpec /\ XoProposedOnce => []XoInv
  BY XoInit, XoStep, PTL DEF PrivateSpec, XoProposedOnce
<1> QED BY <1>1, <1>2, PTL

\* A step of the services of private_xo leaves the counters alone.
LEMMA XoLeavesCounters ==
    ASSUME workload.app = "xo", [PrivateNext]_privateVars
    PROVE  UNCHANGED <<workload, counter>>
<1> USE DEF counterVars, LoopEnds
<1>1. CASE UNCHANGED privateVars
  BY Zenon, <1>1 DEF privateVars, serviceVars
<1>2. ASSUME NEW n \in Nodes, main(n) \/ handle_authorized_msg(n) \/ handle_circuit_msg(n) \/ Shutdown(n)
      PROVE  UNCHANGED <<workload, counter>>
  BY Zenon, <1>2 DEF main, handle_authorized_msg, handle_circuit_msg, Shutdown
<1>3. ASSUME NEW n \in Nodes, NEW x, Input(n, x)
      PROVE  UNCHANGED <<workload, counter>>
  BY Zenon, <1>3 DEF Input, batches
<1>4. ASSUME NEW n \in Nodes, NEW s, HandleDirectMsg(s, n)
      PROVE  UNCHANGED <<workload, counter>>
  BY Zenon, <1>4 DEF HandleDirectMsg, xo_handle_direct_msg
<1>5. ASSUME NEW n \in Nodes, EngineStep(n) \/ TimeoutStep(n)
      PROVE  UNCHANGED <<workload, counter>>
  BY <1>5 DEF EngineStep, TimeoutStep, serviceVars
<1> QED BY Zenon, <1>1, <1>2, <1>3, <1>4, <1>5 DEF PrivateNext

\* A commit of a private_xo service leads to the state that the proposal under evaluation is
\* named after, whatever was executed and whichever proposals came in since it was checked.
THEOREM XoCommitsTheProposal ==
    PrivateSpec /\ XoProposedOnce /\ workload.app = "xo" => CommitsTheProposal
<1> DEFINE App == workload.app = "xo"
           Commits == XoCommits /\ UNCHANGED counter
<1>1. App /\ [PrivateNext]_privateVars => App'
  BY XoLeavesCounters
<1>2. XoInv /\ App /\ [PrivateNext]_privateVars /\ [XoOnce]_privateVars => [Commits]_privateVars
  BY XoStep, XoLeavesCounters
<1>3. PrivateSpec /\ XoProposedOnce /\ App => [][Commits]_privateVars
  <2> HIDE DEF App, Commits
  <2> QED BY <1>1, <1>2, XoInit, XoStep, PTL DEF PrivateSpec, XoProposedOnce
<1>4. [Commits]_privateVars => [\A n \in Nodes :
         /\ current_state_root'[n] # current_state_root[n] => current_state_root'[n] = current[n]
         /\ Cardinality(workload.inputs) =< 2 /\ counter'[n] # counter[n] => hash(counter'[n]) = current[n]]_privateVars
  BY Zenon DEF XoCommits
<1> QED BY <1>3, <1>4, PTL DEF CommitsTheProposal
=============================================================================
