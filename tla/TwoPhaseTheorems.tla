-------------------------- MODULE TwoPhaseTheorems --------------------------
(***************************************************************************)
(* The theorems about the two-phase engine.  IInv is inductive; it gives   *)
(* the safety properties of TwoPhase, and that the engines implement       *)
(* AtomicCommit.  An evaluation ends in a decision.  And a manager is      *)
(* asked about a proposal that it has found valid no second time: the      *)
(* coordinator meets a proposal once, its verdict becomes one request to   *)
(* each verifier, and a request is answered once.                          *)
(*                                                                         *)
(* The last part is for the managers that run under the engine, scabbard's *)
(* and private_xo's: what each kind of step does to the evaluations, the   *)
(* verdicts and the decisions.                                             *)
(***************************************************************************)
EXTENDS TwoPhaseLemmas

\* What a leaf is tried with, unless it names its provers.
USE SMTT(20), ZenonT(20), SMTT(30)

-----------------------------------------------------------------------------
(* The invariant. *)

\* The invariant holds when the engines start.
LEMMA InvInit == Init => IInv
<1> SUFFICES ASSUME Init
             PROVE  IInv
  OBVIOUS
<1>1. TypeOK /\ TimeoutOnlyWhenCoordinating
  BY TypeInit DEF Init, TimeoutOnlyWhenCoordinating
<1>2. \A x : ~Contains(<<>>, x)
  BY DEF Contains
<1>3. \A s, n \in Nodes : \A t, p : ~In(msgs, s, n, t, p) /\ ~In(updates, s, n, t, p)
  BY <1>2 DEF Init, In, Channels
<1>4. \A n \in Nodes : \A p : ~Contains(proposal_backlog[n], p)
  BY <1>2 DEF Init
<1>5. \A n \in Nodes, p \in Proposals : ~evaluating_proposal(n, p) /\ ~Decided(n, p)
  BY DEF Init, evaluating_proposal, Decided
<1>6. ASSUME NEW p \in Proposals
      PROVE  MetOnce(p) /\ MessagesTrue(p) /\ VotesTrue(p) /\ DecisionsFollow(p)
  <2>1. Coordinator(p) \in Nodes
    BY CoordinatorFacts
  <2> QED BY <1>3, <1>4, <1>5, <2>1, Zenon DEF MetOnce, MessagesTrue, VotesTrue, DecisionsFollow, Decided
<1> QED BY <1>1, <1>6 DEF IInv

\* Every step of the engines preserves the invariant.
LEMMA InvStep ==
    ASSUME IInv, [Next]_vars
    PROVE  IInv'
<1>1. TypeOK'
  BY TypeStep DEF IInv
<1>2. Facts' /\ TimeoutOnlyWhenCoordinating'
  <2>1. CASE UNCHANGED vars
    BY <2>1, Unchanged, QuietStep DEF IInv, vars, engineVars, evaluation, backlogs
  <2>2. CASE Next
    <3>1. Environment => Disturbances
      BY DEF Environment, Disturbances
    <3> QED BY <2>2, <3>1, NoCallStep, CallsAnswer, CallsStep, EnvironmentStep DEF Next
  <2> QED BY <2>1, <2>2
<1> QED BY <1>1, <1>2 DEF IInv, Facts

\* The invariant is inductive: a proposal is met once by its coordinator, messages and
\* votes are true, and decisions follow the coordinator's.
THEOREM Invariant == Spec => []IInv
  BY InvInit, InvStep, PTL DEF Spec

-----------------------------------------------------------------------------
(* State properties. *)

\* In every state of the invariant, decisions agree, rest on all the votes and follow the
\* coordinator's.
LEMMA InvariantImplies ==
    IInv => Agreement /\ AcceptedOnlyIfAllValid /\ CoordinatorDecidesFirst
<1> SUFFICES ASSUME IInv
             PROVE  Agreement /\ AcceptedOnlyIfAllValid /\ CoordinatorDecidesFirst
  OBVIOUS
<1>1. \A n \in Nodes : accepted[n] \subseteq Proposals /\ rejected[n] \subseteq Proposals
  BY Zenon DEF IInv, TypeOK
<1>2. \A p \in Proposals : DecisionsFollow(p)
  BY DEF IInv
<1>3. Agreement
  BY Zenon, <1>1, <1>2 DEF Agreement, DecisionsFollow
<1>4. AcceptedOnlyIfAllValid
  BY <1>1, <1>2 DEF AcceptedOnlyIfAllValid, DecisionsFollow
<1>5. CoordinatorDecidesFirst
  BY Zenon, <1>1, <1>2 DEF CoordinatorDecidesFirst, DecisionsFollow
<1> QED BY <1>3, <1>4, <1>5

\* No proposal is accepted by one node's manager and rejected by another's.
THEOREM AgreementHolds == Spec => []Agreement
  BY Invariant, InvariantImplies, PTL

\* What complete_coordination or a RESULT message applies, every required verifier's
\* manager has found valid.
THEOREM CommitsAreVerified == Spec => []AcceptedOnlyIfAllValid
  BY Invariant, InvariantImplies, PTL

\* The coordinator's manager is told before the RESULT message is sent.
THEOREM CoordinatorFirst == Spec => []CoordinatorDecidesFirst
  BY Invariant, InvariantImplies, PTL

\* The coordinator timeout is never left running on a node that coordinates nothing.
THEOREM TimeoutsAreCoordinators == Spec => []TimeoutOnlyWhenCoordinating
<1>1. IInv => TimeoutOnlyWhenCoordinating
  BY DEF IInv
<1> QED BY <1>1, Invariant, PTL

-----------------------------------------------------------------------------
(* Refinement of AtomicCommit. *)

\* What a step does to validated, accepted and rejected: nothing, or one manager's one
\* answer about one proposal.
CommitStep ==
    \/ UNCHANGED <<validated, accepted, rejected>>
    \/ \E n \in Nodes, p \in Proposals :
         \/ validated' = [validated EXCEPT ![n] = @ \cup {p}] /\ UNCHANGED decisions
         \/ Accept(n, p) /\ UNCHANGED validated
         \/ Reject(n, p) /\ UNCHANGED validated

\* check_proposal's answer is the only thing a checking step adds.
LEMMA ValidateCommitStep ==
    ASSUME NEW n \in Nodes, NEW p \in Proposals, NEW r, UNCHANGED decisions,
           Validate(n, p, r) \/ UNCHANGED validated
    PROVE  CommitStep
  BY DEF Validate, CommitStep, decisions

\* complete_coordination decides at most its own proposal.
LEMMA CompleteCommitStep ==
    ASSUME NEW n \in Nodes, NEW p \in Proposals, NEW result, NEW ok, NEW ch,
           complete_coordination(n, p, result, ok, ch), UNCHANGED validated
    PROVE  CommitStep
  BY DEF complete_coordination, CommitStep, decisions

\* A step of the engines, whatever the managers answer and the environment does.
EngineMoves ==
    \/ UNCHANGED vars
    \/ \E n \in Nodes : NoCall(n) \/ Answers(n) \/ \E p \in Proposals : Creates(n, p)
    \/ Disturbances

\* The steps of TwoPhase are among them.
LEMMA NextMoves == [Next]_vars => EngineMoves
  BY CallsAnswer DEF Next, Environment, Disturbances, EngineMoves

\* Every step of the engines is a CommitStep.
LEMMA StepsCommit ==
    ASSUME EngineMoves
    PROVE  CommitStep
<1> USE DEF historyVars, decisions
<1>1. CASE UNCHANGED vars
  BY <1>1 DEF CommitStep, vars
<1>2. ASSUME NEW n \in Nodes, NoCall(n)
      PROVE  CommitStep
  BY <1>2, ZenonT(60) DEF NoCall, MessageTimeout, UpdateTimeout, NoneCreated, ProposalValid, InvalidAtVerifier,
              RequestBacklogged, VerifiedCounted, MessageIgnored, ProposalBacklogged, UpdateIgnored,
              CommitStep
<1>3. ASSUME NEW n \in Nodes, NEW p \in Proposals, NEW r, CheckCall(n, p, r)
      PROVE  CommitStep
  BY Zenon, <1>3, ValidateCommitStep
     DEF CheckCall, HandleBackloggedRequest, RequestEvaluated, CoordinateNext, CoordinateProposal,
         start_coordination
<1>4. ASSUME NEW n \in Nodes, NEW p \in Proposals, NEW ok, AcceptCall(n, p, ok)
      PROVE  CommitStep
  <2>1. CASE \E s \in Nodes : VerifiedByAll(n, s, p, ok)
    BY Zenon, <2>1, CompleteCommitStep DEF VerifiedByAll, CommitStep
  <2>2. CASE \E s \in Nodes : ApplyResult(n, s, p, ok)
    BY <2>2 DEF ApplyResult, CommitStep
  <2> QED BY <1>4, <2>1, <2>2 DEF AcceptCall
<1>5. ASSUME NEW n \in Nodes, NEW p \in Proposals, NEW ok, RejectCall(n, p, ok)
      PROVE  CommitStep
  <2>1. CASE \E s \in Nodes : RejectResult(n, s, p, ok)
    BY <2>1 DEF RejectResult, CommitStep
  <2>2. CASE AbortTimedOut(n, p, ok) \/ InvalidAtCoordinator(n, p, ok) \/ \E s \in Nodes : FailedByPeer(n, s, p, ok)
    BY Zenon, <2>2, CompleteCommitStep DEF AbortTimedOut, InvalidAtCoordinator, FailedByPeer
  <2> QED BY <1>5, <2>1, <2>2 DEF RejectCall
<1>6. ASSUME NEW n \in Nodes, NEW p \in Proposals, NEW ok, CheckRejectCall(n, p, ok)
      PROVE  CommitStep
  BY Zenon, <1>6, CompleteCommitStep DEF CheckRejectCall, CoordinateNextFails, CoordinateProposalFails
<1>7. ASSUME NEW n, NEW p, CreateProposal(n, p) \/ \E to : CreateProposalFails(n, p, to)
      PROVE  CommitStep
  BY <1>7 DEF CreateProposal, CreateProposalFails, CommitStep
<1>8. CASE Disturbances
  BY Zenon, <1>8 DEF Disturbances, LoseMessage, LoseProposal, TimeoutElapses, Stop, Start, CommitStep
<1>9. ASSUME NEW n \in Nodes, Answers(n) \/ \E p \in Proposals : Creates(n, p)
      PROVE  CommitStep
  BY Zenon, <1>3, <1>4, <1>5, <1>6, <1>7, <1>9 DEF Answers, Creates
<1> QED BY Zenon, <1>1, <1>2, <1>8, <1>9 DEF EngineMoves

\* The engines implement the abstract commitment: every step of theirs that changes what
\* the managers have decided is one that AtomicCommit allows.
THEOREM Refinement == Spec => ImplementsAtomicCommit
<1>1. Init => AC!Init
  BY DEF Init, AC!Init
<1>2. ASSUME IInv, IInv', [Next]_vars
      PROVE  [AC!Next]_(AC!commitVars)
  <2>1. Agreement' /\ AcceptedOnlyIfAllValid' /\ TypeOK
    <3>1. (IInv => Agreement /\ AcceptedOnlyIfAllValid /\ CoordinatorDecidesFirst)'
      BY InvariantImplies, PTL
    <3> QED BY <1>2, <3>1 DEF IInv
  <2>2. CommitStep
    BY <1>2, NextMoves, StepsCommit
  <2>3. CASE UNCHANGED <<validated, accepted, rejected>>
    BY <2>3 DEF AC!commitVars
  <2>4. ASSUME NEW n \in Nodes, NEW p \in Proposals,
               validated' = [validated EXCEPT ![n] = @ \cup {p}] /\ UNCHANGED decisions
        PROVE  AC!Next
    BY Zenon, <2>4 DEF AC!Next, AC!Validate, decisions
  <2>5. ASSUME NEW n \in Nodes, NEW p \in Proposals, Accept(n, p) /\ UNCHANGED validated
        PROVE  AC!Next
    <3>1. p \in accepted'[n]
      BY <2>1, <2>5 DEF Accept, TypeOK
    <3>2. (\A v \in Verifiers[p] : p \in validated[v]) /\ (\A m \in Nodes : p \notin rejected[m])
      BY <2>1, <2>5, <3>1 DEF Agreement, AcceptedOnlyIfAllValid, Accept
    <3> QED BY Zenon, <2>5, <3>2 DEF AC!Next, AC!Accept, Accept
  <2>6. ASSUME NEW n \in Nodes, NEW p \in Proposals, Reject(n, p) /\ UNCHANGED validated
        PROVE  AC!Next
    <3>1. p \in rejected'[n]
      BY <2>1, <2>6 DEF Reject, TypeOK
    <3>2. \A m \in Nodes : p \notin accepted[m]
      BY <2>1, <2>6, <3>1 DEF Agreement, Reject
    <3> QED BY Zenon, <2>6, <3>2 DEF AC!Next, AC!Reject, Reject
  <2> QED BY <2>2, <2>3, <2>4, <2>5, <2>6 DEF CommitStep
<1> QED BY <1>1, <1>2, Invariant, PTL DEF Spec, AC!Spec, ImplementsAtomicCommit

-----------------------------------------------------------------------------
(* An evaluation ends in a decision. *)

\* n's evaluation goes on, had not begun, or ends in a decision or with the engine.
EvaluationKept(n) ==
    \/ current[n] = NoProposal
    \/ current'[n] = current[n]
    \/ current[n] \in accepted'[n] \cup rejected'[n]
    \/ pc'[n] = "stopped"

\* An engine takes up p only when it evaluates nothing, or p itself.
LEMMA BecomeKeeps ==
    ASSUME TypeOK, NEW n \in Nodes, NEW p \in Proposals, NEW s, Become(n, s, p),
           ~EvaluatingOther(n, p)
    PROVE  \A m \in Nodes : EvaluationKept(m)
  BY Zenon DEF TypeOK, Become, EvaluatingOther, EvaluationKept

\* complete_coordination drops p only once the manager has decided it.
LEMMA CompleteKeeps ==
    ASSUME TypeOK, NEW n \in Nodes, NEW p \in Proposals, NEW result, NEW ok, NEW ch,
           complete_coordination(n, p, result, ok, ch), ~EvaluatingOther(n, p)
    PROVE  \A m \in Nodes : EvaluationKept(m)
  BY DEF TypeOK, complete_coordination, Become, EvaluatingOther, EvaluationKept, evaluation,
         Accept, Reject

\* check_proposal is called on p only while no other proposal is evaluated.
LEMMA CheckedAlone ==
    ASSUME NEW n \in Nodes, NEW p, NEW r, CheckCall(n, p, r)
    PROVE  ~EvaluatingOther(n, p)
  BY Zenon DEF CheckCall, HandleBackloggedRequest, BackloggedRequest, RequestEvaluated, CoordinateNext,
               TakeNextProposal, CoordinateProposal, ProposalToCoordinate, EvaluatingOther

\* Every step of the engines, whatever the manager answers, keeps evaluations in this sense.
LEMMA StepKeeps ==
    ASSUME TypeOK, EngineMoves
    PROVE  \A m \in Nodes : EvaluationKept(m)
<1> USE DEF engineVars, evaluation
<1>1. CASE UNCHANGED vars
  BY <1>1 DEF EvaluationKept, vars
<1>2. ASSUME NEW n \in Nodes, NoCall(n)
      PROVE  \A m \in Nodes : EvaluationKept(m)
  BY Zenon, <1>2 DEF NoCall, MessageTimeout, UpdateTimeout, NoneCreated, ProposalValid, InvalidAtVerifier,
              RequestBacklogged, VerifiedCounted, MessageIgnored, ProposalBacklogged, UpdateIgnored,
              EvaluationKept
<1>3. ASSUME NEW n \in Nodes, NEW p \in Proposals, NEW r, CheckCall(n, p, r)
      PROVE  \A m \in Nodes : EvaluationKept(m)
  <2>1. ~EvaluatingOther(n, p)
    BY <1>3, CheckedAlone
  <2>2. (\E s : Become(n, s, p)) \/ UNCHANGED current
    BY Zenon, <1>3 DEF CheckCall, HandleBackloggedRequest, RequestEvaluated, CoordinateNext,
                CoordinateProposal, start_coordination
  <2>3. CASE UNCHANGED current
    BY <2>3 DEF EvaluationKept
  <2> QED BY <2>1, <2>2, <2>3, BecomeKeeps
<1>4. ASSUME NEW n \in Nodes, NEW p \in Proposals, NEW ok, AcceptCall(n, p, ok)
      PROVE  \A m \in Nodes : EvaluationKept(m)
  <2>1. CASE \E s \in Nodes : VerifiedByAll(n, s, p, ok)
    BY Zenon, <2>1, CompleteKeeps DEF VerifiedByAll, evaluating_proposal, EvaluatingOther, EvaluationKept
  <2>2. CASE \E s \in Nodes : ApplyResult(n, s, p, ok)
    BY <2>2 DEF ApplyResult, evaluating_proposal, Become, Accept, EvaluationKept, TypeOK
  <2> QED BY Zenon, <1>4, <2>1, <2>2 DEF AcceptCall
<1>5. ASSUME NEW n \in Nodes, NEW p \in Proposals, NEW ok, RejectCall(n, p, ok)
      PROVE  \A m \in Nodes : EvaluationKept(m)
  <2>1. CASE \E s \in Nodes : RejectResult(n, s, p, ok)
    BY <2>1 DEF RejectResult, evaluating_proposal, Become, Reject, EvaluationKept, TypeOK
  <2>2. CASE AbortTimedOut(n, p, ok) \/ InvalidAtCoordinator(n, p, ok) \/ \E s \in Nodes : FailedByPeer(n, s, p, ok)
    BY Zenon, <2>2, CompleteKeeps
       DEF AbortTimedOut, InvalidAtCoordinator, FailedByPeer, evaluating_proposal, EvaluatingOther
  <2> QED BY Zenon, <1>5, <2>1, <2>2 DEF RejectCall
<1>6. ASSUME NEW n \in Nodes, NEW p \in Proposals, NEW ok, CheckRejectCall(n, p, ok)
      PROVE  \A m \in Nodes : EvaluationKept(m)
  BY Zenon, <1>6, CompleteKeeps
     DEF CheckRejectCall, CoordinateNextFails, TakeNextProposal, CoordinateProposalFails,
         ProposalToCoordinate, EvaluatingOther
<1>7. ASSUME NEW n \in Nodes, NEW p, CreateProposal(n, p) \/ \E to : CreateProposalFails(n, p, to)
      PROVE  \A m \in Nodes : EvaluationKept(m)
  BY Zenon, <1>7 DEF CreateProposal, CreateProposalFails, Become, EvaluationKept, TypeOK
<1>8. CASE Disturbances
  <2>1. CASE UNCHANGED current
    BY <2>1 DEF EvaluationKept
  <2>2. ASSUME NEW n \in Nodes, Stop(n)
        PROVE  \A m \in Nodes : EvaluationKept(m)
    <3>1. pc \in [Nodes -> {"abort", "backlog", "next", "message", "update", "stopped"}]
          /\ current \in [Nodes -> Proposals \cup {NoProposal}]
      BY DEF TypeOK
    <3> QED BY <2>2, <3>1 DEF Stop, Become, Goto, EvaluationKept
  <2>3. UNCHANGED current \/ \E n \in Nodes : Stop(n)
    BY <1>8 DEF Disturbances, LoseMessage, LoseProposal, TimeoutElapses, Start
  <2> QED BY <2>1, <2>2, <2>3
<1>9. ASSUME NEW n \in Nodes, Answers(n) \/ \E p \in Proposals : Creates(n, p)
      PROVE  \A m \in Nodes : EvaluationKept(m)
  BY Zenon, <1>3, <1>4, <1>5, <1>6, <1>7, <1>9 DEF Answers, Creates
<1> QED BY Zenon, <1>1, <1>2, <1>8, <1>9 DEF EngineMoves

\* An engine drops the proposal that it evaluates only when its manager has accepted or
\* rejected that proposal, or when the engine stops.
THEOREM EvaluationsEndInDecisions == Spec => EvaluationEndsInDecision
<1>1. ASSUME TypeOK, [Next]_vars
      PROVE  [\A n \in Nodes : current[n] # NoProposal /\ current'[n] # current[n] =>
                current[n] \in accepted'[n] \cup rejected'[n] \/ pc'[n] = "stopped"]_vars
   BY <1>1, NextMoves, StepKeeps DEF EvaluationKept
<1> QED BY <1>1, TypeCorrect, PTL DEF Spec, EvaluationEndsInDecision

-----------------------------------------------------------------------------
(* A manager checks a proposal once. *)

\* No verifier but the coordinator has been asked about p.
Unrequested(p) ==
    \A n \in Nodes \ {Coordinator(p)} :
        /\ ~In(msgs, Coordinator(p), n, "REQUEST", p)
        /\ ~Contains(verification_request_backlog[n], p)
        /\ p \notin validated[n]

\* No manager has found p valid, or is about to be asked.
Unchecked(p) ==
    /\ p \notin validated[Coordinator(p)]
    /\ ~In(updates, Coordinator(p), Coordinator(p), "Valid", p)
    /\ Unrequested(p)

\* While p waits for its coordinator it is unchecked; the coordinator's verdict becomes one
\* request to each verifier; a verifier that is still to be asked has not found p valid.
CheckedOnce(p) ==
    LET c == Coordinator(p)
    IN /\ \A n \in Nodes : p \in validated[n] => p \in created
       /\ \A s \in Nodes : In(updates, s, c, "Proposal", p) => Unchecked(p)
       /\ Contains(proposal_backlog[c], p) => Unchecked(p)
       /\ In(updates, c, c, "Valid", p) =>
            p \in created /\ Once(updates[<<c, c>>], Msg("Valid", p)) /\ Unrequested(p)
       /\ \A s, n \in Nodes : In(msgs, s, n, "REQUEST", p) =>
            /\ s = c /\ n # c /\ p \in created /\ p \notin validated[n]
            /\ Once(msgs[<<s, n>>], Msg("REQUEST", p))
            /\ ~Contains(verification_request_backlog[n], p)
       /\ \A n \in Nodes : Contains(verification_request_backlog[n], p) =>
            /\ n # c /\ p \in created /\ p \notin validated[n]
            /\ Once(verification_request_backlog[n], p)

\* The queues ch2 hold no message of type t about q that ch does not hold; the backlogs b2
\* do not hold q where b does not.
FewerOf(ch, ch2, t, q) ==
    \A s, n \in Nodes : /\ In(ch2, s, n, t, q) => In(ch, s, n, t, q)
                        /\ Once(ch[<<s, n>>], Msg(t, q)) => Once(ch2[<<s, n>>], Msg(t, q))
BacklogFewerOf(b, b2, q) ==
    \A m \in Nodes : /\ Contains(b2[m], q) => Contains(b[m], q)
                     /\ Once(b[m], q) => Once(b2[m], q)

\* A step that adds nothing about q to the queues and backlogs.
Untouched(q) ==
    /\ FewerOf(updates, updates', "Proposal", q)
    /\ FewerOf(updates, updates', "Valid", q)
    /\ FewerOf(msgs, msgs', "REQUEST", q)
    /\ BacklogFewerOf(proposal_backlog, proposal_backlog', q)
    /\ BacklogFewerOf(verification_request_backlog, verification_request_backlog', q)

SameVerdict(q) == (q \in created => q \in created') /\ \A n \in Nodes : q \in validated'[n] <=> q \in validated[n]

\* Such a step, if it leaves the verdicts on q alone, leaves q checked once.
LEMMA UntouchedStep ==
    ASSUME NEW q \in Proposals, CheckedOnce(q), Untouched(q), SameVerdict(q)
    PROVE  CheckedOnce(q)'
<1> DEFINE c == Coordinator(q)
<1>1. c \in Nodes
  BY CoordinatorFacts
<1>2. Unrequested(q) => Unrequested(q)'
  BY <1>1, Zenon DEF Unrequested, Untouched, FewerOf, BacklogFewerOf, SameVerdict
<1>3. Unchecked(q) => Unchecked(q)'
  BY <1>1, <1>2, Zenon DEF Unchecked, Untouched, FewerOf, SameVerdict
<1>4. \A n \in Nodes : q \in validated'[n] => q \in created'
  BY Zenon DEF CheckedOnce, SameVerdict
<1>5. \A s \in Nodes : In(updates', s, c, "Proposal", q) => Unchecked(q)'
  BY <1>1, <1>3, Zenon DEF CheckedOnce, Untouched, FewerOf
<1>6. Contains(proposal_backlog'[c], q) => Unchecked(q)'
  BY <1>1, <1>3, Zenon DEF CheckedOnce, Untouched, BacklogFewerOf
<1>7. In(updates', c, c, "Valid", q) =>
        q \in created' /\ Once(updates'[<<c, c>>], Msg("Valid", q)) /\ Unrequested(q)'
  BY <1>1, <1>2, Zenon DEF CheckedOnce, Untouched, FewerOf, SameVerdict
<1>8. ASSUME NEW s \in Nodes, NEW n \in Nodes, In(msgs', s, n, "REQUEST", q)
      PROVE  /\ s = c /\ n # c /\ q \in created' /\ q \notin validated'[n]
             /\ Once(msgs'[<<s, n>>], Msg("REQUEST", q))
             /\ ~Contains(verification_request_backlog'[n], q)
  BY <1>8, Zenon DEF CheckedOnce, Untouched, FewerOf, BacklogFewerOf, SameVerdict
<1>9. ASSUME NEW n \in Nodes, Contains(verification_request_backlog'[n], q)
      PROVE  /\ n # c /\ q \in created' /\ q \notin validated'[n]
             /\ Once(verification_request_backlog'[n], q)
  BY <1>9, Zenon DEF CheckedOnce, Untouched, BacklogFewerOf, SameVerdict
<1> QED BY <1>4, <1>5, <1>6, <1>7, <1>8, <1>9, Zenon DEF CheckedOnce

\* What adds or takes away in general does so for each proposal.
LEMMA FewerFacts ==
    /\ \A ch, ch2, t, q : Fewer(ch, ch2, t) => FewerOf(ch, ch2, t, q)
    /\ \A ch, ch2, a, to, u, p, t, q :
         Added(ch, ch2, a, to, u, p) /\ AddedOnce(ch, ch2, a, to, u, p) /\ (t # u \/ q # p)
           => FewerOf(ch, ch2, t, q)
    /\ \A b, b2, q : BacklogFewer(b, b2) => BacklogFewerOf(b, b2, q)
    /\ \A b, b2, n, p, q : BacklogAdded(b, b2, n, p) /\ q # p => BacklogFewerOf(b, b2, q)
    /\ \A ch, t, q : FewerOf(ch, ch, t, q)
    /\ \A b, q : BacklogFewerOf(b, b, q)
    /\ \A ch, ch2, ch3, t, q : FewerOf(ch, ch2, t, q) /\ FewerOf(ch2, ch3, t, q) => FewerOf(ch, ch3, t, q)
<1>1. ASSUME NEW ch, NEW ch2, NEW t, NEW q, Fewer(ch, ch2, t)
      PROVE  FewerOf(ch, ch2, t, q)
  BY <1>1, Zenon DEF Fewer, FewerOf
<1>2. ASSUME NEW ch, NEW ch2, NEW a, NEW to, NEW u, NEW p, NEW t, NEW q,
             Added(ch, ch2, a, to, u, p), AddedOnce(ch, ch2, a, to, u, p), t # u \/ q # p
      PROVE  FewerOf(ch, ch2, t, q)
  BY <1>2, Zenon DEF Added, AddedOnce, FewerOf
<1>3. ASSUME NEW b, NEW b2, NEW q, BacklogFewer(b, b2)
      PROVE  BacklogFewerOf(b, b2, q)
  BY <1>3, Zenon DEF BacklogFewer, BacklogFewerOf
<1>4. ASSUME NEW b, NEW b2, NEW n, NEW p, NEW q, BacklogAdded(b, b2, n, p), q # p
      PROVE  BacklogFewerOf(b, b2, q)
  <2>1. ASSUME NEW m \in Nodes
        PROVE  /\ Contains(b2[m], q) => Contains(b[m], q)
               /\ Once(b[m], q) => Once(b2[m], q)
    BY <1>4, Zenon DEF BacklogAdded
  <2> QED BY Zenon, <2>1 DEF BacklogFewerOf
<1>5. ASSUME NEW ch, NEW t, NEW q
      PROVE  FewerOf(ch, ch, t, q)
  BY DEF FewerOf
<1>6. ASSUME NEW b, NEW q
      PROVE  BacklogFewerOf(b, b, q)
  BY DEF BacklogFewerOf
<1>7. ASSUME NEW ch, NEW ch2, NEW ch3, NEW t, NEW q, FewerOf(ch, ch2, t, q), FewerOf(ch2, ch3, t, q)
      PROVE  FewerOf(ch, ch3, t, q)
  BY <1>7, Zenon DEF FewerOf
<1> QED BY <1>1, <1>2, <1>3, <1>4, <1>5, <1>6, <1>7

Checks == \A p \in Proposals : CheckedOnce(p)

\* Such a step about no proposal at all keeps them all checked once.
LEMMA QuietChecks ==
    ASSUME Checks, \A q \in Proposals : Untouched(q) /\ SameVerdict(q)
    PROVE  Checks'
  BY UntouchedStep DEF Checks

\* The engines' sends but for the coordinator's are no requests.
LEMMA NotRequests ==
    ASSUME NEW ch \in Messages, NEW n \in Nodes, NEW p \in Proposals,
           NEW t \in {"VERIFIED", "FAILED", "APPLY", "REJECT"}, NEW q
    PROVE  /\ FewerOf(ch, Broadcast(ch, n, t, p), "REQUEST", q)
           /\ FewerOf(ch, Push(ch, <<n, Coordinator(p)>>, Msg(t, p)), "REQUEST", q)
<1> DEFINE all == Broadcast(ch, n, t, p)
           one == Push(ch, <<n, Coordinator(p)>>, Msg(t, p))
<1>a. Msg(t, p) \in ConsensusMsg
  BY MsgFacts
<1>b. ch \in [Channels -> Seq(ConsensusMsg)]
  BY DEF Messages
<1>2. Added(ch, all, n, Verifiers[p] \ {n}, t, p) /\ AddedOnce(ch, all, n, Verifiers[p] \ {n}, t, p)
  <2>1. ASSUME NEW to
        PROVE  /\ Added(ch, SendAll(ch, n, to, Msg(t, p)), n, to, t, p)
               /\ AddedOnce(ch, SendAll(ch, n, to, Msg(t, p)), n, to, t, p)
    BY <1>a, <1>b, SendAllFacts, Zenon
  <2> QED BY <2>1 DEF Broadcast
<1>3. Added(ch, one, n, {Coordinator(p)}, t, p) /\ AddedOnce(ch, one, n, {Coordinator(p)}, t, p)
  <2>1. Coordinator(p) \in Nodes
    BY CoordinatorFacts
  <2>2. ASSUME NEW b \in Nodes
        PROVE  /\ Added(ch, Push(ch, <<n, b>>, Msg(t, p)), n, {b}, t, p)
               /\ AddedOnce(ch, Push(ch, <<n, b>>, Msg(t, p)), n, {b}, t, p)
    BY <1>a, <1>b, PushFacts, Zenon
  <2> QED BY <2>1, <2>2
<1>4. "REQUEST" # t
  OBVIOUS
<1> HIDE DEF all, one
<1>5. FewerOf(ch, all, "REQUEST", q) /\ FewerOf(ch, one, "REQUEST", q)
  BY <1>2, <1>3, <1>4, FewerFacts
<1> QED BY <1>5 DEF all, one

\* Neither is the result that complete_coordination sends.
LEMMA CompleteRequests ==
    ASSUME NEW n \in Nodes, NEW p \in Proposals, NEW result \in {"APPLY", "REJECT"}, NEW ok \in BOOLEAN,
           NEW ch \in Messages, complete_coordination(n, p, result, ok, ch),
           NEW q, FewerOf(msgs, ch, "REQUEST", q)
    PROVE  FewerOf(msgs, msgs', "REQUEST", q)
<1>1. CASE ok
  <2>1. msgs' = Broadcast(ch, n, result, p)
    BY <1>1 DEF complete_coordination
  <2>2. FewerOf(ch, msgs', "REQUEST", q)
    BY Zenon, <2>1, NotRequests
  <2> QED BY <2>2, FewerFacts
<1>2. CASE ~ok
  BY <1>2 DEF complete_coordination
<1> QED BY <1>1, <1>2

\* What a receiver takes away, of any type and about any proposal.
LEMMA TakesAway ==
    ASSUME IInv, NEW n \in Nodes, NEW s \in Nodes, NEW p, NEW t
    PROVE  /\ Receive(n, s, t, p) => \A u, q : FewerOf(msgs, Pop(msgs, <<s, n>>), u, q)
           /\ Update(n, s, t, p) => \A u, q : FewerOf(updates, Pop(updates, <<s, n>>), u, q)
<1>1. ASSUME Receive(n, s, t, p), NEW u, NEW q
      PROVE  FewerOf(msgs, Pop(msgs, <<s, n>>), u, q)
  <2>1. Fewer(msgs, Pop(msgs, <<s, n>>), u)
    BY <1>1, ReceiveFacts DEF FewerMessages
  <2> QED BY <2>1, FewerFacts
<1>2. ASSUME Update(n, s, t, p), NEW u, NEW q
      PROVE  FewerOf(updates, Pop(updates, <<s, n>>), u, q)
  <2>1. Fewer(updates, Pop(updates, <<s, n>>), u)
    BY <1>2, UpdateFacts
  <2> QED BY <2>1, FewerFacts
<1> QED BY <1>1, <1>2

\* What steps leave alone.
LEMMA Alone ==
    /\ UNCHANGED updates => \A q : FewerOf(updates, updates', "Proposal", q) /\ FewerOf(updates, updates', "Valid", q)
    /\ UNCHANGED msgs => \A q : FewerOf(msgs, msgs', "REQUEST", q)
    /\ UNCHANGED backlogs => \A q : /\ BacklogFewerOf(proposal_backlog, proposal_backlog', q)
                                    /\ BacklogFewerOf(verification_request_backlog, verification_request_backlog', q)
    /\ UNCHANGED <<created, validated>> => \A q : SameVerdict(q)
<1>1. UNCHANGED updates => \A q : FewerOf(updates, updates', "Proposal", q) /\ FewerOf(updates, updates', "Valid", q)
  BY FewerFacts
<1>2. UNCHANGED msgs => \A q : FewerOf(msgs, msgs', "REQUEST", q)
  BY FewerFacts
<1>3. UNCHANGED backlogs => \A q : /\ BacklogFewerOf(proposal_backlog, proposal_backlog', q)
                                   /\ BacklogFewerOf(verification_request_backlog, verification_request_backlog', q)
  BY FewerFacts DEF backlogs
<1>4. UNCHANGED <<created, validated>> => \A q : SameVerdict(q)
  BY DEF SameVerdict
<1> QED BY <1>1, <1>2, <1>3, <1>4

\* A request that has to wait for its proposal, or for another evaluation, moves from the
\* channel to the backlog.
LEMMA RequestWaits ==
    ASSUME IInv, Checks, NEW n \in Nodes, NEW s \in Nodes, NEW p \in Proposals, RequestBacklogged(n, s, p)
    PROVE  Checks'
<1>1. /\ UNCHANGED <<updates, proposal_backlog, created, validated>>
      /\ msgs' = Pop(msgs, <<s, n>>) /\ Receive(n, s, "REQUEST", p)
      /\ verification_request_backlog' = With(verification_request_backlog, n, p)
  BY DEF RequestBacklogged, historyVars
<1>2. /\ In(msgs, s, n, "REQUEST", p) /\ \A q : FewerOf(msgs, msgs', "REQUEST", q)
      /\ Once(msgs[<<s, n>>], Msg("REQUEST", p)) => ~In(msgs', s, n, "REQUEST", p)
  <2>1. msgs \in [Channels -> Seq(ConsensusMsg)]
    BY DEF IInv, TypeOK
  <2>2. At(msgs, <<s, n>>, Msg("REQUEST", p)) /\ msgs[<<s, n>>] # <<>>
    BY <1>1 DEF Receive, At
  <2> QED BY <1>1, <2>1, <2>2, PopFacts, TakesAway, Zenon
<1>3. BacklogAdded(verification_request_backlog, verification_request_backlog', n, p)
  BY <1>1, WithFacts, ZenonT(60) DEF IInv, TypeOK, Backlogs
<1>4. \A q : /\ FewerOf(updates, updates', "Proposal", q) /\ FewerOf(updates, updates', "Valid", q)
             /\ BacklogFewerOf(proposal_backlog, proposal_backlog', q) /\ SameVerdict(q)
  BY <1>1, FewerFacts DEF SameVerdict
<1>5. ASSUME NEW q \in Proposals
      PROVE  CheckedOnce(q)'
  <2>0. CheckedOnce(q)
    BY DEF Checks
  <2>1. CASE q # p
    <3>1. BacklogFewerOf(verification_request_backlog, verification_request_backlog', q)
      BY <1>3, <2>1, FewerFacts
    <3> QED BY <1>2, <1>4, <2>0, <3>1, UntouchedStep DEF Untouched
  <2>2. CASE q = p
    <3> DEFINE c == Coordinator(p)
    <3>1. /\ c \in Nodes /\ s = c /\ n # c /\ p \in created /\ p \notin validated[n]
          /\ ~Contains(verification_request_backlog[n], p) /\ ~In(msgs', s, n, "REQUEST", p)
      BY <1>2, <2>0, <2>2, CoordinatorFacts, Zenon DEF CheckedOnce
    <3>2. ~Unrequested(p)
      BY <1>2, <3>1 DEF Unrequested
    <3>3. /\ \A t \in Nodes : ~In(updates, t, c, "Proposal", p)
          /\ ~Contains(proposal_backlog[c], p) /\ ~In(updates, c, c, "Valid", p)
      BY <2>0, <2>2, <3>2, Zenon DEF CheckedOnce, Unchecked
    <3>4. \A m \in Nodes : /\ Contains(verification_request_backlog'[m], p) =>
                                Contains(verification_request_backlog[m], p) \/ m = n
                           /\ Contains(verification_request_backlog[m], p) /\ m # n
                                /\ Once(verification_request_backlog[m], p)
                                => Once(verification_request_backlog'[m], p)
                           /\ m = n => Once(verification_request_backlog'[m], p)
      BY <1>3, <3>1, Zenon DEF BacklogAdded
    <3>5. UNCHANGED <<updates, proposal_backlog, created, validated>>
      BY ZenonT(60), <1>1
    <3>6. ASSUME NEW t \in Nodes, NEW m \in Nodes, In(msgs', t, m, "REQUEST", p)
          PROVE  /\ t = c /\ m # c /\ p \in created' /\ p \notin validated'[m]
                 /\ Once(msgs'[<<t, m>>], Msg("REQUEST", p))
                 /\ ~Contains(verification_request_backlog'[m], p)
      <4>1. In(msgs, t, m, "REQUEST", p) /\ (Once(msgs[<<t, m>>], Msg("REQUEST", p)) => Once(msgs'[<<t, m>>], Msg("REQUEST", p)))
        BY <1>2, <3>6, Zenon DEF FewerOf
      <4>2. t = c /\ m # n
        BY <2>0, <2>2, <3>1, <3>6, <4>1, Zenon DEF CheckedOnce
      <4> QED BY <2>0, <2>2, <3>4, <3>5, <4>1, <4>2 DEF CheckedOnce
    <3>7. ASSUME NEW m \in Nodes, Contains(verification_request_backlog'[m], p)
          PROVE  /\ m # c /\ p \in created' /\ p \notin validated'[m]
                 /\ Once(verification_request_backlog'[m], p)
      BY ZenonT(60), <2>0, <2>2, <3>1, <3>4, <3>5, <3>7 DEF CheckedOnce
    <3>8. \A m \in Nodes : p \in validated'[m] => p \in created'
      BY <2>0, <2>2, <3>5 DEF CheckedOnce
    <3> QED BY <2>2, <3>3, <3>5, <3>6, <3>7, <3>8, Zenon DEF CheckedOnce
  <2> QED BY <2>1, <2>2
<1> QED BY <1>5 DEF Checks

\* A proposal that its coordinator cannot evaluate yet moves from the queue to the backlog.
LEMMA ProposalWaits ==
    ASSUME IInv, Checks, NEW n \in Nodes, NEW s \in Nodes, NEW p \in Proposals, ProposalBacklogged(n, s, p)
    PROVE  Checks'
<1>1. /\ UNCHANGED <<msgs, verification_request_backlog, created, validated>>
      /\ updates' = Pop(updates, <<s, n>>) /\ Update(n, s, "Proposal", p)
      /\ proposal_backlog' = With(proposal_backlog, n, p)
  BY DEF ProposalBacklogged, historyVars
<1>2. /\ In(updates, s, n, "Proposal", p)
      /\ \A q : FewerOf(updates, updates', "Proposal", q) /\ FewerOf(updates, updates', "Valid", q)
  BY <1>1, UpdateFacts, TakesAway, Zenon
<1>3. BacklogAdded(proposal_backlog, proposal_backlog', n, p)
  BY <1>1, WithFacts, ZenonT(60) DEF IInv, TypeOK, Backlogs
<1>4. \A q : /\ FewerOf(msgs, msgs', "REQUEST", q) /\ SameVerdict(q)
             /\ BacklogFewerOf(verification_request_backlog, verification_request_backlog', q)
  BY <1>1, FewerFacts DEF SameVerdict
<1>5. ASSUME NEW q \in Proposals
      PROVE  CheckedOnce(q)'
  <2>0. CheckedOnce(q)
    BY DEF Checks
  <2>1. CASE q # p
    <3>1. BacklogFewerOf(proposal_backlog, proposal_backlog', q)
      BY <1>3, <2>1, FewerFacts
    <3> QED BY <1>2, <1>4, <2>0, <3>1, UntouchedStep DEF Untouched
  <2>2. CASE q = p
    <3> DEFINE c == Coordinator(p)
    <3>1. c \in Nodes
      BY CoordinatorFacts
    <3>2. Contains(proposal_backlog'[c], p) => Unchecked(p)
      <4>1. Contains(proposal_backlog'[c], p) => Contains(proposal_backlog[c], p) \/ c = n
        BY <1>3, <3>1, Zenon DEF BacklogAdded
      <4>2. In(updates, s, c, "Proposal", p) => Unchecked(p)
        BY <2>0, <2>2, Zenon DEF CheckedOnce
      <4>3. Contains(proposal_backlog[c], p) => Unchecked(p)
        BY <2>0, <2>2, Zenon DEF CheckedOnce
      <4> QED BY <1>2, <4>1, <4>2, <4>3
    <3>3. UNCHANGED <<msgs, verification_request_backlog, created, validated>>
      BY <1>1
    <3>4. Unrequested(p)' <=> Unrequested(p)
      BY <3>3 DEF Unrequested
    <3>5. In(updates', c, c, "Valid", p) =>
            In(updates, c, c, "Valid", p) /\ (Once(updates[<<c, c>>], Msg("Valid", p)) => Once(updates'[<<c, c>>], Msg("Valid", p)))
      BY <1>2, <3>1, Zenon DEF FewerOf
    <3>6. Unchecked(p) => Unchecked(p)'
      BY <3>3, <3>4, <3>5, Zenon DEF Unchecked
    <3>7. \A t \in Nodes : In(updates', t, c, "Proposal", p) => In(updates, t, c, "Proposal", p)
      BY <1>2, <3>1, Zenon DEF FewerOf
    <3> QED BY <2>0, <2>2, <3>2, <3>3, <3>4, <3>5, <3>6, <3>7, Zenon DEF CheckedOnce
  <2> QED BY <2>1, <2>2
<1> QED BY <1>5 DEF Checks

\* The coordinator's own verdict becomes one request to each of the other verifiers; another
\* verifier's becomes a vote.
LEMMA VerdictPassedOn ==
    ASSUME IInv, Checks, NEW n \in Nodes, NEW p \in Proposals, ProposalValid(n, p)
    PROVE  Checks'
<1>1. /\ UNCHANGED <<backlogs, created, validated>>
      /\ updates' = Pop(updates, <<n, n>>) /\ Update(n, n, "Valid", p)
      /\ n = Coordinator(p) => msgs' = Broadcast(msgs, n, "REQUEST", p)
      /\ n # Coordinator(p) => msgs' = Push(msgs, <<n, Coordinator(p)>>, Msg("VERIFIED", p))
  BY DEF ProposalValid, historyVars
<1>2. /\ In(updates, n, n, "Valid", p)
      /\ Once(updates[<<n, n>>], Msg("Valid", p)) => ~In(updates', n, n, "Valid", p)
      /\ \A q : FewerOf(updates, updates', "Proposal", q) /\ FewerOf(updates, updates', "Valid", q)
  BY <1>1, UpdateFacts, TakesAway, Zenon
<1>3. /\ UNCHANGED <<proposal_backlog, verification_request_backlog, created, validated>>
      /\ \A q : /\ BacklogFewerOf(proposal_backlog, proposal_backlog', q) /\ SameVerdict(q)
                /\ BacklogFewerOf(verification_request_backlog, verification_request_backlog', q)
  BY <1>1, Alone DEF backlogs
<1>4. msgs \in Messages
  BY DEF IInv, TypeOK, Messages
<1>5. CASE n # Coordinator(p)
  <2>1. \A q : FewerOf(msgs, msgs', "REQUEST", q)
    BY <1>1, <1>4, <1>5, NotRequests
  <2> QED BY <1>2, <1>3, <2>1, QuietChecks DEF Untouched
<1>6. CASE n = Coordinator(p)
  <2>1. /\ Added(msgs, msgs', n, Verifiers[p] \ {n}, "REQUEST", p)
        /\ AddedOnce(msgs, msgs', n, Verifiers[p] \ {n}, "REQUEST", p)
    <3>1. Msg("REQUEST", p) \in ConsensusMsg
      BY MsgFacts
    <3>2. msgs \in [Channels -> Seq(ConsensusMsg)]
      BY <1>4 DEF Messages
    <3>3. ASSUME NEW to
          PROVE  /\ Added(msgs, SendAll(msgs, n, to, Msg("REQUEST", p)), n, to, "REQUEST", p)
                 /\ AddedOnce(msgs, SendAll(msgs, n, to, Msg("REQUEST", p)), n, to, "REQUEST", p)
      BY <3>1, <3>2, SendAllFacts, Zenon
    <3> QED BY <1>1, <1>6, <3>3 DEF Broadcast
  <2>2. ASSUME NEW q \in Proposals, q # p
        PROVE  CheckedOnce(q)'
    <3>1. FewerOf(msgs, msgs', "REQUEST", q)
      BY <2>1, <2>2, FewerFacts
    <3> QED BY <1>2, <1>3, <3>1, UntouchedStep DEF Untouched, Checks
  <2>3. CheckedOnce(p)'
    <3>1. CheckedOnce(p) /\ Unrequested(p) /\ p \in created /\ ~In(updates', n, n, "Valid", p)
      BY <1>2, <1>6, Zenon DEF Checks, CheckedOnce
    <3>2. /\ \A s \in Nodes : ~In(updates', s, n, "Proposal", p)
          /\ ~Contains(proposal_backlog'[n], p)
      BY <1>2, <1>3, <1>6, <3>1, ZenonT(60) DEF CheckedOnce, Unchecked, FewerOf
    <3>3. ASSUME NEW s \in Nodes, NEW m \in Nodes, In(msgs', s, m, "REQUEST", p)
          PROVE  /\ s = n /\ m # n /\ p \in created' /\ p \notin validated'[m]
                 /\ Once(msgs'[<<s, m>>], Msg("REQUEST", p))
                 /\ ~Contains(verification_request_backlog'[m], p)
      <4>1. s = n /\ m # n
        BY Zenon, <1>6, <2>1, <3>1, <3>3 DEF Added, CheckedOnce
      <4>2. ~In(msgs, s, m, "REQUEST", p) /\ p \notin validated[m] /\ ~Contains(verification_request_backlog[m], p)
        BY <1>6, <3>1, <4>1 DEF Unrequested
      <4>3. Once(msgs'[<<s, m>>], Msg("REQUEST", p))
        BY <2>1, <4>2, Zenon DEF AddedOnce
      <4> QED BY <1>3, <3>1, <4>1, <4>2, <4>3
    <3> QED BY <1>3, <1>6, <3>1, <3>2, <3>3, Zenon DEF CheckedOnce
  <2> QED BY <2>2, <2>3 DEF Checks
<1> QED BY <1>5, <1>6

\* The steps that call no manager keep every proposal checked once.
LEMMA NoCallChecks ==
    ASSUME IInv, Checks, NEW n \in Nodes, NoCall(n)
    PROVE  Checks'
<1> USE DEF engineVars, historyVars
<1>1. CASE MessageTimeout(n) \/ UpdateTimeout(n)
  <2>1. UNCHANGED <<updates, msgs, backlogs>> /\ UNCHANGED <<created, validated>>
    BY <1>1 DEF MessageTimeout, UpdateTimeout
  <2> QED BY <2>1, Alone, QuietChecks DEF Untouched
<1>2. ASSUME NEW s \in Nodes, NEW t, NEW p, Update(n, s, t, p), updates' = Pop(updates, <<s, n>>),
             UNCHANGED backlogs, UNCHANGED <<created, validated>>,
             \A q : FewerOf(msgs, msgs', "REQUEST", q)
      PROVE  Checks'
  <2>1. \A q : FewerOf(updates, updates', "Proposal", q) /\ FewerOf(updates, updates', "Valid", q)
    BY <1>2, TakesAway
  <2> QED BY <1>2, <2>1, Alone, QuietChecks DEF Untouched
<1>3. ASSUME NEW s \in Nodes, NEW t, NEW p, Receive(n, s, t, p), msgs' = Pop(msgs, <<s, n>>),
             UNCHANGED backlogs, UNCHANGED <<created, validated>>, UNCHANGED updates
      PROVE  Checks'
  <2>1. \A q : FewerOf(msgs, msgs', "REQUEST", q)
    BY <1>3, TakesAway
  <2> QED BY <1>3, <2>1, Alone, QuietChecks DEF Untouched
<1>4. CASE NoneCreated(n)
  BY <1>2, <1>4, Alone DEF NoneCreated
<1>5. ASSUME NEW p \in Proposals, InvalidAtVerifier(n, p)
      PROVE  Checks'
  <2>1. msgs \in Messages
    BY DEF IInv, TypeOK, Messages
  <2>2. \A q : FewerOf(msgs, msgs', "REQUEST", q)
    BY <1>5, <2>1, NotRequests DEF InvalidAtVerifier
  <2> QED BY <1>2, <1>5, <2>2 DEF InvalidAtVerifier
<1>6. ASSUME NEW p \in Proposals, NEW s \in Nodes, UpdateIgnored(n, s, p)
      PROVE  Checks'
  <2>1. \E t : Update(n, s, t, p)
    BY <1>6 DEF UpdateIgnored
  <2>2. updates' = Pop(updates, <<s, n>>) /\ UNCHANGED backlogs /\ UNCHANGED <<created, validated>> /\ UNCHANGED msgs
    BY <1>6 DEF UpdateIgnored
  <2> QED BY <1>2, <2>1, <2>2, Alone
<1>7. ASSUME NEW p \in Proposals, NEW s \in Nodes, VerifiedCounted(n, s, p) \/ MessageIgnored(n, s, p)
      PROVE  Checks'
  <2>1. \E t : Receive(n, s, t, p)
    BY <1>7 DEF VerifiedCounted, MessageIgnored
  <2>2. msgs' = Pop(msgs, <<s, n>>) /\ UNCHANGED backlogs /\ UNCHANGED <<created, validated>> /\ UNCHANGED updates
    BY <1>7 DEF VerifiedCounted, MessageIgnored
  <2> QED BY <1>3, <2>1, <2>2
<1> QED BY <1>1, <1>4, <1>5, <1>6, <1>7, RequestWaits, ProposalWaits, VerdictPassedOn DEF NoCall

\* A verdict adds, about p alone, what it says.
LEMMA VerdictAdds ==
    ASSUME NEW ch \in Updates, NEW n \in Nodes, NEW p \in Proposals, NEW r
    PROVE  LET ch2 == Verdict(ch, n, p, r)
           IN  /\ \A q : FewerOf(ch, ch2, "Proposal", q)
               /\ \A q : q # p => FewerOf(ch, ch2, "Valid", q)
               /\ \A s, m \in Nodes : In(ch2, s, m, "Valid", p) => In(ch, s, m, "Valid", p) \/ (s = n /\ m = n /\ r = "valid")
               /\ \A s, m \in Nodes : ~In(ch, s, m, "Valid", p) => Once(ch2[<<s, m>>], Msg("Valid", p))
<1> DEFINE t == IF r = "valid" THEN "Valid" ELSE "Invalid"
           ch2 == Verdict(ch, n, p, r)
<1>1. t \in {"Valid", "Invalid"} /\ t # "Proposal" /\ (t = "Valid" => r = "valid")
  OBVIOUS
<1>2. Msg(t, p) \in ProposalUpdate
  BY <1>1, MsgFacts
<1>3. ch \in [Channels -> Seq(ProposalUpdate)] /\ ch2 = Push(ch, <<n, n>>, Msg(t, p))
  BY DEF Updates, Verdict
<1> HIDE DEF t, ch2
<1>4. Added(ch, ch2, n, {n}, t, p) /\ AddedOnce(ch, ch2, n, {n}, t, p)
  BY <1>2, <1>3, PushFacts, Zenon
<1>5. /\ \A q : FewerOf(ch, ch2, "Proposal", q)
      /\ \A q : q # p => FewerOf(ch, ch2, "Valid", q)
  BY <1>1, <1>4, FewerFacts
<1>6. \A s, m \in Nodes : In(ch2, s, m, "Valid", p) => In(ch, s, m, "Valid", p) \/ (s = n /\ m = n /\ r = "valid")
  BY <1>1, <1>4 DEF Added
<1>7. \A s, m \in Nodes : ~In(ch, s, m, "Valid", p) => Once(ch2[<<s, m>>], Msg("Valid", p))
  BY <1>4, Zenon DEF AddedOnce
<1> QED BY <1>5, <1>6, <1>7 DEF ch2

\* The verdicts on the other proposals stay.
LEMMA OtherVerdicts ==
    ASSUME IInv, NEW n \in Nodes, NEW p \in Proposals, NEW r, Validate(n, p, r), UNCHANGED created
    PROVE  /\ \A q : q # p => SameVerdict(q)
           /\ \A m \in Nodes : p \in validated'[m] => p \in validated[m] \/ (m = n /\ r = "valid")
<1>1. validated \in [Nodes -> SUBSET Proposals]
  BY DEF IInv, TypeOK
<1> QED BY <1>1 DEF Validate, SameVerdict

\* A verifier other than the coordinator checks p, which it has been asked to.
LEMMA CheckedByVerifier ==
    ASSUME IInv, Checks, NEW n \in Nodes, NEW p \in Proposals, NEW r,
           In(msgs, Coordinator(p), n, "REQUEST", p) \/ Contains(verification_request_backlog[n], p),
           In(msgs, Coordinator(p), n, "REQUEST", p) => ~In(msgs', Coordinator(p), n, "REQUEST", p),
           Contains(verification_request_backlog[n], p) => ~Contains(verification_request_backlog'[n], p),
           n # Coordinator(p), updates' = Verdict(updates, n, p, r), Validate(n, p, r), UNCHANGED created,
           \A q : /\ FewerOf(msgs, msgs', "REQUEST", q) 
                  /\ BacklogFewerOf(proposal_backlog, proposal_backlog', q)
                  /\ BacklogFewerOf(verification_request_backlog, verification_request_backlog', q)
    PROVE  Checks'
<1> DEFINE c == Coordinator(p)
<1>1. updates \in Updates /\ c \in Nodes /\ CheckedOnce(p)
  BY Zenon, CoordinatorFacts DEF IInv, TypeOK, Updates, Checks
<1>2. ASSUME NEW q \in Proposals, q # p
      PROVE  CheckedOnce(q)'
  <2>1. FewerOf(updates, updates', "Proposal", q) /\ FewerOf(updates, updates', "Valid", q)
    BY ZenonT(60), <1>1, <1>2, VerdictAdds
  <2>2. SameVerdict(q)
    BY <1>2, OtherVerdicts
  <2> QED BY Zenon, <2>1, <2>2, UntouchedStep DEF Untouched, Checks
<1>3. CheckedOnce(p)'
  <2>1. ~Unrequested(p) /\ p \in created
    BY <1>1, Zenon DEF Unrequested, CheckedOnce
  <2>2. /\ \A s \in Nodes : ~In(updates, s, c, "Proposal", p)
        /\ ~Contains(proposal_backlog[c], p) /\ ~In(updates, c, c, "Valid", p)
    BY <1>1, <2>1, Zenon DEF CheckedOnce, Unchecked
  <2>3. /\ \A s \in Nodes : ~In(updates', s, c, "Proposal", p)
        /\ ~Contains(proposal_backlog'[c], p) /\ ~In(updates', c, c, "Valid", p)
    <3>1. FewerOf(updates, updates', "Proposal", p) /\ BacklogFewerOf(proposal_backlog, proposal_backlog', p)
      BY ZenonT(60), <1>1, VerdictAdds
    <3>2. In(updates', c, c, "Valid", p) => In(updates, c, c, "Valid", p)
      BY <1>1, VerdictAdds
    <3> QED BY <1>1, <2>2, <3>1, <3>2, Zenon DEF FewerOf, BacklogFewerOf
  <2>4. ~In(msgs', c, n, "REQUEST", p) /\ ~Contains(verification_request_backlog'[n], p)
    BY <1>1, Zenon DEF FewerOf, BacklogFewerOf
  <2>5. ASSUME NEW m \in Nodes, m # n
        PROVE  p \in validated'[m] => p \in validated[m]
    BY Zenon, <2>5, OtherVerdicts
  <2>6. ASSUME NEW s \in Nodes, NEW m \in Nodes, In(msgs', s, m, "REQUEST", p)
        PROVE  /\ s = c /\ m # c /\ p \in created' /\ p \notin validated'[m]
               /\ Once(msgs'[<<s, m>>], Msg("REQUEST", p))
               /\ ~Contains(verification_request_backlog'[m], p)
    <3>1. In(msgs, s, m, "REQUEST", p) /\ (Once(msgs[<<s, m>>], Msg("REQUEST", p)) => Once(msgs'[<<s, m>>], Msg("REQUEST", p)))
      BY <2>6, Zenon DEF FewerOf
    <3>2. s = c /\ m # n
      BY <1>1, <2>4, <2>6, <3>1, Zenon DEF CheckedOnce
    <3>3. ~Contains(verification_request_backlog[m], p) => ~Contains(verification_request_backlog'[m], p)
      BY Zenon DEF BacklogFewerOf
    <3> QED BY <1>1, <2>5, <3>1, <3>2, <3>3, Zenon DEF CheckedOnce
  <2>7. ASSUME NEW m \in Nodes, Contains(verification_request_backlog'[m], p)
        PROVE  /\ m # c /\ p \in created' /\ p \notin validated'[m]
               /\ Once(verification_request_backlog'[m], p)
    <3>1. /\ Contains(verification_request_backlog[m], p) /\ m # n
          /\ Once(verification_request_backlog[m], p) => Once(verification_request_backlog'[m], p)
      BY <2>4, <2>7, Zenon DEF BacklogFewerOf
    <3> QED BY <1>1, <2>5, <3>1, Zenon DEF CheckedOnce
  <2> QED BY <2>1, <2>3, <2>6, <2>7, Zenon DEF CheckedOnce
<1> QED BY <1>2, <1>3 DEF Checks

\* The coordinator checks p, which it takes from where it waited, here leaving ch.
LEMMA CheckedByCoordinator ==
    ASSUME IInv, Checks, NEW n \in Nodes, NEW p \in Proposals, NEW r, NEW ch \in Updates,
           n = Coordinator(p), Unchecked(p), p \in created,
           \A q : FewerOf(updates, ch, "Proposal", q) /\ FewerOf(updates, ch, "Valid", q),
           \A s \in Nodes : ~In(ch, s, n, "Proposal", p),
           ~Contains(proposal_backlog'[n], p),
           updates' = Verdict(ch, n, p, r), Validate(n, p, r), UNCHANGED created,
           \A q : /\ FewerOf(msgs, msgs', "REQUEST", q) 
                  /\ BacklogFewerOf(proposal_backlog, proposal_backlog', q)
                  /\ BacklogFewerOf(verification_request_backlog, verification_request_backlog', q)
    PROVE  Checks'
<1>1. ASSUME NEW q \in Proposals, q # p
      PROVE  CheckedOnce(q)'
  <2>1. FewerOf(ch, updates', "Proposal", q) /\ FewerOf(ch, updates', "Valid", q)
    BY Zenon, <1>1, VerdictAdds
  <2>2. FewerOf(updates, updates', "Proposal", q) /\ FewerOf(updates, updates', "Valid", q)
    BY <2>1, FewerFacts
  <2>3. SameVerdict(q)
    BY Zenon, <1>1, OtherVerdicts
  <2> QED BY Zenon, <2>2, <2>3, UntouchedStep DEF Untouched, Checks
<1>2. CheckedOnce(p)'
  <2>1. CheckedOnce(p) /\ Unrequested(p) /\ ~In(ch, n, n, "Valid", p)
    BY Zenon DEF Checks, Unchecked, FewerOf
  <2>2. \A m \in Nodes : m # n => ~(p \in validated'[m])
    BY <2>1, OtherVerdicts DEF Unrequested
  <2>3. Unrequested(p)'
    BY Zenon, <2>1, <2>2 DEF Unrequested, FewerOf, BacklogFewerOf
  <2>4. \A s \in Nodes : ~In(updates', s, n, "Proposal", p)
    <3>1. FewerOf(ch, updates', "Proposal", p)
      BY VerdictAdds
    <3> QED BY <3>1, ZenonT(60) DEF FewerOf
  <2>5. Once(updates'[<<n, n>>], Msg("Valid", p))
    BY Zenon, <2>1, VerdictAdds
  <2>6. \A s, m \in Nodes : ~In(msgs', s, m, "REQUEST", p)
    BY <2>1, Zenon DEF CheckedOnce, Unrequested, FewerOf
  <2>7. \A m \in Nodes : ~Contains(verification_request_backlog'[m], p)
    BY <2>1, Zenon DEF CheckedOnce, Unrequested, BacklogFewerOf
  <2> QED BY <2>3, <2>4, <2>5, <2>6, <2>7, Zenon DEF CheckedOnce
<1> QED BY <1>1, <1>2 DEF Checks

\* check_proposal is asked about a proposal that its manager has not found valid before, and
\* the proposal stays checked once.
LEMMA CheckCallChecks ==
    ASSUME IInv, Checks, NEW n \in Nodes, NEW p \in Proposals, NEW r, CheckCall(n, p, r)
    PROVE  Checks' /\ p \notin validated[n]
<1> DEFINE c == Coordinator(p)
<1>0. /\ c \in Nodes /\ CheckedOnce(p) /\ updates \in Updates
      /\ proposal_backlog \in Backlogs /\ verification_request_backlog \in Backlogs
  BY CoordinatorFacts DEF IInv, TypeOK, Checks, Updates, Backlogs
<1>1. ASSUME HandleBackloggedRequest(n, p, r)
      PROVE  Checks' /\ p \notin validated[n]
  <2>1. PICK i \in DOMAIN verification_request_backlog[n], j \in DOMAIN proposal_backlog[n] :
          /\ p = verification_request_backlog[n][i] 
          /\ verification_request_backlog' = Without(verification_request_backlog, n, i)
          /\ proposal_backlog' = Without(proposal_backlog, n, j)
    BY <1>1 DEF HandleBackloggedRequest, BackloggedRequest
  <2>2. /\ Contains(verification_request_backlog[n], p)
        /\ Once(verification_request_backlog[n], p) => ~Contains(verification_request_backlog'[n], p)
        /\ BacklogFewer(verification_request_backlog, verification_request_backlog')
        /\ BacklogFewer(proposal_backlog, proposal_backlog')
    BY <1>0, <2>1, WithoutFacts
  <2>3. /\ n # c /\ p \notin validated[n] /\ ~Contains(verification_request_backlog'[n], p)
        /\ ~In(msgs, c, n, "REQUEST", p)
    BY <1>0, <2>2, ZenonT(60) DEF CheckedOnce
  <2>4. \A q : /\ BacklogFewerOf(proposal_backlog, proposal_backlog', q)
               /\ BacklogFewerOf(verification_request_backlog, verification_request_backlog', q)
    BY <2>2, FewerFacts
  <2>5. UNCHANGED <<msgs, created>> /\ \A q : FewerOf(msgs, msgs', "REQUEST", q)
    BY <1>1, Alone DEF HandleBackloggedRequest
  <2>6. CASE r = "error"
    <3>1. UNCHANGED updates /\ UNCHANGED <<created, validated>>
      BY <1>1, <2>6 DEF HandleBackloggedRequest
    <3> QED BY Zenon, <2>3, <2>4, <2>5, <3>1, Alone, QuietChecks DEF Untouched
  <2>7. CASE r # "error"
    <3>1. updates' = Verdict(updates, n, p, r) /\ Validate(n, p, r)
      BY <1>1, <2>7 DEF HandleBackloggedRequest
    <3> QED BY Zenon, <2>2, <2>3, <2>4, <2>5, <3>1, CheckedByVerifier
  <2> QED BY <2>6, <2>7
<1>2. ASSUME NEW s \in Nodes, RequestEvaluated(n, s, p, r)
      PROVE  Checks' /\ p \notin validated[n]
  <2>1. msgs' = Pop(msgs, <<s, n>>) /\ Receive(n, s, "REQUEST", p) /\ UNCHANGED <<verification_request_backlog, created>>
    BY Zenon, <1>2 DEF RequestEvaluated
  <2>2. /\ In(msgs, s, n, "REQUEST", p) /\ \A q : FewerOf(msgs, msgs', "REQUEST", q)
        /\ Once(msgs[<<s, n>>], Msg("REQUEST", p)) => ~In(msgs', s, n, "REQUEST", p)
    <3>1. msgs \in [Channels -> Seq(ConsensusMsg)]
      BY DEF IInv, TypeOK
    <3>2. At(msgs, <<s, n>>, Msg("REQUEST", p)) /\ msgs[<<s, n>>] # <<>>
      BY <2>1 DEF Receive, At
    <3> QED BY <2>1, <3>1, <3>2, PopFacts, TakesAway, Zenon
  <2>3. /\ s = c /\ n # c /\ p \notin validated[n] /\ ~Contains(verification_request_backlog[n], p)
        /\ ~In(msgs', c, n, "REQUEST", p)
    BY <1>0, <2>2, Zenon DEF CheckedOnce
  <2>4. \A q : BacklogFewerOf(verification_request_backlog, verification_request_backlog', q)
    BY <2>1, FewerFacts
  <2>5. CASE r = "error"
    <3>1. UNCHANGED <<updates, proposal_backlog, created, validated>>
      BY <1>2, <2>5 DEF RequestEvaluated
    <3>2. \A q : BacklogFewerOf(proposal_backlog, proposal_backlog', q)
      BY <3>1, FewerFacts
    <3> QED BY ZenonT(60), <2>2, <2>3, <2>4, <3>1, <3>2, Alone, QuietChecks DEF Untouched
  <2>6. CASE r # "error"
    <3>1. updates' = Verdict(updates, n, p, r) /\ Validate(n, p, r)
      BY <1>2, <2>6 DEF RequestEvaluated
    <3>2. PICK j \in DOMAIN proposal_backlog[n] : proposal_backlog' = Without(proposal_backlog, n, j)
      BY <1>2, <2>6 DEF RequestEvaluated
    <3>3. BacklogFewer(proposal_backlog, proposal_backlog')
      BY <1>0, <3>2, WithoutFacts
    <3>4. \A q : BacklogFewerOf(proposal_backlog, proposal_backlog', q)
      BY Zenon, <3>3, FewerFacts
    <3> QED BY ZenonT(60), <2>1, <2>2, <2>3, <2>4, <3>1, <3>4, CheckedByVerifier
  <2> QED BY <2>5, <2>6
<1>3. ASSUME CoordinateNext(n, p, r)
      PROVE  Checks' /\ p \notin validated[n]
  <2>1. PICK j \in DOMAIN proposal_backlog[n] :
          p = proposal_backlog[n][j] /\ proposal_backlog' = Without(proposal_backlog, n, j) /\ n = c
    BY Zenon, <1>3 DEF CoordinateNext, TakeNextProposal, NextToCoordinate
  <2>2. /\ updates' = Verdict(updates, n, p, r) /\ Validate(n, p, r)
        /\ UNCHANGED <<created, msgs, verification_request_backlog>>
    BY Zenon, <1>3 DEF CoordinateNext, start_coordination, TakeNextProposal
  <2>3. /\ p \in created /\ ~Contains(proposal_backlog'[n], p) /\ BacklogFewer(proposal_backlog, proposal_backlog')
        /\ \A s \in Nodes : ~In(updates, s, n, "Proposal", p)
    BY <2>1, TakenFromBacklog DEF FewerBacklogged
  <2>4. Unchecked(p) /\ p \notin validated[n]
    <3>1. Contains(proposal_backlog[n], p)
      BY <1>0, <2>1, WithoutFacts
    <3> QED BY <1>0, <2>1, <3>1, Zenon DEF CheckedOnce, Unchecked
  <2>5. \A q : /\ BacklogFewerOf(proposal_backlog, proposal_backlog', q)
               /\ BacklogFewerOf(verification_request_backlog, verification_request_backlog', q)
               /\ FewerOf(msgs, msgs', "REQUEST", q)
               /\ FewerOf(updates, updates, "Proposal", q) /\ FewerOf(updates, updates, "Valid", q)
    BY Zenon, <2>2, <2>3, FewerFacts
  <2> QED BY Zenon, <1>0, <2>1, <2>2, <2>3, <2>4, <2>5, CheckedByCoordinator
<1>4. ASSUME NEW s \in Nodes, CoordinateProposal(n, s, p, r)
      PROVE  Checks' /\ p \notin validated[n]
  <2> DEFINE ch == Pop(updates, <<s, n>>)
  <2>1. Update(n, s, "Proposal", p) /\ n = c /\ UNCHANGED backlogs
    BY <1>4 DEF CoordinateProposal, ProposalToCoordinate
  <2>2. updates' = Verdict(ch, n, p, r) /\ Validate(n, p, r) /\ UNCHANGED <<created, msgs>>
    BY <1>4 DEF CoordinateProposal, start_coordination, ProposalToCoordinate
  <2>3. /\ ch \in Updates /\ In(updates, s, n, "Proposal", p)
        /\ \A q : FewerOf(updates, ch, "Proposal", q) /\ FewerOf(updates, ch, "Valid", q)
    BY <2>1, UpdateFacts, TakesAway, Zenon
  <2>4. /\ p \in created /\ ~Contains(proposal_backlog'[n], p)
        /\ \A t \in Nodes : ~In(ch, t, n, "Proposal", p)
    BY <2>1, TakenFromQueue, Zenon DEF backlogs
  <2>5. Unchecked(p) /\ p \notin validated[n]
    BY <1>0, <2>1, <2>3, Zenon DEF CheckedOnce, Unchecked
  <2>6. \A q : /\ BacklogFewerOf(proposal_backlog, proposal_backlog', q)
               /\ BacklogFewerOf(verification_request_backlog, verification_request_backlog', q)
               /\ FewerOf(msgs, msgs', "REQUEST", q)
    BY <2>1, <2>2, Alone
  <2> HIDE DEF ch
  <2> QED BY Zenon, <2>1, <2>2, <2>3, <2>4, <2>5, <2>6, CheckedByCoordinator
<1> QED BY <1>1, <1>2, <1>3, <1>4 DEF CheckCall

\* The steps in which the manager accepts or rejects only take requests and proposals away.
LEMMA DecisionChecks ==
    ASSUME IInv, Checks, NEW n \in Nodes, NEW p \in Proposals, NEW ok \in BOOLEAN,
           AcceptCall(n, p, ok) \/ RejectCall(n, p, ok) \/ CheckRejectCall(n, p, ok)
    PROVE  Checks'
<1> DEFINE Quiet == /\ \A q : FewerOf(msgs, msgs', "REQUEST", q)
                    /\ \A q : FewerOf(updates, updates', "Proposal", q) /\ FewerOf(updates, updates', "Valid", q)
                    /\ \A q : BacklogFewerOf(proposal_backlog, proposal_backlog', q)
                    /\ UNCHANGED <<verification_request_backlog, created, validated>>
<1>0. msgs \in Messages /\ proposal_backlog \in Backlogs /\ \A q : FewerOf(msgs, msgs, "REQUEST", q)
  BY FewerFacts DEF IInv, TypeOK, Messages, Backlogs
<1>1. Quiet => Checks'
  <2>1. UNCHANGED verification_request_backlog =>
          \A q : BacklogFewerOf(verification_request_backlog, verification_request_backlog', q)
    BY FewerFacts
  <2> QED BY <2>1, Alone, QuietChecks DEF Untouched
<1>2. ASSUME NEW s \in Nodes, VerifiedByAll(n, s, p, ok) \/ ApplyResult(n, s, p, ok) \/ FailedByPeer(n, s, p, ok)
                                \/ RejectResult(n, s, p, ok)
      PROVE  Quiet
  <2>1. /\ UNCHANGED <<backlogs, updates, created, validated>>
        /\ \E t : Receive(n, s, t, p)
        /\ \/ msgs' = Pop(msgs, <<s, n>>)
           \/ \E result \in {"APPLY", "REJECT"}, k \in BOOLEAN : complete_coordination(n, p, result, k, Pop(msgs, <<s, n>>))
    BY Zenon, <1>2 DEF VerifiedByAll, ApplyResult, FailedByPeer, RejectResult
  <2>2. Pop(msgs, <<s, n>>) \in Messages /\ \A q : FewerOf(msgs, Pop(msgs, <<s, n>>), "REQUEST", q)
    BY <2>1, ReceiveFacts, TakesAway
  <2>3. \A q : FewerOf(msgs, msgs', "REQUEST", q)
    BY <2>1, <2>2, CompleteRequests
  <2> QED BY <2>1, <2>3, Alone DEF backlogs
<1>3. ASSUME AbortTimedOut(n, p, ok)
      PROVE  Quiet
  <2>1. UNCHANGED <<backlogs, updates, created, validated>> /\ complete_coordination(n, p, "REJECT", ok, msgs)
    BY <1>3 DEF AbortTimedOut
  <2>2. \A q : FewerOf(msgs, msgs', "REQUEST", q)
    BY <1>0, <2>1, CompleteRequests
  <2> QED BY <2>1, <2>2, Alone DEF backlogs
<1>4. ASSUME InvalidAtCoordinator(n, p, ok)
      PROVE  Quiet
  <2>1. /\ UNCHANGED <<backlogs, created, validated>> /\ complete_coordination(n, p, "REJECT", ok, msgs)
        /\ Update(n, n, "Invalid", p) /\ updates' = Pop(updates, <<n, n>>)
    BY <1>4 DEF InvalidAtCoordinator
  <2>2. \A q : FewerOf(msgs, msgs', "REQUEST", q)
    BY <1>0, <2>1, CompleteRequests
  <2> QED BY <2>1, <2>2, TakesAway, Alone DEF backlogs
<1>5. ASSUME CoordinateNextFails(n, p, ok)
      PROVE  Quiet
  <2>1. /\ UNCHANGED <<verification_request_backlog, updates, created, validated>>
        /\ complete_coordination(n, p, "REJECT", ok, msgs)
        /\ \E j \in DOMAIN proposal_backlog[n] : proposal_backlog' = Without(proposal_backlog, n, j)
    BY Zenon, <1>5 DEF CoordinateNextFails, TakeNextProposal
  <2>2. \A q : FewerOf(msgs, msgs', "REQUEST", q)
    BY <1>0, <2>1, CompleteRequests
  <2>3. BacklogFewer(proposal_backlog, proposal_backlog')
    BY <1>0, <2>1, WithoutFacts
  <2> QED BY <2>1, <2>2, <2>3, FewerFacts, Alone
<1>6. ASSUME NEW s \in Nodes, CoordinateProposalFails(n, s, p, ok)
      PROVE  Quiet
  <2>1. /\ UNCHANGED <<backlogs, created, validated>> /\ complete_coordination(n, p, "REJECT", ok, msgs)
        /\ Update(n, s, "Proposal", p) /\ updates' = Pop(updates, <<s, n>>)
    BY <1>6 DEF CoordinateProposalFails, ProposalToCoordinate
  <2>2. \A q : FewerOf(msgs, msgs', "REQUEST", q)
    BY <1>0, <2>1, CompleteRequests
  <2> QED BY <2>1, <2>2, TakesAway, Alone DEF backlogs
<1> HIDE DEF Quiet
<1> QED BY <1>1, <1>2, <1>3, <1>4, <1>5, <1>6 DEF AcceptCall, RejectCall, CheckRejectCall

\* A new proposal is unchecked wherever it is sent to.
LEMMA CreationChecks ==
    ASSUME IInv, Checks, NEW n \in Nodes,
           \/ CreateProposal(n, NoProposal) \/ CreateProposalFails(n, NoProposal, {})
           \/ \E p \in Proposals \ created : Creates(n, p)
    PROVE  Checks'
<1>0. /\ UNCHANGED <<msgs, backlogs, validated>> /\ created \subseteq created' /\ updates \in Updates
      /\ NoProposal \notin Proposals
  BY Zenon, VerifiersAssumption DEF CreateProposal, CreateProposalFails, Creates, engineVars, backlogs, IInv, TypeOK, Updates
<1>1. \A q : /\ FewerOf(msgs, msgs', "REQUEST", q) /\ SameVerdict(q)
             /\ BacklogFewerOf(proposal_backlog, proposal_backlog', q)
             /\ BacklogFewerOf(verification_request_backlog, verification_request_backlog', q)
  <2>1. \A q : SameVerdict(q)
    BY Zenon, <1>0 DEF SameVerdict
  <2> QED BY <1>0, <2>1, Alone
<1>2. ASSUME CreateProposal(n, NoProposal) \/ CreateProposalFails(n, NoProposal, {})
      PROVE  Checks'
  <2>1. ASSUME NEW q \in Proposals
        PROVE  FewerOf(updates, updates', "Proposal", q) /\ FewerOf(updates, updates', "Valid", q)
    <3>1. CASE UNCHANGED updates
      BY <3>1, Alone
    <3>2. CASE updates' = Push(updates, <<n, n>>, Msg("None", NoProposal))
      <4>1. Msg("None", NoProposal) \in ProposalUpdate
        BY MsgFacts
      <4>2. updates \in [Channels -> Seq(ProposalUpdate)]
        BY <1>0 DEF Updates
      <4>3. Added(updates, updates', n, {n}, "None", NoProposal) /\ AddedOnce(updates, updates', n, {n}, "None", NoProposal)
        BY <3>2, <4>1, <4>2, PushFacts, Zenon
      <4>4. "Proposal" # "None" /\ "Valid" # "None"
        OBVIOUS
      <4> QED BY <4>3, <4>4, FewerFacts
    <3> QED BY <1>2, <3>1, <3>2 DEF CreateProposal, CreateProposalFails
  <2> QED BY <1>1, <2>1, QuietChecks DEF Untouched
<1>3. ASSUME NEW p \in Proposals \ created, Creates(n, p)
      PROVE  Checks'
  <2>0. created' = created \cup {p} /\ p # NoProposal
    BY <1>0, <1>3 DEF Creates, CreateProposal, CreateProposalFails
  <2>1. /\ \A q \in Proposals : FewerOf(updates, updates', "Valid", q)
        /\ \A q \in Proposals : q # p => FewerOf(updates, updates', "Proposal", q)
    <3> DEFINE Sent(ch, ch2) == /\ ch2 \in Updates
                                /\ \A q : FewerOf(ch, ch2, "Valid", q)
                                /\ \A q : q # p => FewerOf(ch, ch2, "Proposal", q)
    <3>a. Msg("Proposal", p) \in ProposalUpdate /\ "Valid" # "Proposal"
      BY MsgFacts
    <3>1. ASSUME NEW ch \in Updates, NEW to
          PROVE  Sent(ch, SendAll(ch, n, to, Msg("Proposal", p)))
      <4> DEFINE ch2 == SendAll(ch, n, to, Msg("Proposal", p))
      <4>1. ch \in [Channels -> Seq(ProposalUpdate)]
        BY <3>1 DEF Updates
      <4>2. ch2 \in Updates /\ Added(ch, ch2, n, to, "Proposal", p) /\ AddedOnce(ch, ch2, n, to, "Proposal", p)
        BY <3>a, <4>1, SendAllFacts, Zenon DEF Updates
      <4> HIDE DEF ch2
      <4>3. Sent(ch, ch2)
        BY <3>a, <4>2, FewerFacts
      <4> QED BY <4>3 DEF ch2
    <3>2. ASSUME NEW ch \in Updates
          PROVE  Sent(ch, Push(ch, <<n, n>>, Msg("Proposal", p)))
      <4> DEFINE ch2 == Push(ch, <<n, n>>, Msg("Proposal", p))
      <4>1. ch \in [Channels -> Seq(ProposalUpdate)]
        BY <3>2 DEF Updates
      <4>2. ch2 \in Updates /\ Added(ch, ch2, n, {n}, "Proposal", p) /\ AddedOnce(ch, ch2, n, {n}, "Proposal", p)
        BY <3>a, <4>1, PushFacts, ZenonT(60) DEF Updates
      <4> HIDE DEF ch2
      <4>3. Sent(ch, ch2)
        BY <3>a, <4>2, FewerFacts
      <4> QED BY <4>3 DEF ch2
    <3>3. CASE \E to : updates' = SendAll(updates, n, to, Msg("Proposal", p))
      <4>1. Sent(updates, updates')
        BY <1>0, <3>1, <3>3
      <4> QED BY <4>1
    <3>4. CASE updates' = Push(Broadcast(updates, n, "Proposal", p), <<n, n>>, Msg("Proposal", p))
      <4> DEFINE ch == Broadcast(updates, n, "Proposal", p)
      <4>1. Sent(updates, ch)
        BY Zenon, <1>0, <3>1 DEF Broadcast
      <4> HIDE DEF ch
      <4>2. Sent(ch, updates')
        BY <3>2, <3>4, <4>1 DEF ch
      <4> QED BY <4>1, <4>2, FewerFacts
    <3> QED BY Zenon, <1>3, <2>0, <3>3, <3>4 DEF Creates, CreateProposal, CreateProposalFails
  <2>2. ASSUME NEW q \in Proposals, q # p
        PROVE  CheckedOnce(q)'
    BY <1>1, <2>1, <2>2, UntouchedStep DEF Checks, Untouched
  <2>3. CheckedOnce(p)'
    <3> DEFINE c == Coordinator(p)
    <3>1. CheckedOnce(p) /\ c \in Nodes /\ p \in Proposals /\ p \in created'
      BY Zenon, <2>0, CoordinatorFacts DEF Checks
    <3>2. /\ \A m \in Nodes : p \notin validated[m] /\ ~Contains(verification_request_backlog[m], p)
          /\ ~In(updates, c, c, "Valid", p)
          /\ \A s, m \in Nodes : ~In(msgs, s, m, "REQUEST", p)
      BY <3>1, Zenon DEF CheckedOnce
    <3>3. UNCHANGED <<msgs, verification_request_backlog, validated>>
      BY <1>0 DEF backlogs
    <3>4. ~In(updates', c, c, "Valid", p)
      BY <2>1, <3>1, <3>2, Zenon DEF FewerOf
    <3>5. Unchecked(p)'
      BY Zenon, <3>1, <3>2, <3>3, <3>4 DEF Unchecked, Unrequested
    <3> QED BY Zenon, <3>1, <3>2, <3>3, <3>4, <3>5 DEF CheckedOnce
  <2> QED BY <2>2, <2>3 DEF Checks
<1> QED BY <1>2, <1>3

\* Lost messages, stops and starts only take away.
LEMMA DisturbanceChecks ==
    ASSUME IInv, Checks, Disturbances
    PROVE  Checks'
<1>0. /\ msgs \in [Channels -> Seq(ConsensusMsg)] /\ updates \in [Channels -> Seq(ProposalUpdate)]
      /\ proposal_backlog \in Backlogs /\ verification_request_backlog \in Backlogs
  BY DEF IInv, TypeOK, Backlogs
<1>1. ASSUME NEW s \in Nodes, NEW m \in Nodes, LoseMessage(<<s, m>>)
      PROVE  Checks'
  <2>1. /\ UNCHANGED <<updates, backlogs, created, validated>> /\ msgs' = Pop(msgs, <<s, m>>) /\ msgs[<<s, m>>] # <<>>
    BY <1>1 DEF LoseMessage, engineVars, historyVars
  <2>2. Fewer(msgs, msgs', "REQUEST")
    BY <1>0, <2>1, PopFacts, Zenon
  <2> QED BY Zenon, <2>1, <2>2, FewerFacts, Alone, QuietChecks DEF Untouched
<1>2. ASSUME NEW s \in Nodes, NEW m \in Nodes, LoseProposal(<<s, m>>)
      PROVE  Checks'
  <2>1. UNCHANGED <<msgs, backlogs, created, validated>> /\ updates' = Pop(updates, <<s, m>>) /\ updates[<<s, m>>] # <<>>
    BY <1>2 DEF LoseProposal, engineVars, historyVars
  <2>2. Fewer(updates, updates', "Proposal") /\ Fewer(updates, updates', "Valid")
    BY <1>0, <2>1, PopFacts, Zenon
  <2> QED BY Zenon, <2>1, <2>2, FewerFacts, Alone, QuietChecks DEF Untouched
<1>3. ASSUME NEW n \in Nodes, TimeoutElapses(n) \/ Start(n)
      PROVE  Checks'
  <2>1. UNCHANGED <<msgs, updates, backlogs, created, validated>>
    BY <1>3 DEF TimeoutElapses, Start, engineVars, historyVars
  <2> QED BY <2>1, Alone, QuietChecks DEF Untouched
<1>4. ASSUME NEW n \in Nodes, Stop(n)
      PROVE  Checks'
  <2>1. /\ UNCHANGED <<msgs, created, validated>> /\ updates' = [updates EXCEPT ![<<n, n>>] = <<>>]
        /\ proposal_backlog' = [proposal_backlog EXCEPT ![n] = <<>>]
        /\ verification_request_backlog' = [verification_request_backlog EXCEPT ![n] = <<>>]
    BY <1>4 DEF Stop, historyVars
  <2>2. Fewer(updates, updates', "Proposal") /\ Fewer(updates, updates', "Valid")
    BY <1>0, <2>1, ClearFacts, Zenon
  <2>3. ASSUME NEW b \in Backlogs, NEW q
        PROVE  BacklogFewerOf(b, [b EXCEPT ![n] = <<>>], q)
    BY DEF BacklogFewerOf, Backlogs, Contains, Once
  <2>4. \A q : /\ BacklogFewerOf(proposal_backlog, proposal_backlog', q)
               /\ BacklogFewerOf(verification_request_backlog, verification_request_backlog', q)
    BY Zenon, <1>0, <2>1, <2>3
  <2> QED BY Zenon, <2>1, <2>2, <2>4, FewerFacts, Alone, QuietChecks DEF Untouched
<1>5. \A c \in Channels : \E s, m \in Nodes : c = <<s, m>>
  BY DEF Channels
<1> QED BY <1>1, <1>2, <1>3, <1>4, <1>5 DEF Disturbances

\* A step of the engines, whatever the manager answers, in which no proposal is built again.
Proceeds ==
    \/ UNCHANGED vars
    \/ \E n \in Nodes : NoCall(n) \/ Answers(n) \/ \E p \in Proposals \ created : Creates(n, p)
    \/ Disturbances

\* Every such step keeps the invariant of the engines, and every proposal checked once.
LEMMA EnginesProceed ==
    ASSUME IInv, Checks, Proceeds
    PROVE  IInv' /\ Checks'
<1>1. CASE UNCHANGED vars
  <2>1. IInv'
    BY <1>1, InvStep
  <2>2. UNCHANGED <<msgs, updates, backlogs, created, validated>>
    BY <1>1 DEF vars, engineVars, historyVars
  <2> QED BY <2>1, <2>2, Alone, QuietChecks DEF Untouched
<1>2. ASSUME NEW n \in Nodes, NoCall(n)
      PROVE  IInv' /\ Checks'
  <2>1. TypeOK'
    BY <1>2, NoCallType DEF IInv
  <2> QED BY <1>2, <2>1, NoCallStep, NoCallChecks DEF IInv, Facts
<1>3. ASSUME NEW n \in Nodes, Answers(n) \/ \E p \in Proposals \ created : Creates(n, p)
      PROVE  IInv' /\ Checks'
  <2>1. TypeOK'
    BY <1>3, CallsType DEF IInv
  <2>2. Checks'
    BY Zenon, <1>3, CheckCallChecks, DecisionChecks, CreationChecks DEF Answers
  <2> QED BY <1>3, <2>1, <2>2, CallsStep DEF IInv, Facts
<1>4. CASE Disturbances
  <2>1. TypeOK'
    BY <1>4, EnvironmentType DEF IInv
  <2> QED BY <1>4, <2>1, EnvironmentStep, DisturbanceChecks DEF IInv, Facts
<1> QED BY <1>1, <1>2, <1>3, <1>4 DEF Proceeds

\* At the start no proposal has been checked.
LEMMA ChecksInit == Init => Checks
<1> SUFFICES ASSUME Init PROVE Checks
  OBVIOUS
<1>1. \A s, n \in Nodes : msgs[<<s, n>>] = <<>> /\ updates[<<s, n>>] = <<>>
  BY Zenon DEF Init, Channels
<1>2. \A n \in Nodes : /\ proposal_backlog[n] = <<>> /\ verification_request_backlog[n] = <<>>
                      /\ validated[n] = {}
  BY Zenon DEF Init
<1>3. \A x : ~Contains(<<>>, x)
  BY DEF Contains
<1>4. ASSUME NEW p \in Proposals
      PROVE  CheckedOnce(p)
  BY Zenon, <1>1, <1>2, <1>3, CoordinatorFacts DEF CheckedOnce, In
<1> QED BY <1>4 DEF Checks

\* No manager is asked to check a proposal that it has found valid before.
CheckedAtMostOnce ==
    [][\A n \in Nodes, p \in Proposals : (\E r \in {"valid", "invalid", "error"} : CheckCall(n, p, r)) =>
          p \notin validated[n]]_vars

\* However requests, proposals and their copies in the backlogs arrive, check_proposal is called
\* no more on a proposal once it has found it valid.
THEOREM ManagersAskedOnce == Spec => CheckedAtMostOnce
<1> DEFINE AskedOnce == \A n \in Nodes, p \in Proposals :
                          (\E r \in {"valid", "invalid", "error"} : CheckCall(n, p, r)) => p \notin validated[n]
<1>1. [Next]_vars => Proceeds
  BY CallsAnswer DEF Next, Environment, Proceeds, Disturbances
<1>2. IInv /\ Checks /\ [Next]_vars => IInv' /\ Checks'
  BY <1>1, EnginesProceed
<1>3. IInv /\ Checks => AskedOnce
  BY CheckCallChecks
<1>4. Init => IInv /\ Checks
  BY InvInit, ChecksInit
<1>5. AskedOnce => [AskedOnce]_vars
  OBVIOUS
<1> HIDE DEF AskedOnce
<1>6. Spec => [][AskedOnce]_vars
  BY <1>2, <1>3, <1>4, <1>5, PTL DEF Spec
<1> QED BY <1>6 DEF CheckedAtMostOnce, AskedOnce

-----------------------------------------------------------------------------
(* What the steps do to evaluations, verdicts and decisions. *)

\* The steps that neither start an evaluation nor accept anything.
LEMMA QuietEffect ==
    ASSUME TypeOK, NEW n \in Nodes,
           \/ NoCall(n) \/ Disturbances \/ UNCHANGED vars
           \/ \E p, ok : RejectCall(n, p, ok) \/ CheckRejectCall(n, p, ok)
    PROVE  NoNewEvaluation /\ UNCHANGED <<validated, accepted>>
<1>0. NoProposal \notin Proposals
  BY VerifiersAssumption
<1>1. ASSUME NEW m \in Nodes, NEW s \in {"Idle", "AwaitingProposal"}, Become(m, s, NoProposal)
      PROVE  NoNewEvaluation
  BY <1>0, <1>1 DEF Become, NoNewEvaluation, evaluating_proposal, TypeOK
<1>2. UNCHANGED <<state, current>> => NoNewEvaluation
  BY DEF NoNewEvaluation, evaluating_proposal
<1>3. ASSUME NEW p, NEW ok, NEW ch, complete_coordination(n, p, "REJECT", ok, ch)
      PROVE  NoNewEvaluation /\ UNCHANGED accepted
  BY <1>1, <1>2, <1>3 DEF complete_coordination, Reject, evaluation, decisions
<1>4. ASSUME NoCall(n)
      PROVE  NoNewEvaluation /\ UNCHANGED <<validated, accepted>>
  <2>1. CASE NoneCreated(n)
    BY <2>1 DEF NoneCreated, NoNewEvaluation, evaluating_proposal, TypeOK, historyVars, decisions
  <2>2. CASE ~NoneCreated(n)
    <3>1. UNCHANGED <<state, current, historyVars>>
      BY Zenon, <1>4, <2>2 DEF NoCall, MessageTimeout, UpdateTimeout, ProposalValid, InvalidAtVerifier, RequestBacklogged,
        VerifiedCounted, MessageIgnored, ProposalBacklogged, UpdateIgnored, engineVars, evaluation
    <3> QED BY <1>2, <3>1 DEF historyVars, decisions
  <2> QED BY <2>1, <2>2
<1>5. ASSUME Disturbances
      PROVE  NoNewEvaluation /\ UNCHANGED <<validated, accepted>>
  <2>1. UNCHANGED historyVars /\ (UNCHANGED evaluation \/ \E m \in Nodes : Become(m, "Idle", NoProposal))
    BY Zenon, <1>5 DEF Disturbances, LoseMessage, LoseProposal, TimeoutElapses, Stop, Start, engineVars
  <2> QED BY <1>1, <1>2, <2>1 DEF historyVars, decisions, evaluation
<1>6. ASSUME UNCHANGED vars
      PROVE  NoNewEvaluation /\ UNCHANGED <<validated, accepted>>
  BY <1>2, <1>6 DEF vars, engineVars, evaluation, historyVars, decisions
<1>7. ASSUME NEW p, NEW ok, RejectCall(n, p, ok) \/ CheckRejectCall(n, p, ok)
      PROVE  NoNewEvaluation /\ UNCHANGED <<validated, accepted>>
  <2>1. CASE \E s \in Nodes : RejectResult(n, s, p, ok)
    BY <1>1, <1>2, <2>1 DEF RejectResult, Reject, evaluation, decisions
  <2>2. CASE ~ \E s \in Nodes : RejectResult(n, s, p, ok)
    <3>1. UNCHANGED validated /\ \E ch : complete_coordination(n, p, "REJECT", ok, ch)
      BY Zenon, <1>7, <2>2 DEF RejectCall, CheckRejectCall, AbortTimedOut, InvalidAtCoordinator, FailedByPeer,
        CoordinateNextFails, CoordinateProposalFails
    <3> QED BY <1>3, <3>1
  <2> QED BY <2>1, <2>2
<1> QED BY <1>4, <1>5, <1>6, <1>7

\* create_proposal is called in State::Idle.
LEMMA CreateEffect ==
    ASSUME TypeOK, NEW n \in Nodes, NEW p, CreateProposal(n, p) \/ \E to : CreateProposalFails(n, p, to)
    PROVE  /\ NoNewEvaluation /\ UNCHANGED <<validated, accepted>>
           /\ \A q : ~evaluating_proposal(n, q)'
  BY DEF CreateProposal, CreateProposalFails, Become, NoNewEvaluation, evaluating_proposal, TypeOK, decisions,
         engineVars, evaluation

\* An answer of check_proposal other than an error starts the evaluation.
LEMMA CheckEffect ==
    ASSUME NEW n \in Nodes, NEW p, NEW r, CheckCall(n, p, r)
    PROVE  /\ UNCHANGED accepted
           /\ \/ r = "error" /\ UNCHANGED <<state, current, validated>>
              \/ r # "error" /\ Become(n, "EvaluatingProposal", p) /\ Validate(n, p, r)
  BY Zenon DEF CheckCall, HandleBackloggedRequest, RequestEvaluated, CoordinateNext, CoordinateProposal, start_coordination,
         evaluation, decisions

\* accept_proposal is called on the proposal under evaluation, which the manager of a verifier
\* has found valid; where it is not the coordinator's, the coordinator's has accepted it.
LEMMA AcceptEffect ==
    ASSUME IInv, NEW n \in Nodes, NEW p \in Proposals, NEW ok \in BOOLEAN, AcceptCall(n, p, ok), n \in Verifiers[p]
    PROVE  /\ evaluating_proposal(n, p) /\ p \in validated[n]
           /\ n # Coordinator(p) => p \in accepted[Coordinator(p)]
           /\ NoNewEvaluation /\ UNCHANGED validated
           /\ IF ok THEN accepted' = [accepted EXCEPT ![n] = @ \cup {p}] ELSE UNCHANGED accepted
<1>0. /\ NoProposal \notin Proposals /\ Coordinator(p) \in Nodes
      /\ MessagesTrue(p) /\ VotesTrue(p) /\ DecisionsFollow(p) /\ TypeOK
  BY VerifiersAssumption, CoordinatorFacts DEF IInv
<1>1. Become(n, "Idle", NoProposal) => NoNewEvaluation
  <2> SUFFICES ASSUME Become(n, "Idle", NoProposal), NEW m \in Nodes, NEW q \in Proposals, evaluating_proposal(m, q)'
               PROVE  evaluating_proposal(m, q)
    BY Zenon DEF NoNewEvaluation
  <2>1. m # n /\ state'[m] = state[m] /\ current'[m] = current[m]
    BY ZenonT(60), <1>0 DEF Become, evaluating_proposal, TypeOK
  <2> QED BY Zenon, <2>1 DEF evaluating_proposal
<1>2. UNCHANGED <<state, current>> => NoNewEvaluation
  BY DEF NoNewEvaluation, evaluating_proposal
<1>3. ASSUME NEW s \in Nodes, VerifiedByAll(n, s, p, ok)
      PROVE  /\ evaluating_proposal(n, p) /\ p \in validated[n]
             /\ n # Coordinator(p) => p \in accepted[Coordinator(p)]
             /\ NoNewEvaluation /\ UNCHANGED validated
             /\ IF ok THEN accepted' = [accepted EXCEPT ![n] = @ \cup {p}] ELSE UNCHANGED accepted
  <2>1. evaluating_proposal(n, p) /\ AllVerified(n, s, p) /\ Receive(n, s, "VERIFIED", p) /\ UNCHANGED validated
    BY <1>3 DEF VerifiedByAll
  <2>2. In(msgs, s, n, "VERIFIED", p)
    BY Zenon, <2>1, ReceiveFacts
  <2>3. n = Coordinator(p) /\ p \in validated[s]
    BY ZenonT(60), <1>0, <2>2 DEF MessagesTrue
  <2>4. p \in validated[n]
    BY <1>0, <2>1, <2>3 DEF AllVerified, VotesTrue
  <2>5. CASE ok
    BY Zenon, <1>1, <1>3, <2>1, <2>3, <2>4, <2>5 DEF VerifiedByAll, complete_coordination, Accept
  <2>6. CASE ~ok
    BY ZenonT(60), <1>2, <1>3, <2>1, <2>3, <2>4, <2>6 DEF VerifiedByAll, decisions
  <2> QED BY ZenonT(60), <2>5, <2>6
<1>4. ASSUME NEW s \in Nodes, ApplyResult(n, s, p, ok)
      PROVE  /\ evaluating_proposal(n, p) /\ p \in validated[n]
             /\ n # Coordinator(p) => p \in accepted[Coordinator(p)]
             /\ NoNewEvaluation /\ UNCHANGED validated
             /\ IF ok THEN accepted' = [accepted EXCEPT ![n] = @ \cup {p}] ELSE UNCHANGED accepted
  <2>1. evaluating_proposal(n, p) /\ Receive(n, s, "APPLY", p) /\ UNCHANGED validated
    BY Zenon, <1>4 DEF ApplyResult
  <2>2. In(msgs, s, n, "APPLY", p)
    BY Zenon, <2>1, ReceiveFacts
  <2>3. p \in accepted[Coordinator(p)]
    BY ZenonT(60), <1>0, <2>2 DEF MessagesTrue
  <2>4. p \in validated[n]
    BY <1>0, <2>3 DEF DecisionsFollow
  <2>5. CASE ok
    BY Zenon, <1>1, <1>4, <2>1, <2>3, <2>4, <2>5 DEF ApplyResult, Accept
  <2>6. CASE ~ok
    BY Zenon, <1>2, <1>4, <2>1, <2>3, <2>4, <2>6 DEF ApplyResult, decisions, evaluation
  <2> QED BY <2>5, <2>6
<1> QED BY Zenon, <1>3, <1>4 DEF AcceptCall

\* The history only grows.
LEMMA HistoryGrows ==
    ASSUME TypeOK, EngineMoves
    PROVE  \A n \in Nodes : /\ validated[n] \subseteq validated'[n]
                            /\ accepted[n] \subseteq accepted'[n]
                            /\ rejected[n] \subseteq rejected'[n]
<1>1. CommitStep
  BY StepsCommit
<1>2. /\ validated \in [Nodes -> SUBSET Proposals]
      /\ accepted \in [Nodes -> SUBSET Proposals] /\ rejected \in [Nodes -> SUBSET Proposals]
  BY DEF TypeOK
<1>3. CASE UNCHANGED <<validated, accepted, rejected>>
  BY <1>3
<1>4. ASSUME NEW m \in Nodes, NEW p \in Proposals,
             validated' = [validated EXCEPT ![m] = @ \cup {p}] /\ UNCHANGED decisions
      PROVE  \A n \in Nodes : /\ validated[n] \subseteq validated'[n]
                              /\ accepted[n] \subseteq accepted'[n] /\ rejected[n] \subseteq rejected'[n]
  BY <1>2, <1>4 DEF decisions
<1>5. ASSUME NEW m \in Nodes, NEW p \in Proposals, Accept(m, p) /\ UNCHANGED validated
      PROVE  \A n \in Nodes : /\ validated[n] \subseteq validated'[n]
                              /\ accepted[n] \subseteq accepted'[n] /\ rejected[n] \subseteq rejected'[n]
  BY <1>2, <1>5 DEF Accept
<1>6. ASSUME NEW m \in Nodes, NEW p \in Proposals, Reject(m, p) /\ UNCHANGED validated
      PROVE  \A n \in Nodes : /\ validated[n] \subseteq validated'[n]
                              /\ accepted[n] \subseteq accepted'[n] /\ rejected[n] \subseteq rejected'[n]
  BY <1>2, <1>6 DEF Reject
<1> QED BY Zenon, <1>1, <1>3, <1>4, <1>5, <1>6 DEF CommitStep

\* An engine that takes a step runs, and the others stay where they are.
LEMMA StepRuns ==
    ASSUME NEW n \in Nodes, NoCall(n) \/ Answers(n) \/ \E p : Creates(n, p)
    PROVE  pc[n] # "stopped" /\ \E to : Goto(n, to)
<1> USE DEF AtAbort, AtBacklog, AtNext, AtMessage, AtUpdate
<1>1. ASSUME NEW s, NEW t, NEW p, Receive(n, s, t, p) \/ Update(n, s, t, p)
      PROVE  pc[n] # "stopped" /\ \E to : Goto(n, to)
  BY <1>1 DEF Receive, Update
<1>2. ASSUME NoCall(n)
      PROVE  pc[n] # "stopped" /\ \E to : Goto(n, to)
  <2>1. CASE MessageTimeout(n) \/ UpdateTimeout(n)
    BY <2>1 DEF MessageTimeout, UpdateTimeout
  <2>2. CASE ~(MessageTimeout(n) \/ UpdateTimeout(n))
    <3>1. \E s, t, p : Receive(n, s, t, p) \/ Update(n, s, t, p)
      BY ZenonT(60), <1>2, <2>2 DEF NoCall, NoneCreated, ProposalValid, InvalidAtVerifier, RequestBacklogged,
        VerifiedCounted, MessageIgnored, ProposalBacklogged, UpdateIgnored
    <3> QED BY Zenon, <1>1, <3>1
  <2> QED BY ZenonT(60), <2>1, <2>2
<1>3. ASSUME NEW p, NEW r, CheckCall(n, p, r)
      PROVE  pc[n] # "stopped" /\ \E to : Goto(n, to)
  <2>1. CASE HandleBackloggedRequest(n, p, r) \/ CoordinateNext(n, p, r)
    BY Zenon, <2>1 DEF HandleBackloggedRequest, CoordinateNext, TakeNextProposal
  <2>2. CASE \E s \in Nodes : RequestEvaluated(n, s, p, r) \/ CoordinateProposal(n, s, p, r)
    BY Zenon, <1>1, <2>2 DEF RequestEvaluated, CoordinateProposal, ProposalToCoordinate
  <2> QED BY Zenon, <1>3, <2>1, <2>2 DEF CheckCall
<1>4. ASSUME NEW p, NEW ok, AcceptCall(n, p, ok) \/ RejectCall(n, p, ok) \/ CheckRejectCall(n, p, ok)
      PROVE  pc[n] # "stopped" /\ \E to : Goto(n, to)
  <2>1. CASE AbortTimedOut(n, p, ok) \/ CoordinateNextFails(n, p, ok)
    BY Zenon, <2>1 DEF AbortTimedOut, CoordinateNextFails, TakeNextProposal
  <2>2. CASE ~(AbortTimedOut(n, p, ok) \/ CoordinateNextFails(n, p, ok))
    <3>1. \E s, t : Receive(n, s, t, p) \/ Update(n, s, t, p)
      BY Zenon, <1>4, <2>2 DEF AcceptCall, RejectCall, CheckRejectCall, VerifiedByAll, ApplyResult,
        InvalidAtCoordinator, FailedByPeer, RejectResult, CoordinateProposalFails, ProposalToCoordinate
    <3> QED BY Zenon, <1>1, <3>1
  <2> QED BY Zenon, <2>1, <2>2
<1>5. ASSUME NEW p, CreateProposal(n, p) \/ \E to : CreateProposalFails(n, p, to)
      PROVE  pc[n] # "stopped" /\ \E to : Goto(n, to)
  BY Zenon, <1>5 DEF CreateProposal, CreateProposalFails
<1> QED BY ZenonT(60), <1>2, <1>3, <1>4, <1>5 DEF Answers, Creates
=============================================================================
