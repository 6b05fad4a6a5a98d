--------------------------- MODULE AdminTheorems ---------------------------
(***************************************************************************)
(* What the admin services keep, for every set of nodes and definitions,   *)
(* every workload and every combination of faults: type correctness, the   *)
(* invariant that the theorems need, what each step does to the state it   *)
(* is about, and the theorems.                                             *)
(***************************************************************************)
EXTENDS Admin, WellFoundedInduction, TLAPS

\* What a leaf is tried with, unless it names its provers.
USE SMTT(20), ZenonT(20), SMTT(30)

-----------------------------------------------------------------------------
(* What Keep returns, for every sequence.  Keep is defined by recursion, and *)
(* the facts about it are proved by induction in the form that is first    *)
(* order: a nonempty set of numbers, here those at which a fact would fail, *)
(* has a least element.                                                    *)

\* A nonempty set of naturals has a least element.
LEMMA LeastNumber ==
    ASSUME NEW T, T \subseteq Nat, T # {}
    PROVE  \E x \in T : \A y \in T : x <= y
<1> DEFINE R == {z \in Nat \X Nat : z[1] < z[2]}
<1>1. IsWellFoundedOn(R, Nat)
  BY NatLessThanWellFounded DEF OpToRel
<1>2. PICK x \in T : \A y \in T : ~ (<<y, x>> \in R)
  <2> HIDE DEF R
  <2> QED BY Zenon, <1>1, WFMin
<1>3. ASSUME NEW y \in T PROVE x <= y
  <2>1. ~ (<<y, x>> \in R)
    BY <1>2
  <2> QED BY <2>1
<1> QED BY <1>3

\* Induction up to a number, over a set.
LEMMA InductionTo ==
    ASSUME NEW n \in Nat, NEW T, 0 \in T, \A i \in 1..n : i - 1 \in T => i \in T
    PROVE  \A i \in 0..n : i \in T
<1> DEFINE B == (0..n) \ T
<1> SUFFICES ASSUME B # {} PROVE FALSE
  OBVIOUS
<1>1. PICK m \in B : \A y \in B : m <= y
  <2>1. B \subseteq Nat
    OBVIOUS
  <2> HIDE DEF B
  <2> QED BY Zenon, <2>1, LeastNumber
<1>2. m \in 1..n
  BY <1>1
<1>3. m - 1 \notin B /\ m - 1 \in 0..n
  BY <1>1, <1>2
<1> QED BY <1>1, <1>2, <1>3

\* f is x0 at 0, and G leads from each of its values to the next.
Recurs(f, n, X, x0, G) ==
    f \in [0..n -> X] /\ f[0] = x0 /\ \A i \in 1..n : f[i] = G[<<i, f[i - 1]>>]

\* A function can be defined by what it is at 0 and how each value leads to the next.
LEMMA RecursionTo ==
    ASSUME NEW n \in Nat, NEW X, NEW x0 \in X, NEW G \in [(1..n) \X X -> X]
    PROVE  \E f : Recurs(f, n, X, x0, G)
<1> DEFINE Good(k, f) == f[0] = x0 /\ \A i \in 1..k : f[i] = G[<<i, f[i - 1]>>]
           T == {k \in 0..n : \E f \in [0..k -> X] : Good(k, f)}
<1>1. 0 \in T
  <2>1. [i \in 0..0 |-> x0] \in [0..0 -> X] /\ Good(0, [i \in 0..0 |-> x0])
    OBVIOUS
  <2> HIDE DEF Good
  <2>2. \E f \in [0..0 -> X] : Good(0, f)
    BY <2>1
  <2> QED BY <2>2
<1>2. ASSUME NEW k \in 1..n, k - 1 \in T PROVE k \in T
  <2>1. PICK f \in [0..(k - 1) -> X] : Good(k - 1, f)
    BY <1>2
  <2> DEFINE g == [i \in 0..k |-> IF i = k THEN G[<<k, f[k - 1]>>] ELSE f[i]]
  <2>2. g \in [0..k -> X]
    <3>1. <<k, f[k - 1]>> \in (1..n) \X X
      OBVIOUS
    <3>2. G[<<k, f[k - 1]>>] \in X
      BY <3>1
    <3> QED BY <3>2
  <2>3. Good(k, g)
    <3>1. g[0] = x0
      BY <2>1
    <3>2. ASSUME NEW i \in 1..k PROVE g[i] = G[<<i, g[i - 1]>>]
      <4>1. i - 1 \in 0..(k - 1) /\ g[i - 1] = f[i - 1]
        OBVIOUS
      <4>2. CASE i = k
        <5>1. g[k] = G[<<k, f[k - 1]>>]
          OBVIOUS
        <5> QED BY Zenon, <4>1, <4>2, <5>1
      <4>3. CASE i # k
        <5>1. i \in 1..(k - 1) /\ g[i] = f[i]
          BY <4>3
        <5> QED BY <2>1, <4>1, <5>1
      <4> QED BY <4>2, <4>3
    <3> QED BY Zenon, <3>1, <3>2
  <2> HIDE DEF Good, g
  <2>4. \E h \in [0..k -> X] : Good(k, h)
    BY <2>2, <2>3
  <2> QED BY <2>4
<1>3. \A k \in 0..n : k \in T
  <2> HIDE DEF T
  <2> QED BY <1>1, <1>2, InductionTo
<1>4. n \in T
  <2> HIDE DEF T
  <2> QED BY <1>3
<1> QED BY <1>4 DEF Recurs

\* What is kept of the first i elements of s, for every i.
KeepsOf(f, s, S, I) ==
    /\ f \in [0..Len(s) -> Seq(S)]
    /\ f[0] = <<>>
    /\ \A i \in 1..Len(s) : f[i] = IF i \in I THEN Append(f[i - 1], s[i]) ELSE f[i - 1]

\* Keep runs through the sequence: what it has kept of the first i elements
\* starts empty and grows by the i-th when i is one of the places.
LEMMA KeepRuns ==
    ASSUME NEW S, NEW s \in Seq(S), NEW I
    PROVE  \E f : KeepsOf(f, s, S, I) /\ Keep(s, I) = f[Len(s)]
<1> DEFINE G == [z \in (1..Len(s)) \X Seq(S) |->
                    IF z[1] \in I THEN Append(z[2], s[z[1]]) ELSE z[2]]
           Is(f) == f = [i \in 0..Len(s) |->
                            IF i = 0 THEN <<>>
                            ELSE IF i \in I THEN Append(f[i - 1], s[i]) ELSE f[i - 1]]
           kept == CHOOSE f : Is(f)
<1>1. Len(s) \in Nat
  OBVIOUS
<1>2. G \in [(1..Len(s)) \X Seq(S) -> Seq(S)]
  OBVIOUS
<1>3. PICK f \in [0..Len(s) -> Seq(S)] :
          f[0] = <<>> /\ \A i \in 1..Len(s) : f[i] = G[<<i, f[i - 1]>>]
  <2> DEFINE n == Len(s)
             X == Seq(S)
             none == <<>>
  <2>1. n \in Nat /\ none \in X /\ G \in [(1..n) \X X -> X]
    BY <1>1, <1>2
  <2> HIDE DEF G, n, X, none
  <2>2. \E f : Recurs(f, n, X, none, G)
    BY Zenon, <2>1, RecursionTo
  <2> QED BY <2>2 DEF n, X, none, Recurs
<1>4. ASSUME NEW i \in 1..Len(s)
      PROVE  f[i] = IF i \in I THEN Append(f[i - 1], s[i]) ELSE f[i - 1]
  <2>1. i - 1 \in 0..Len(s)
    BY <1>1
  <2>2. f[i - 1] \in Seq(S)
    BY <2>1
  <2>3. <<i, f[i - 1]>> \in (1..Len(s)) \X Seq(S)
    BY <2>2
  <2>4. f[i] = G[<<i, f[i - 1]>>]
    BY Zenon, <1>3
  <2> QED BY <2>3, <2>4
<1>5. Is(f)
  <2>1. ASSUME NEW i \in 0..Len(s)
        PROVE  f[i] = IF i = 0 THEN <<>>
                      ELSE IF i \in I THEN Append(f[i - 1], s[i]) ELSE f[i - 1]
    <3>1. CASE i = 0
      BY <1>3, <3>1
    <3>2. CASE i # 0
      <4>1. i \in 1..Len(s)
        BY <3>2, <1>1
      <4> QED BY Zenon, <4>1, <3>2, <1>4
    <3> QED BY <3>1, <3>2
  <2>2. f = [i \in 0..Len(s) |-> f[i]]
    OBVIOUS
  <2> QED BY Zenon, <2>1, <2>2
<1>6. Is(kept)
  <2> HIDE DEF Is
  <2> QED BY <1>5
<1>7. ASSUME NEW i \in 1..Len(s)
      PROVE  kept[i] = IF i \in I THEN Append(kept[i - 1], s[i]) ELSE kept[i - 1]
  <2> HIDE DEF kept
  <2>1. i \in 0..Len(s) /\ i # 0
    OBVIOUS
  <2> QED BY Zenon, <1>6, <2>1
<1>8. kept[0] = <<>> /\ DOMAIN kept = 0..Len(s)
  <2> HIDE DEF kept
  <2> QED BY <1>6, <1>1
<1>9. \A i \in 0..Len(s) : kept[i] \in Seq(S)
  <2> DEFINE T == {i \in 0..Len(s) : kept[i] \in Seq(S)}
  <2> HIDE DEF kept
  <2>1. 0 \in T
    <3>1. kept[0] \in Seq(S)
      BY <1>8
    <3> QED BY <3>1, <1>1
  <2>2. ASSUME NEW i \in 1..Len(s), i - 1 \in T PROVE i \in T
    <3>1. kept[i - 1] \in Seq(S) /\ s[i] \in S
      BY <2>2
    <3>2. kept[i] = IF i \in I THEN Append(kept[i - 1], s[i]) ELSE kept[i - 1]
      BY <1>7
    <3>3. Append(kept[i - 1], s[i]) \in Seq(S)
      BY <3>1
    <3>4. kept[i] \in Seq(S)
      BY <3>1, <3>2, <3>3
    <3> QED BY <3>4
  <2>3. \A i \in 0..Len(s) : i \in T
    <3> HIDE DEF T
    <3> QED BY Zenon, <1>1, <2>1, <2>2, InductionTo
  <2> QED BY <2>3
<1>10. kept \in [0..Len(s) -> Seq(S)]
  <2> HIDE DEF kept
  <2>1. kept = [i \in 0..Len(s) |-> kept[i]]
    BY <1>6
  <2> QED BY <2>1, <1>9
<1>11. Keep(s, I) = kept[Len(s)]
  BY DEF Keep
<1> HIDE DEF kept
<1>12. KeepsOf(kept, s, S, I)
  BY <1>7, <1>8, <1>10 DEF KeepsOf
<1> QED BY <1>11, <1>12

\* What is kept of a sequence is a sequence of its elements, each from one of the places.
LEMMA KeepElements ==
    ASSUME NEW S, NEW s \in Seq(S), NEW I
    PROVE  /\ Keep(s, I) \in Seq(S)
           /\ Len(Keep(s, I)) <= Len(s)
           /\ \A j \in DOMAIN Keep(s, I) : \E i \in DOMAIN s : i \in I /\ Keep(s, I)[j] = s[i]
<1>0. PICK f : KeepsOf(f, s, S, I) /\ Keep(s, I) = f[Len(s)]
  BY KeepRuns
<1>1. /\ f \in [0..Len(s) -> Seq(S)]
      /\ f[0] = <<>>
      /\ \A i \in 1..Len(s) : f[i] = IF i \in I THEN Append(f[i - 1], s[i]) ELSE f[i - 1]
  BY <1>0 DEF KeepsOf
<1> DEFINE Ok(k) == /\ Len(f[k]) <= k
                    /\ \A j \in 1..Len(f[k]) : \E i \in DOMAIN s : i \in I /\ f[k][j] = s[i]
           T == {k \in 0..Len(s) : Ok(k)}
<1>2. 0 \in T
  BY <1>1
<1>3. ASSUME NEW k \in 1..Len(s), k - 1 \in T PROVE k \in T
  <2>1. Ok(k - 1) /\ f[k - 1] \in Seq(S) /\ s[k] \in S /\ k \in DOMAIN s
    <3>1. Ok(k - 1) /\ k - 1 \in 0..Len(s)
      BY <1>3
    <3>2. f[k - 1] \in Seq(S)
      BY Zenon, <1>1, <3>1
    <3>3. s[k] \in S /\ k \in DOMAIN s
      OBVIOUS
    <3> QED BY <3>1, <3>2, <3>3
  <2>2. CASE k \in I
    <3>1. f[k] = Append(f[k - 1], s[k])
      BY Zenon, <1>1, <2>2
    <3>2. Len(f[k]) = Len(f[k - 1]) + 1
      BY <2>1, <3>1
    <3>3. ASSUME NEW j \in 1..Len(f[k]) PROVE \E i \in DOMAIN s : i \in I /\ f[k][j] = s[i]
      <4>1. CASE j = Len(f[k - 1]) + 1
        <5>1. f[k][j] = s[k]
          BY <2>1, <3>1, <4>1
        <5> QED BY <5>1, <2>1, <2>2
      <4>2. CASE j # Len(f[k - 1]) + 1
        <5>1. j \in 1..Len(f[k - 1]) /\ f[k][j] = f[k - 1][j]
          BY <2>1, <3>1, <3>2, <4>2
        <5> QED BY <5>1, <2>1
      <4> QED BY <4>1, <4>2
    <3> QED BY <2>1, <3>2, <3>3
  <2>3. CASE k \notin I
    <3>1. f[k] = f[k - 1]
      BY <1>1, <2>3
    <3> QED BY <2>1, <3>1
  <2> QED BY <2>2, <2>3
<1>4. Len(s) \in T
  <2> HIDE DEF T
  <2>1. Len(s) \in Nat
    OBVIOUS
  <2>2. \A k \in 0..Len(s) : k \in T
    BY Zenon, <1>2, <1>3, <2>1, InductionTo
  <2> QED BY <2>1, <2>2
<1>5. Ok(Len(s)) /\ Keep(s, I) = f[Len(s)] /\ f[Len(s)] \in Seq(S)
  BY <1>0, <1>1, <1>4
<1>6. DOMAIN Keep(s, I) = 1..Len(Keep(s, I))
  BY <1>5
<1> QED BY <1>5, <1>6

-----------------------------------------------------------------------------
(* Types. *)

Ballot == [node : Nodes, vote : {"ACCEPT", "REJECT"}]
CircuitProposal == [circuit : Definitions, requester : Nodes, votes : Seq(Ballot)]
OpenProposals == [Ids -> CircuitProposal \cup {None}]
Uninitialized == [circuit : Definitions \cup {None}, ready : SUBSET Nodes]
AdminEvent == [kind : {"Submitted", "Vote", "Accepted", "Rejected", "Ready"}, circuit : Definitions]

WorkloadOK == workload \in Workloads
StoredOK ==
    /\ open_proposals \in [Nodes -> OpenProposals]
    /\ circuits \in [Nodes -> SUBSET Definitions]
    /\ disk \in [Nodes -> [open : OpenProposals, circuits : SUBSET Definitions]]
ServicesOK ==
    /\ uninitialized_circuits \in [Nodes -> [Ids -> Uninitialized]]
    /\ running_services \in [Nodes -> SUBSET Definitions]
    /\ events \in [Nodes -> Seq(AdminEvent)]
    /\ member_ready \in [Nodes -> SUBSET (Ids \X Nodes)]
PeeringOK ==
    /\ authorized \in [Nodes -> SUBSET Nodes]
    /\ met \in [Nodes -> SUBSET (Payload \X Nodes)]
    /\ unpeered_payloads \in [Nodes -> Seq((SUBSET Nodes) \X Payload)]
ChangeOK ==
    /\ pending_changes \in [Nodes -> [proposal : CircuitProposal, action : {"create", "vote"}] \cup {None}]
    /\ current_consensus_verifiers \in [Nodes -> SUBSET Nodes]
EngineOK ==
    /\ evaluating \in [Nodes -> Payload \cup {None}]
    /\ backlog \in [Nodes -> SUBSET Payload]
    /\ requests \in [Nodes -> SUBSET Payload]
    /\ validated \in [Nodes -> SUBSET Payload]
    /\ orders \in [Nodes \X Nodes -> Seq({"REQUEST", "APPLY", "REJECT"} \X Payload)]
QueuesOK ==
    /\ pending_circuit_payloads \in [Nodes -> Seq(Payload)]
    /\ pending_consensus_proposals \in [Nodes -> SUBSET (Payload \X CircuitProposal)]
    /\ proposed \in [Nodes -> SUBSET (Payload \X CircuitProposal)]
    /\ submitted \in Seq(Payload)

TypeOK ==
    WorkloadOK /\ StoredOK /\ ServicesOK /\ PeeringOK /\ ChangeOK /\ EngineOK /\ QueuesOK

-----------------------------------------------------------------------------
(* Payloads, and the circuit proposals that they lead to. *)

\* The fields of a payload.
LEMMA PayloadFields ==
    ASSUME NEW p \in Payload
    PROVE  /\ p.action \in {"create", "vote"} /\ p.circuit \in Definitions /\ p.requester \in Nodes
           /\ p.action = "vote" => p.vote \in {"ACCEPT", "REJECT"}
           /\ Id[p.circuit] \in Ids /\ Members[p.circuit] \subseteq Nodes
<1>1. /\ p.action \in {"create", "vote"} /\ p.circuit \in Definitions /\ p.requester \in Nodes
      /\ p.action = "vote" => p.vote \in {"ACCEPT", "REJECT"}
  BY DEF Payload
<1> QED BY <1>1, AdminAssumption DEF Ids

\* What is open at a node, in memory and on disk.
LEMMA OpenProposal ==
    ASSUME StoredOK, NEW n \in Nodes, NEW id \in Ids
    PROVE  /\ open_proposals[n][id] \in CircuitProposal \cup {None}
           /\ disk[n].open[id] \in CircuitProposal \cup {None}
           /\ open_proposals[n] \in OpenProposals /\ disk[n].open \in OpenProposals
  BY DEF StoredOK, OpenProposals

\* A valid payload leads to a proposal of its circuit: a new one without votes, or the open
\* one with one vote more.
LEMMA ValidLeads ==
    ASSUME StoredOK, NEW n \in Nodes, NEW p \in Payload, Valid(n, p)
    PROVE  /\ Proposed(n, p) \in CircuitProposal
           /\ Proposed(n, p).circuit = p.circuit
           /\ \/ /\ p.action = "create" /\ validate_create_circuit(n, p)
                 /\ Proposed(n, p).requester = p.requester /\ Proposed(n, p).votes = <<>>
              \/ LET open == open_proposals[n][Id[p.circuit]]
                 IN /\ p.action = "vote" /\ open # None /\ open \in CircuitProposal /\ open.circuit = p.circuit
                    /\ Proposed(n, p).requester = open.requester
                    /\ Proposed(n, p).votes = Append(open.votes, [node |-> p.requester, vote |-> p.vote])
<1> DEFINE open == open_proposals[n][Id[p.circuit]]
           ballot == [node |-> p.requester, vote |-> p.vote]
<1>1. CASE p.action = "create"
  <2>1. validate_create_circuit(n, p)
    BY <1>1 DEF Valid
  <2>2. Proposed(n, p) = [circuit |-> p.circuit, requester |-> p.requester, votes |-> <<>>]
    BY <1>1 DEF Proposed
  <2> QED BY <1>1, <2>1, <2>2, PayloadFields DEF CircuitProposal
<1>2. CASE p.action = "vote"
  <2>1. open # None /\ open.circuit = p.circuit
    BY <1>2 DEF Valid, validate_circuit_vote
  <2>2. open \in CircuitProposal
    BY <2>1, OpenProposal, PayloadFields
  <2>3. ballot \in Ballot
    BY <1>2, PayloadFields DEF Ballot
  <2>4. Proposed(n, p) = [open EXCEPT !.votes = Append(@, ballot)]
    BY <1>2 DEF Proposed
  <2> HIDE DEF open, ballot
  <2>5. Proposed(n, p) = [circuit |-> open.circuit, requester |-> open.requester,
                          votes |-> Append(open.votes, ballot)]
    BY Zenon, <2>2, <2>4 DEF CircuitProposal
  <2>6. Append(open.votes, ballot) \in Seq(Ballot)
    BY <2>2, <2>3 DEF CircuitProposal
  <2>7. Proposed(n, p) \in CircuitProposal
    BY <2>2, <2>5, <2>6 DEF CircuitProposal
  <2>8. /\ Proposed(n, p).circuit = p.circuit /\ Proposed(n, p).requester = open.requester
        /\ Proposed(n, p).votes = Append(open.votes, ballot)
    BY <2>1, <2>5
  <2> QED BY ZenonT(60), <1>2, <2>1, <2>2, <2>7, <2>8 DEF open, ballot
<1> QED BY Zenon, <1>1, <1>2, PayloadFields

-----------------------------------------------------------------------------
(* Commits. *)

\* What a commit, or one that fails, may do to what is stored: the circuit of the pending
\* changes is added if all have voted for it, its entry in the open proposals is set to the
\* proposal or to none, and either part is written or is not.  Both are written when the
\* store does not fail.
Committed(n) ==
    LET proposal == pending_changes[n].proposal
        d == proposal.circuit
    IN /\ pending_changes[n] # None
       /\ \/ UNCHANGED circuits
          \/ check_approved(proposal) = "Accepted" /\ AddCircuit(n, d)
       /\ \/ UNCHANGED open_proposals
          \/ \E x \in {proposal, None} : StoreProposal(n, Id[d], x)
       /\ \/ UNCHANGED disk /\ "store" \in Faults
          \/ Write(n)
          \/ disk' = [disk EXCEPT ![n].circuits = circuits'[n]] /\ "store" \in Faults

\* The call of accept_proposal drops the pending changes, committed or not.
LEMMA AcceptStores ==
    ASSUME NEW n \in Nodes, NEW p, accept_proposal(n, p)
    PROVE  \/ UNCHANGED <<stored, services, pending_changes>>
           \/ /\ pending_changes' = [pending_changes EXCEPT ![n] = None]
              /\ UNCHANGED <<stored, services>> \/ Committed(n)
<1> DEFINE proposal == pending_changes[n].proposal
           d == proposal.circuit
<1>1. CASE Expected(n, p) = {}
  BY <1>1 DEF accept_proposal
<1>2. ASSUME pending_changes[n] # None, check_approved(proposal) = "Accepted",
             CommitAccepted(n, proposal) \/ CommitAcceptedFails(n, proposal)
      PROVE  UNCHANGED <<stored, services>> \/ Committed(n)
  <2>1. CASE CommitAccepted(n, proposal)
    BY Zenon, <1>2, <2>1 DEF CommitAccepted, Committed
  <2>2. CASE CommitAcceptedFails(n, proposal)
    BY Zenon, <1>2, <2>2 DEF CommitAcceptedFails, Committed
  <2> QED BY <1>2, <2>1, <2>2
<1>3. ASSUME commit(n) PROVE UNCHANGED <<stored, services>> \/ Committed(n)
  <2>1. CASE check_approved(proposal) = "Accepted"
    BY <1>2, <1>3, <2>1 DEF commit
  <2>2. CASE check_approved(proposal) # "Accepted"
    BY <1>3, <2>2 DEF commit, CommitOther, Committed
  <2> QED BY <2>1, <2>2
<1>4. ASSUME CommitFails(n) PROVE UNCHANGED <<stored, services>> \/ Committed(n)
  <2>1. CASE pending_changes[n] = None
    BY <1>4, <2>1 DEF CommitFails
  <2>2. CASE pending_changes[n] # None /\ check_approved(proposal) = "Accepted"
    BY <1>2, <1>4, <2>2 DEF CommitFails
  <2>3. CASE pending_changes[n] # None /\ check_approved(proposal) # "Accepted"
    BY <1>4, <2>3 DEF CommitFails, Committed
  <2> QED BY <2>1, <2>2, <2>3
<1> QED BY <1>1, <1>3, <1>4 DEF accept_proposal

\* The same, place by place.
CommittedAt(n, proposal, d) ==
    /\ proposal \in CircuitProposal /\ d \in Definitions /\ Id[d] \in Ids
    /\ \A m \in Nodes \ {n} : /\ open_proposals'[m] = open_proposals[m]
                              /\ circuits'[m] = circuits[m] /\ disk'[m] = disk[m]
    /\ \A id \in Ids : \/ open_proposals'[n][id] = open_proposals[n][id]
                       \/ id = Id[d] /\ open_proposals'[n][id] \in {proposal, None}
    /\ \/ circuits'[n] = circuits[n]
       \/ /\ check_approved(proposal) = "Accepted"
          /\ circuits'[n] = {c \in circuits[n] : Id[c] # Id[d]} \cup {d}
    /\ disk'[n].open \in {disk[n].open, open_proposals'[n]}
    /\ disk'[n].circuits \in {disk[n].circuits, circuits'[n]}
    /\ "store" \notin Faults => disk'[n] = [open |-> open_proposals'[n], circuits |-> circuits'[n]]

\* commit_change places the circuit of the pending change on node n, and nowhere else.
LEMMA CommittedPlaces ==
    ASSUME StoredOK, ChangeOK, NEW n \in Nodes, Committed(n)
    PROVE  StoredOK' /\ CommittedAt(n, pending_changes[n].proposal, pending_changes[n].proposal.circuit)
<1> DEFINE proposal == pending_changes[n].proposal
           d == proposal.circuit
<1>1. proposal \in CircuitProposal /\ d \in Definitions /\ Id[d] \in Ids
  BY DEF Committed, ChangeOK, CircuitProposal, Ids
<1>2. /\ circuits' \in [Nodes -> SUBSET Definitions]
      /\ \A m \in Nodes \ {n} : circuits'[m] = circuits[m]
      /\ \/ circuits'[n] = circuits[n]
         \/ /\ check_approved(proposal) = "Accepted"
            /\ circuits'[n] = {c \in circuits[n] : Id[c] # Id[d]} \cup {d}
  <2>1. CASE UNCHANGED circuits
    BY <2>1 DEF StoredOK
  <2>2. CASE check_approved(proposal) = "Accepted" /\ AddCircuit(n, d)
    <3> HIDE DEF proposal, d
    <3>1. circuits' = [circuits EXCEPT ![n] = {c \in circuits[n] : Id[c] # Id[d]} \cup {d}]
      BY <2>2 DEF AddCircuit
    <3> QED BY <1>1, <2>2, <3>1 DEF StoredOK
  <2> QED BY <2>1, <2>2 DEF Committed
<1>3. /\ open_proposals' \in [Nodes -> OpenProposals]
      /\ \A m \in Nodes \ {n} : open_proposals'[m] = open_proposals[m]
      /\ \A id \in Ids : \/ open_proposals'[n][id] = open_proposals[n][id]
                         \/ id = Id[d] /\ open_proposals'[n][id] \in {proposal, None}
  <2>1. CASE UNCHANGED open_proposals
    BY <2>1 DEF StoredOK
  <2>2. ASSUME NEW x \in {proposal, None}, StoreProposal(n, Id[d], x)
        PROVE  <1>3!:
    <3>1. x \in CircuitProposal \cup {None} /\ x \in {proposal, None}
      BY <1>1
    <3> HIDE DEF proposal, d
    <3>2. open_proposals' = [open_proposals EXCEPT ![n] = [open_proposals[n] EXCEPT ![Id[d]] = x]]
      BY <2>2 DEF StoreProposal
    <3>3. open_proposals[n] \in OpenProposals
      BY DEF StoredOK
    <3>4. [open_proposals[n] EXCEPT ![Id[d]] = x] \in OpenProposals
      BY Zenon, <3>1, <3>3 DEF OpenProposals
    <3>5. open_proposals'[n] = [open_proposals[n] EXCEPT ![Id[d]] = x]
      BY <3>2 DEF StoredOK
    <3>6. \A id \in Ids : \/ open_proposals'[n][id] = open_proposals[n][id]
                          \/ id = Id[d] /\ open_proposals'[n][id] \in {proposal, None}
      BY <3>1, <3>3, <3>5 DEF OpenProposals
    <3>7. /\ open_proposals' \in [Nodes -> OpenProposals]
          /\ \A m \in Nodes \ {n} : open_proposals'[m] = open_proposals[m]
      BY <3>2, <3>4 DEF StoredOK
    <3> QED BY <3>6, <3>7
  <2> QED BY <2>1, <2>2 DEF Committed
<1>4. /\ disk' \in [Nodes -> [open : OpenProposals, circuits : SUBSET Definitions]]
      /\ \A m \in Nodes \ {n} : disk'[m] = disk[m]
      /\ disk'[n].open \in {disk[n].open, open_proposals'[n]}
      /\ disk'[n].circuits \in {disk[n].circuits, circuits'[n]}
      /\ "store" \notin Faults => disk'[n] = [open |-> open_proposals'[n], circuits |-> circuits'[n]]
  <2> HIDE DEF proposal, d
  <2>0. open_proposals'[n] \in OpenProposals /\ circuits'[n] \in SUBSET Definitions
    BY <1>2, <1>3
  <2>1. CASE UNCHANGED disk /\ "store" \in Faults
    BY <2>1 DEF StoredOK
  <2>2. CASE Write(n)
    BY <2>0, <2>2 DEF Write, StoredOK
  <2>3. CASE disk' = [disk EXCEPT ![n].circuits = circuits'[n]] /\ "store" \in Faults
    <3>1. disk' = [disk EXCEPT ![n] = [disk[n] EXCEPT !.circuits = circuits'[n]]]
      BY <2>3
    <3>2. disk[n] \in [open : OpenProposals, circuits : SUBSET Definitions]
      BY DEF StoredOK
    <3>3. [disk[n] EXCEPT !.circuits = circuits'[n]] = [open |-> disk[n].open, circuits |-> circuits'[n]]
      BY <3>2
    <3>4. disk' = [disk EXCEPT ![n] = [open |-> disk[n].open, circuits |-> circuits'[n]]]
      BY Zenon, <3>1, <3>3
    <3> QED BY <2>0, <2>3, <3>2, <3>4 DEF StoredOK
  <2> QED BY <2>1, <2>2, <2>3 DEF Committed
<1> QED BY <1>1, <1>2, <1>3, <1>4 DEF StoredOK, CommittedAt

-----------------------------------------------------------------------------
(* The invariant. *)

\* Among the payloads C are the one that proposed a circuit proposal, and each of its votes.
Backed(proposal, C) ==
    /\ \E c \in C : /\ c.action = "create" /\ c.circuit = proposal.circuit
                    /\ c.requester = proposal.requester
    /\ \A i \in DOMAIN proposal.votes :
          [action |-> "vote", circuit |-> proposal.circuit, requester |-> proposal.votes[i].node,
           vote |-> proposal.votes[i].vote] \in C

\* The payloads that a node has queued or may evaluate were submitted.
QueuedWereSubmitted ==
    \A n \in Nodes :
        /\ \A i \in DOMAIN pending_circuit_payloads[n] : pending_circuit_payloads[n][i] \in Cast
        /\ \A i \in DOMAIN unpeered_payloads[n] : unpeered_payloads[n][i][2] \in Cast
        /\ backlog[n] \subseteq Cast
        /\ \A q \in proposed[n] : q[1] \in Cast

\* Open proposals and pending changes are backed, and circuits voted for, in memory and on disk.
StoredWereVotedFor ==
    \A n \in Nodes :
        /\ \A id \in Ids : /\ open_proposals[n][id] # None => Backed(open_proposals[n][id], Cast)
                           /\ disk[n].open[id] # None => Backed(disk[n].open[id], Cast)
        /\ pending_changes[n] # None => Backed(pending_changes[n].proposal, Cast)
        /\ \A d \in circuits[n] \cup disk[n].circuits : VotedFor(d)

\* A payload waits for every member that has not been a peer since it was submitted.
WaitingForStrangers ==
    \A n \in Nodes : \A i \in DOMAIN unpeered_payloads[n] :
        \A m \in Members[unpeered_payloads[n][i][2].circuit] \ {n} :
            <<unpeered_payloads[n][i][2], m>> \in met[n] \/ m \in unpeered_payloads[n][i][1]

\* Of one ID, a node has at most one definition: as a circuit, as an open proposal and in its
\* pending changes.
OneDefinition(n) ==
    /\ \A d, e \in circuits[n] : Id[d] = Id[e] => d = e
    /\ \A id \in Ids : open_proposals[n][id] # None =>
          /\ Id[open_proposals[n][id].circuit] = id
          /\ \A d \in circuits[n] : Id[d] = id => d = open_proposals[n][id].circuit
    /\ pending_changes[n] # None =>
          LET d == pending_changes[n].proposal.circuit
          IN /\ \A e \in circuits[n] : Id[e] = Id[d] => e = d
             /\ open_proposals[n][Id[d]] # None => open_proposals[n][Id[d]].circuit = d

\* Where writes do not fail, what is on disk is what is in memory.
DiskIsCurrent(n) == disk[n] = [open |-> open_proposals[n], circuits |-> circuits[n]]

OneOfAnId ==
    /\ ~ ({"store", "restart"} \subseteq Faults) => \A n \in Nodes : OneDefinition(n)
    /\ "store" \notin Faults => \A n \in Nodes : DiskIsCurrent(n)

AdminInv ==
    /\ TypeOK /\ QueuedWereSubmitted /\ StoredWereVotedFor /\ WaitingForStrangers /\ ProposedAmongPeers
    /\ VerifiersAreMembers /\ OneOfAnId

-----------------------------------------------------------------------------
(* Type correctness. *)

\* The parts of ServicesOK, by the variables of the operators that set them.
StartsOK ==
    /\ uninitialized_circuits \in [Nodes -> [Ids -> Uninitialized]]
    /\ running_services \in [Nodes -> SUBSET Definitions]
EventsOK == events \in [Nodes -> Seq(AdminEvent)]
ReadyOK == member_ready \in [Nodes -> SUBSET (Ids \X Nodes)]

\* The type of what the nodes keep of their services, in its three parts.
LEMMA ServicesParts == /\ ServicesOK <=> StartsOK /\ EventsOK /\ ReadyOK
                       /\ ServicesOK' <=> StartsOK' /\ EventsOK' /\ ReadyOK'
  BY DEF ServicesOK, StartsOK, EventsOK, ReadyOK

\* An event of a circuit is an AdminServiceEvent.
LEMMA EventTypes ==
    ASSUME NEW k \in {"Submitted", "Vote", "Accepted", "Rejected", "Ready"}, NEW d \in Definitions
    PROVE  <<Event(k, d)>> \in Seq(AdminEvent)
<1>1. Event(k, d) \in AdminEvent
  BY DEF Event, AdminEvent
<1> QED BY <1>1

\* Sending events to the subscribers keeps their type.
LEMMA TellTypes ==
    ASSUME EventsOK, NEW n \in Nodes, NEW es \in Seq(AdminEvent), Tell(n, es)
    PROVE  EventsOK'
<1>1. events[n] \o es \in Seq(AdminEvent)
  BY DEF EventsOK
<1> QED BY <1>1 DEF Tell, EventsOK

\* Writing an entry of uninitialized_circuits, with or without starting services, keeps the types.
LEMMA EntryTypes ==
    ASSUME StartsOK, NEW n \in Nodes, NEW id \in Ids, NEW uninit \in Uninitialized,
           uninitialized_circuits' = [uninitialized_circuits EXCEPT ![n][id] = uninit],
           NEW S \in SUBSET Definitions,
           running_services' \in {running_services, [running_services EXCEPT ![n] = S]}
    PROVE  StartsOK'
<1>1. uninitialized_circuits' =
        [uninitialized_circuits EXCEPT ![n] = [uninitialized_circuits[n] EXCEPT ![id] = uninit]]
  OBVIOUS
<1>2. [uninitialized_circuits[n] EXCEPT ![id] = uninit] \in [Ids -> Uninitialized]
  BY DEF StartsOK
<1> QED BY <1>1, <1>2 DEF StartsOK

\* An absent entry is an uninitialized circuit with no circuit and no ready member.
LEMMA EmptyEntry == Empty \in Uninitialized
  BY DEF Empty, Uninitialized

\* initialize_services keeps the types of the services and of the events.
LEMMA InitializeTypes ==
    ASSUME StartsOK, EventsOK, NEW n \in Nodes, NEW id \in Ids, NEW uninit \in Uninitialized,
           NEW es \in Seq(AdminEvent), initialize_services(n, id, uninit, es)
    PROVE  StartsOK' /\ EventsOK'
<1>1. CASE AllReady(uninit)
  <2>1. uninit.circuit \in Definitions
    BY <1>1 DEF AllReady, Uninitialized
  <2>2. running_services[n] \cup {uninit.circuit} \in SUBSET Definitions
    BY <2>1 DEF StartsOK
  <2>3. StartsOK'
    BY Zenon, <1>1, <2>2, EmptyEntry, EntryTypes DEF initialize_services
  <2>4. Append(es, Event("Ready", uninit.circuit)) \in Seq(AdminEvent)
    BY <2>1 DEF Event, AdminEvent
  <2> QED BY Zenon, <1>1, <2>3, <2>4, TellTypes DEF initialize_services
<1>2. CASE ~ AllReady(uninit)
  <2>1. StartsOK'
    BY <1>2, EntryTypes DEF initialize_services
  <2> QED BY <1>2, <2>1, TellTypes DEF initialize_services
<1> QED BY <1>1, <1>2

\* The MEMBER_READY messages name a circuit and a member.
LEMMA SendReadyTypes ==
    ASSUME ReadyOK, NEW n \in Nodes, NEW d \in Definitions, NEW to, SendReady(n, d, to)
    PROVE  ReadyOK'
<1>1. <<Id[d], n>> \in Ids \X Nodes
  BY DEF Ids
<1> QED BY <1>1 DEF SendReady, ReadyOK

\* A service that does not start leaves the types as they were.
LEMMA FailTypes ==
    ASSUME StartsOK, NEW n \in Nodes, NEW id \in Ids, NEW uninit, ServiceFails(n, id, uninit)
    PROVE  StartsOK'
  BY Zenon, EmptyEntry, EntryTypes DEF ServiceFails

\* Whatever accept_proposal does to the services and events.
LEMMA AcceptServices ==
    ASSUME ServicesOK, ChangeOK, NEW n \in Nodes, NEW p, accept_proposal(n, p)
    PROVE  ServicesOK'
<1> DEFINE proposal == pending_changes[n].proposal
           d == proposal.circuit
           uninit == uninitialized_circuits[n][Id[d]]
           entry == [circuit |-> d, ready |-> uninit.ready \cup {n}]
<1>1. StartsOK /\ EventsOK /\ ReadyOK
  BY ServicesParts
<1>2. ASSUME UNCHANGED services PROVE ServicesOK'
  BY <1>2 DEF services, ServicesOK
<1>3. ASSUME pending_changes[n] # None
      PROVE  /\ proposal \in CircuitProposal /\ d \in Definitions /\ Id[d] \in Ids
             /\ entry \in Uninitialized /\ pending_changes[n].action \in {"create", "vote"}
  <2>1. /\ proposal \in CircuitProposal /\ d \in Definitions /\ Id[d] \in Ids
        /\ pending_changes[n].action \in {"create", "vote"}
    BY <1>3 DEF ChangeOK, CircuitProposal, Ids
  <2>2. uninit \in Uninitialized
    BY <1>1, <2>1 DEF StartsOK
  <2> HIDE DEF uninit, d
  <2>3. entry \in Uninitialized
    BY <2>1, <2>2 DEF Uninitialized
  <2> QED BY Zenon, <2>1, <2>3
<1>4. ASSUME pending_changes[n] # None, CommitAccepted(n, proposal) PROVE ServicesOK'
  <2>1. <<Event("Accepted", d)>> \in Seq(AdminEvent)
    BY Zenon, <1>3, <1>4, EventTypes
  <2>2. StartsOK' /\ EventsOK'
    BY Zenon, <1>1, <1>3, <1>4, <2>1, InitializeTypes DEF CommitAccepted
  <2>3. ReadyOK'
    BY Zenon, <1>1, <1>3, <1>4, SendReadyTypes DEF CommitAccepted
  <2> QED BY <2>2, <2>3, ServicesParts
<1>5. ASSUME pending_changes[n] # None, CommitAcceptedFails(n, proposal) PROVE ServicesOK'
  <2>1. CASE UNCHANGED services
    BY <2>1, <1>2
  <2>2. CASE /\ Tell(n, <<Event("Accepted", d)>>)
             /\ \/ /\ \E to \in SUBSET (Members[d] \ {n}) : SendReady(n, d, to)
                   /\ UNCHANGED <<uninitialized_circuits, running_services>>
                \/ /\ SendReady(n, d, Members[d] \ {n})
                   /\ ServiceFails(n, Id[d], entry)
    <3>1. EventsOK'
      <4>1. <<Event("Accepted", d)>> \in Seq(AdminEvent)
        BY Zenon, <1>3, <1>5, EventTypes
      <4> QED BY Zenon, <1>1, <2>2, <4>1, TellTypes
    <3>2. ReadyOK'
      BY Zenon, <1>1, <1>3, <1>5, <2>2, SendReadyTypes
    <3>3. StartsOK'
      BY Zenon, <1>1, <1>3, <1>5, <2>2, FailTypes DEF StartsOK
    <3> QED BY <3>1, <3>2, <3>3, ServicesParts
  <2> QED BY Zenon, <1>5, <2>1, <2>2 DEF CommitAcceptedFails, services
<1>6. ASSUME pending_changes[n] # None, CommitOther(n, proposal, pending_changes[n].action) PROVE ServicesOK'
  <2>1. PICK k \in {"Submitted", "Vote", "Rejected"} : Tell(n, <<Event(k, d)>>)
    BY <1>6 DEF CommitOther
  <2>2. <<Event(k, d)>> \in Seq(AdminEvent)
    BY Zenon, <1>3, <1>6, EventTypes
  <2>3. EventsOK'
    BY Zenon, <1>1, <2>1, <2>2, TellTypes
  <2>4. StartsOK' /\ ReadyOK'
    BY <1>1, <1>6 DEF CommitOther, StartsOK, ReadyOK
  <2> QED BY <2>3, <2>4, ServicesParts
<1>7. CASE commit(n)
  BY <1>7, <1>4, <1>6 DEF commit
<1>8. CASE CommitFails(n)
  BY <1>8, <1>2, <1>5 DEF CommitFails
<1> QED BY <1>2, <1>7, <1>8 DEF accept_proposal

\* The elements of a concatenation.
LEMMA ConcatElements ==
    ASSUME NEW S, NEW s \in Seq(S), NEW t \in Seq(S)
    PROVE  /\ s \o t \in Seq(S)
           /\ \A j \in DOMAIN (s \o t) : \/ j \in DOMAIN s /\ (s \o t)[j] = s[j]
                                         \/ \E k \in DOMAIN t : (s \o t)[j] = t[k]
<1>1. s \o t \in Seq(S) /\ Len(s \o t) = Len(s) + Len(t)
  OBVIOUS
<1>2. ASSUME NEW j \in 1..Len(s \o t), j > Len(s)
      PROVE  j - Len(s) \in DOMAIN t /\ (s \o t)[j] = t[j - Len(s)]
  BY <1>1, <1>2
<1>3. ASSUME NEW j \in 1..Len(s \o t), j <= Len(s)
      PROVE  j \in DOMAIN s /\ (s \o t)[j] = s[j]
  BY <1>1, <1>3
<1>4. DOMAIN (s \o t) = 1..Len(s \o t) /\ \A j \in 1..Len(s \o t) : j > Len(s) \/ j <= Len(s)
  BY <1>1
<1> QED BY <1>1, <1>2, <1>3, <1>4

\* What waits for a peer, and what is released, when the peer is authorized.
LEMMA AuthorizedStep ==
    ASSUME PeeringOK, QueuesOK, NEW n \in Nodes, NEW peer \in Nodes, PeerAuthorized(n, peer)
    PROVE  /\ PeeringOK' /\ QueuesOK'
           /\ \A m \in Nodes \ {n} : /\ unpeered_payloads'[m] = unpeered_payloads[m]
                                     /\ pending_circuit_payloads'[m] = pending_circuit_payloads[m]
                                     /\ met'[m] = met[m]
           /\ met[n] \subseteq met'[n]
           /\ \A i \in DOMAIN unpeered_payloads[n] : <<unpeered_payloads[n][i][2], peer>> \in met'[n]
           /\ \A j \in DOMAIN unpeered_payloads'[n] : \E i \in DOMAIN unpeered_payloads[n] :
                 /\ unpeered_payloads'[n][j][1] = unpeered_payloads[n][i][1] \ {peer}
                 /\ unpeered_payloads'[n][j][2] = unpeered_payloads[n][i][2]
           /\ \A j \in DOMAIN pending_circuit_payloads'[n] :
                 \/ /\ j \in DOMAIN pending_circuit_payloads[n]
                    /\ pending_circuit_payloads'[n][j] = pending_circuit_payloads[n][j]
                 \/ \E i \in DOMAIN unpeered_payloads[n] :
                       /\ pending_circuit_payloads'[n][j] = unpeered_payloads[n][i][2]
                       /\ unpeered_payloads[n][i][1] \subseteq {peer}
<1> DEFINE S == (SUBSET Nodes) \X Payload
           old == unpeered_payloads[n]
           waiting == [i \in DOMAIN old |-> <<old[i][1] \ {peer}, old[i][2]>>]
           complete == {i \in DOMAIN waiting : waiting[i][1] = {}}
           released == Keep(waiting, complete)
           others == DOMAIN waiting \ complete
           left == Keep(waiting, others)
           payloads == [i \in DOMAIN released |-> released[i][2]]
           queued == pending_circuit_payloads[n]
           now == {old[i][2] : i \in DOMAIN old} \X {peer}
<1>1. old \in Seq(S) /\ queued \in Seq(Payload)
  BY DEF PeeringOK, QueuesOK
<1>2. waiting \in Seq(S) /\ DOMAIN waiting = DOMAIN old
  <2>1. ASSUME NEW i \in DOMAIN old PROVE <<old[i][1] \ {peer}, old[i][2]>> \in S
    BY <1>1, <2>1
  <2> QED BY <1>1, <2>1
<1>3. /\ released \in Seq(S)
      /\ \A j \in DOMAIN released : \E i \in DOMAIN waiting : i \in complete /\ released[j] = waiting[i]
  <2> HIDE DEF waiting, complete, S
  <2> QED BY <1>2, KeepElements
<1>4. /\ left \in Seq(S)
      /\ \A j \in DOMAIN left : \E i \in DOMAIN waiting : i \in others /\ left[j] = waiting[i]
  <2> HIDE DEF waiting, others, S
  <2> QED BY <1>2, KeepElements
<1>5. payloads \in Seq(Payload) /\ DOMAIN payloads = DOMAIN released
  <2>1. ASSUME NEW i \in DOMAIN released PROVE released[i][2] \in Payload
    <3> HIDE DEF released
    <3> QED BY <1>3
  <2> HIDE DEF released
  <2> QED BY <1>3, <2>1
<1>6. \A j \in DOMAIN payloads : \E i \in DOMAIN old : payloads[j] = old[i][2] /\ old[i][1] \subseteq {peer}
  <2> SUFFICES ASSUME NEW j \in DOMAIN payloads
               PROVE  \E i \in DOMAIN old : payloads[j] = old[i][2] /\ old[i][1] \subseteq {peer}
    BY Zenon
  <2>1. PICK i \in DOMAIN waiting : i \in complete /\ released[j] = waiting[i]
    BY Zenon, <1>3, <1>5
  <2>2. payloads[j] = released[j][2]
    BY Zenon, <1>5
  <2>3. i \in DOMAIN old /\ waiting[i] = <<old[i][1] \ {peer}, old[i][2]>>
    BY Zenon, <1>2
  <2>4. old[i][1] \ {peer} = {}
    BY Zenon, <2>1, <2>3
  <2> HIDE DEF payloads, released, waiting, complete
  <2> QED BY <2>1, <2>2, <2>3, <2>4
<1>7. \A j \in DOMAIN left : \E i \in DOMAIN old : left[j][1] = old[i][1] \ {peer} /\ left[j][2] = old[i][2]
  <2> SUFFICES ASSUME NEW j \in DOMAIN left
               PROVE  \E i \in DOMAIN old : left[j][1] = old[i][1] \ {peer} /\ left[j][2] = old[i][2]
    BY Zenon
  <2>1. PICK i \in DOMAIN waiting : left[j] = waiting[i]
    BY ZenonT(60), <1>4
  <2>2. i \in DOMAIN old /\ waiting[i] = <<old[i][1] \ {peer}, old[i][2]>>
    BY <1>2
  <2> HIDE DEF left, waiting
  <2> QED BY <2>1, <2>2
<1>8. /\ unpeered_payloads' = [unpeered_payloads EXCEPT ![n] = left]
      /\ pending_circuit_payloads' = [pending_circuit_payloads EXCEPT ![n] = queued \o payloads]
      /\ authorized' = [authorized EXCEPT ![n] = authorized[n] \cup {peer}]
      /\ met' = [met EXCEPT ![n] = met[n] \cup now]
      /\ UNCHANGED <<pending_consensus_proposals, submitted, proposed>>
  BY Zenon DEF PeerAuthorized, StillAwaited, Queue
<1> HIDE DEF left, payloads
<1>9. /\ queued \o payloads \in Seq(Payload)
      /\ \A j \in DOMAIN (queued \o payloads) :
            \/ j \in DOMAIN queued /\ (queued \o payloads)[j] = queued[j]
            \/ \E k \in DOMAIN payloads : (queued \o payloads)[j] = payloads[k]
  <2>1. queued \in Seq(Payload) /\ payloads \in Seq(Payload)
    BY <1>1, <1>5
  <2> HIDE DEF queued
  <2> QED BY <2>1, ConcatElements
<1>10. PeeringOK' /\ QueuesOK'
  <2>1. now \subseteq Payload \X Nodes
    BY <1>1
  <2> HIDE DEF now
  <2>2. authorized' \in [Nodes -> SUBSET Nodes] /\ met' \in [Nodes -> SUBSET (Payload \X Nodes)]
    BY <1>8, <2>1 DEF PeeringOK
  <2>3. QueuesOK' /\ unpeered_payloads' \in [Nodes -> Seq(S)]
    BY <1>4, <1>8, <1>9 DEF PeeringOK, QueuesOK
  <2> QED BY Zenon, <2>2, <2>3 DEF PeeringOK
<1>11. /\ unpeered_payloads'[n] = left /\ pending_circuit_payloads'[n] = queued \o payloads
       /\ met'[n] = met[n] \cup now
       /\ \A m \in Nodes \ {n} : /\ unpeered_payloads'[m] = unpeered_payloads[m]
                                 /\ pending_circuit_payloads'[m] = pending_circuit_payloads[m]
                                 /\ met'[m] = met[m]
  <2> HIDE DEF now
  <2> QED BY <1>8 DEF PeeringOK, QueuesOK
<1>12. \A j \in DOMAIN unpeered_payloads'[n] : \E i \in DOMAIN unpeered_payloads[n] :
          /\ unpeered_payloads'[n][j][1] = unpeered_payloads[n][i][1] \ {peer}
          /\ unpeered_payloads'[n][j][2] = unpeered_payloads[n][i][2]
  BY <1>7, <1>11
<1>13. ASSUME NEW j \in DOMAIN pending_circuit_payloads'[n]
       PROVE  \/ /\ j \in DOMAIN pending_circuit_payloads[n]
                 /\ pending_circuit_payloads'[n][j] = pending_circuit_payloads[n][j]
              \/ \E i \in DOMAIN unpeered_payloads[n] :
                    /\ pending_circuit_payloads'[n][j] = unpeered_payloads[n][i][2]
                    /\ unpeered_payloads[n][i][1] \subseteq {peer}
  <2> DEFINE all == queued \o payloads
  <2>1. j \in DOMAIN all /\ pending_circuit_payloads'[n] = all
    BY <1>11
  <2>2. \/ j \in DOMAIN queued /\ all[j] = queued[j]
        \/ \E k \in DOMAIN payloads : all[j] = payloads[k]
    BY <1>9, <2>1
  <2> HIDE DEF all
  <2> QED BY <1>6, <2>1, <2>2
<1>14. met[n] \subseteq met'[n] /\ \A i \in DOMAIN old : <<old[i][2], peer>> \in met'[n]
  BY <1>11
<1> QED BY Zenon, <1>10, <1>11, <1>12, <1>13, <1>14

\* What waits for a peer that is refused is dropped.
LEMMA RefusedStep ==
    ASSUME PeeringOK, NEW n \in Nodes, NEW peer \in Nodes, PeerRefused(n, peer)
    PROVE  /\ PeeringOK'
           /\ \A m \in Nodes \ {n} : unpeered_payloads'[m] = unpeered_payloads[m]
           /\ UNCHANGED met
           /\ \A j \in DOMAIN unpeered_payloads'[n] : \E i \in DOMAIN unpeered_payloads[n] :
                 unpeered_payloads'[n][j] = unpeered_payloads[n][i]
<1> DEFINE S == (SUBSET Nodes) \X Payload
           old == unpeered_payloads[n]
           I == {i \in DOMAIN old : peer \notin old[i][1]}
           left == Keep(old, I)
<1>1. old \in Seq(S)
  BY DEF PeeringOK
<1>2. left \in Seq(S) /\ \A j \in DOMAIN left : \E i \in DOMAIN old : left[j] = old[i]
  <2> HIDE DEF S, I, old
  <2> QED BY <1>1, KeepElements
<1>3. /\ unpeered_payloads' = [unpeered_payloads EXCEPT ![n] = left] /\ UNCHANGED met
      /\ authorized' = [authorized EXCEPT ![n] = @ \ {peer}]
  BY DEF PeerRefused
<1> HIDE DEF left
<1> QED BY <1>2, <1>3 DEF PeeringOK

\* A peer that is lost may take messages with it, and nothing else.
LEMMA LostStep ==
    ASSUME EngineOK, QueuesOK, ServicesOK, PeeringOK, NEW n \in Nodes, NEW peer \in Nodes, PeerLost(n, peer)
    PROVE  /\ EngineOK' /\ QueuesOK' /\ ServicesOK' /\ PeeringOK'
           /\ \A m \in Nodes : proposed'[m] \subseteq proposed[m]
           /\ UNCHANGED <<stored, change, evaluating, backlog, met, unpeered_payloads, pending_circuit_payloads,
                          submitted>>
<1> DEFINE S == {"REQUEST", "APPLY", "REJECT"} \X Payload
           sent == orders[<<n, peer>>]
<1>1. PICK k \in 0..Len(sent) : orders' = [orders EXCEPT ![<<n, peer>>] = SubSeq(sent, 1, k)]
  BY Zenon DEF PeerLost
<1>2. PICK lost \in SUBSET proposed[peer] : proposed' = [proposed EXCEPT ![peer] = @ \ lost]
  BY Zenon DEF PeerLost
<1>3. PICK gone \in SUBSET member_ready[peer] : member_ready' = [member_ready EXCEPT ![peer] = @ \ gone]
  BY Zenon DEF PeerLost
<1>4. /\ authorized' = [authorized EXCEPT ![n] = @ \ {peer}]
      /\ UNCHANGED <<stored, uninitialized_circuits, running_services, events, met, unpeered_payloads,
                     change, evaluating, backlog, requests, validated, pending_circuit_payloads,
                     pending_consensus_proposals, submitted>>
  BY Zenon DEF PeerLost
<1>5. orders \in [Nodes \X Nodes -> Seq(S)] /\ sent \in Seq(S)
  BY DEF EngineOK
<1>6. orders' \in [Nodes \X Nodes -> Seq(S)]
  <2> HIDE DEF S, sent
  <2>1. SubSeq(sent, 1, k) \in Seq(S)
    BY <1>5
  <2> QED BY <1>1, <1>5, <2>1
<1>7. EngineOK'
  BY Zenon, <1>4, <1>6 DEF EngineOK
<1>8. QueuesOK' /\ \A m \in Nodes : proposed'[m] \subseteq proposed[m]
  BY <1>2, <1>4 DEF QueuesOK
<1>9. ServicesOK'
  BY <1>3, <1>4 DEF ServicesOK
<1>10. PeeringOK'
  BY <1>4 DEF PeeringOK
<1> QED BY Zenon, <1>4, <1>7, <1>8, <1>9, <1>10

\* What a step leaves alone keeps its type.
LEMMA KeptTypes ==
    ASSUME TypeOK
    PROVE  /\ UNCHANGED workload => WorkloadOK'
           /\ UNCHANGED stored => StoredOK'
           /\ UNCHANGED services => ServicesOK'
           /\ UNCHANGED peering => PeeringOK'
           /\ UNCHANGED change => ChangeOK'
           /\ UNCHANGED engine => EngineOK'
           /\ UNCHANGED <<pending_circuit_payloads, pending_consensus_proposals, proposed, submitted>> => QueuesOK'
<1>1. UNCHANGED workload => WorkloadOK'
  BY DEF TypeOK, WorkloadOK
<1>2. UNCHANGED stored => StoredOK'
  BY DEF TypeOK, StoredOK, stored
<1>3. UNCHANGED services => ServicesOK'
  BY DEF TypeOK, ServicesOK, services
<1>4. UNCHANGED peering => PeeringOK'
  BY DEF TypeOK, PeeringOK, peering
<1>5. UNCHANGED change => ChangeOK'
  BY DEF TypeOK, ChangeOK, change
<1>6. UNCHANGED engine => EngineOK'
  BY DEF TypeOK, EngineOK, engine
<1>7. UNCHANGED <<pending_circuit_payloads, pending_consensus_proposals, proposed, submitted>> => QueuesOK'
  BY DEF TypeOK, QueuesOK
<1> QED BY <1>1, <1>2, <1>3, <1>4, <1>5, <1>6, <1>7

\* The payloads of a workload are payloads.
LEMMA WorkloadPayloads ==
    ASSUME WorkloadOK, NEW p \in Payloads
    PROVE  p \in Payload
  BY AdminAssumption DEF WorkloadOK, Payloads

\* propose_change stores a payload and a proposal as the pending change.
LEMMA ProposeTypes ==
    ASSUME StoredOK, ChangeOK, NEW n \in Nodes, NEW p \in Payload, Propose(n, p)
    PROVE  ChangeOK' /\ <<p, Proposed(n, p)>> \in Payload \X CircuitProposal
<1>1. Proposed(n, p) \in CircuitProposal /\ p.action \in {"create", "vote"} /\ Members[p.circuit] \subseteq Nodes
  BY Zenon, ValidLeads, PayloadFields DEF Propose
<1> QED BY <1>1 DEF Propose, ChangeOK

\* The orders of a coordinator are requests and decisions about payloads.
LEMMA OrderTypes ==
    ASSUME EngineOK, NEW c, NEW to, NEW k \in {"REQUEST", "APPLY", "REJECT"}, NEW p \in Payload,
           Order(c, to, k, p)
    PROVE  orders' \in [Nodes \X Nodes -> Seq({"REQUEST", "APPLY", "REJECT"} \X Payload)]
<1> DEFINE S == {"REQUEST", "APPLY", "REJECT"} \X Payload
<1>1. ASSUME NEW x \in Nodes \X Nodes PROVE orders[x] \in Seq(S) /\ Append(orders[x], <<k, p>>) \in Seq(S)
  <2>1. orders[x] \in Seq(S) /\ <<k, p>> \in S
    BY DEF EngineOK
  <2> HIDE DEF S
  <2> QED BY <2>1
<1> HIDE DEF S
<1>2. orders' \in [Nodes \X Nodes -> Seq(S)]
  BY <1>1 DEF Order
<1> QED BY <1>2 DEF S

\* Forgetting a consensus proposal, and dropping the changes.
LEMMA ForgetTypes ==
    ASSUME ChangeOK, QueuesOK, NEW n \in Nodes, NEW p
    PROVE  /\ Forget(n, p) /\ UNCHANGED <<pending_circuit_payloads, proposed, submitted>> => QueuesOK'
           /\ reject_proposal(n, p) /\ UNCHANGED current_consensus_verifiers => ChangeOK'
<1>1. Forget(n, p) /\ UNCHANGED <<pending_circuit_payloads, proposed, submitted>> => QueuesOK'
  BY DEF Forget, QueuesOK
<1>2. reject_proposal(n, p) /\ UNCHANGED current_consensus_verifiers => ChangeOK'
  BY DEF reject_proposal, ChangeOK
<1> QED BY <1>1, <1>2

\* accept_proposal keeps the types.
LEMMA AcceptTypes ==
    ASSUME TypeOK, NEW n \in Nodes, NEW p, accept_proposal(n, p), UNCHANGED current_consensus_verifiers,
           UNCHANGED <<pending_circuit_payloads, proposed, submitted>>
    PROVE  StoredOK' /\ ServicesOK' /\ ChangeOK' /\ QueuesOK'
<1>1. ServicesOK'
  BY AcceptServices DEF TypeOK
<1>2. StoredOK'
  BY AcceptStores, CommittedPlaces, KeptTypes DEF TypeOK
<1>3. ChangeOK'
  <2>1. pending_changes' \in {pending_changes, [pending_changes EXCEPT ![n] = None]}
    BY AcceptStores
  <2> QED BY <2>1 DEF TypeOK, ChangeOK
<1>4. QueuesOK'
  <2>1. UNCHANGED pending_consensus_proposals \/ Forget(n, p)
    BY DEF accept_proposal
  <2> QED BY <2>1, ForgetTypes, KeptTypes DEF TypeOK
<1> QED BY <1>1, <1>2, <1>3, <1>4

\* Users and peers.
LEMMA UserTypes ==
    ASSUME TypeOK, NEW n \in Nodes, UNCHANGED workload,
           \/ \E p \in Payloads : submit(n, p)
           \/ \E peer \in Nodes : PeerAuthorized(n, peer) \/ PeerRefused(n, peer) \/ PeerLost(n, peer)
    PROVE  TypeOK'
<1>1. WorkloadOK' /\ StoredOK' /\ ChangeOK'
  BY Zenon, KeptTypes DEF submit, PeerAuthorized, PeerRefused, PeerLost
<1>5. ASSUME UNCHANGED <<services, engine>> PROVE ServicesOK' /\ EngineOK'
  BY <1>5, KeptTypes
<1>2. ASSUME NEW p \in Payloads, submit(n, p) PROVE PeeringOK' /\ QueuesOK'
  <2> DEFINE unauthorized == {m \in Members[p.circuit] : m # n /\ m \notin authorized[n]}
             S == (SUBSET Nodes) \X Payload
  <2>1. p \in Payload /\ unauthorized \in SUBSET Nodes
    <3>1. p \in Payload
      BY Zenon, WorkloadPayloads DEF TypeOK
    <3>2. Members[p.circuit] \subseteq Nodes
      BY ZenonT(60), <3>1, PayloadFields
    <3> QED BY Zenon, <3>1, <3>2
  <2>2. submitted' \in Seq(Payload)
    <3>1. submitted' = Append(submitted, p) /\ submitted \in Seq(Payload)
      BY Zenon, <1>2 DEF submit, TypeOK, QueuesOK
    <3> QED BY <2>1, <3>1
  <2>5. authorized' = authorized /\ met' \in [Nodes -> SUBSET (Payload \X Nodes)]
    <3>1. authorized' = authorized /\ met' = [met EXCEPT ![n] = @ \cup ({p} \X authorized[n])]
      BY Zenon, <1>2 DEF submit
    <3> QED BY <2>1, <3>1 DEF TypeOK, PeeringOK
  <2>3. CASE Queue(n, <<p>>) /\ UNCHANGED unpeered_payloads
    <3>1. pending_circuit_payloads[n] \o <<p>> \in Seq(Payload)
      BY <2>1 DEF TypeOK, QueuesOK
    <3> QED BY Zenon, <1>2, <2>2, <2>3, <2>5, <3>1 DEF submit, Queue, TypeOK, PeeringOK, QueuesOK
  <2>4. CASE /\ unpeered_payloads' = [unpeered_payloads EXCEPT ![n] = Append(@, <<unauthorized, p>>)]
             /\ UNCHANGED pending_circuit_payloads
    <3>1. unpeered_payloads[n] \in Seq(S) /\ <<unauthorized, p>> \in S
      BY <2>1 DEF TypeOK, PeeringOK
    <3> HIDE DEF S
    <3>2. Append(unpeered_payloads[n], <<unauthorized, p>>) \in Seq(S)
      BY <3>1
    <3>3. PeeringOK'
      BY ZenonT(60), <2>4, <2>5, <3>2 DEF TypeOK, PeeringOK, S
    <3> QED BY Zenon, <1>2, <2>2, <2>4, <3>3 DEF submit, TypeOK, QueuesOK
  <2> QED BY Zenon, <1>2, <2>3, <2>4 DEF submit
<1>3. ASSUME NEW peer \in Nodes, PeerAuthorized(n, peer) PROVE PeeringOK' /\ QueuesOK'
  BY <1>3, AuthorizedStep DEF TypeOK
<1>4. ASSUME NEW peer \in Nodes, PeerRefused(n, peer) PROVE PeeringOK' /\ QueuesOK'
  <2>1. PeeringOK'
    BY <1>4, RefusedStep DEF TypeOK
  <2> QED BY <1>4, <2>1, KeptTypes DEF PeerRefused
<1>6. ASSUME NEW peer \in Nodes, PeerLost(n, peer) PROVE ServicesOK' /\ EngineOK' /\ PeeringOK' /\ QueuesOK'
  BY <1>6, LostStep DEF TypeOK
<1>7. \/ UNCHANGED <<services, engine>> /\ PeeringOK' /\ QueuesOK'
      \/ ServicesOK' /\ EngineOK' /\ PeeringOK' /\ QueuesOK'
  BY Zenon, <1>2, <1>3, <1>4, <1>6 DEF submit, PeerAuthorized, PeerRefused
<1> QED BY <1>1, <1>5, <1>7 DEF TypeOK

\* Messages of other admin services.
LEMMA MessageTypes ==
    ASSUME TypeOK, NEW n \in Nodes, UNCHANGED workload,
           \/ create_proposal(n)
           \/ \E q \in proposed[n] : HandleProposedCircuit(n, q)
           \/ \E r \in member_ready[n] : HandleMemberReady(n, r)
    PROVE  TypeOK'
<1>0. WorkloadOK'
  BY KeptTypes
<1>1. CASE create_proposal(n)
  <2> DEFINE p == Head(pending_circuit_payloads[n])
             q == <<p, Proposed(n, p)>>
  <2>1. StoredOK' /\ ServicesOK' /\ PeeringOK'
    BY Zenon, <1>1, KeptTypes DEF create_proposal
  <2>2. p \in Payload /\ Tail(pending_circuit_payloads[n]) \in Seq(Payload)
    <3>1. pending_circuit_payloads[n] \in Seq(Payload) /\ pending_circuit_payloads[n] # <<>>
      BY Zenon, <1>1 DEF create_proposal, TypeOK, QueuesOK
    <3> QED BY <3>1
  <2>3. pending_circuit_payloads' \in [Nodes -> Seq(Payload)] /\ UNCHANGED submitted
    BY Zenon, <1>1, <2>2 DEF create_proposal, TypeOK, QueuesOK
  <2>4. CASE Valid(n, p)
    <3>1. Propose(n, p)
      BY Zenon, <1>1, <2>4 DEF create_proposal
    <3>2. ChangeOK' /\ q \in Payload \X CircuitProposal
      BY <2>2, <3>1, ProposeTypes DEF TypeOK
    <3>3. /\ pending_consensus_proposals' =
               [pending_consensus_proposals EXCEPT ![n] = (@ \ Expected(n, p)) \cup {q}]
          /\ backlog' = [backlog EXCEPT ![n] = @ \cup {p}]
          /\ proposed' = [m \in Nodes |-> IF m \in Members[p.circuit] \ {n}
                                          THEN proposed[m] \cup {q} ELSE proposed[m]]
          /\ UNCHANGED <<evaluating, requests, validated, orders>>
      BY Zenon, <1>1, <2>4 DEF create_proposal
    <3> HIDE DEF p, q
    <3>4. QueuesOK'
      BY ZenonT(60), <2>3, <3>2, <3>3 DEF TypeOK, QueuesOK
    <3>5. EngineOK'
      BY Zenon, <2>2, <3>3 DEF TypeOK, EngineOK
    <3> QED BY Zenon, <1>0, <2>1, <3>2, <3>4, <3>5 DEF TypeOK
  <2>5. CASE ~ Valid(n, p)
    <3>1. UNCHANGED <<change, pending_consensus_proposals, backlog, proposed, evaluating, requests,
                      validated, orders>>
      BY Zenon, <1>1, <2>5 DEF create_proposal
    <3>2. ChangeOK' /\ EngineOK'
      BY Zenon, <3>1, KeptTypes DEF engine
    <3>3. QueuesOK'
      BY Zenon, <2>3, <3>1 DEF TypeOK, QueuesOK
    <3> QED BY <1>0, <2>1, <3>2, <3>3 DEF TypeOK
  <2> QED BY <2>4, <2>5
<1>2. ASSUME NEW q \in proposed[n], HandleProposedCircuit(n, q) PROVE TypeOK'
  <2>1. StoredOK' /\ ServicesOK' /\ PeeringOK' /\ ChangeOK'
    BY <1>2, KeptTypes DEF HandleProposedCircuit
  <2>2. q \in Payload \X CircuitProposal /\ q[1] \in Payload
    BY DEF TypeOK, QueuesOK
  <2>3. QueuesOK'
    BY ZenonT(60), <1>2, <2>2 DEF HandleProposedCircuit, TypeOK, QueuesOK
  <2>4. EngineOK'
    BY <1>2, <2>2 DEF HandleProposedCircuit, TypeOK, EngineOK
  <2> QED BY ZenonT(60), <1>0, <2>1, <2>3, <2>4 DEF TypeOK
<1>3. ASSUME NEW r \in member_ready[n], HandleMemberReady(n, r) PROVE TypeOK'
  <2> DEFINE uninit == uninitialized_circuits[n][r[1]]
             entry == AddReady(uninit, r[2])
  <2>1. StoredOK' /\ PeeringOK' /\ ChangeOK' /\ EngineOK' /\ QueuesOK'
    BY Zenon, <1>3, KeptTypes DEF HandleMemberReady
  <2>2. StartsOK /\ EventsOK /\ ReadyOK
    BY ServicesParts DEF TypeOK
  <2>3. r[1] \in Ids /\ r[2] \in Nodes
    BY <2>2 DEF ReadyOK
  <2>4. uninit \in Uninitialized
    BY <2>2, <2>3 DEF StartsOK
  <2>5. entry \in Uninitialized
    <3>1. entry = [circuit |-> uninit.circuit, ready |-> uninit.ready \cup {r[2]}]
      BY <2>4 DEF AddReady, Uninitialized
    <3> QED BY <2>3, <2>4, <3>1 DEF Uninitialized
  <2>6. ReadyOK'
    BY Zenon, <1>3, <2>2 DEF HandleMemberReady, ReadyOK
  <2>7. CASE initialize_services(n, r[1], entry, <<>>)
    <3>1. <<>> \in Seq(AdminEvent)
      OBVIOUS
    <3>2. StartsOK' /\ EventsOK'
      BY Zenon, <2>2, <2>3, <2>5, <2>7, <3>1, InitializeTypes
    <3> QED BY Zenon, <1>0, <2>1, <2>6, <3>2, ServicesParts DEF TypeOK
  <2>8. CASE ServiceFails(n, r[1], entry) /\ UNCHANGED events
    <3>1. StartsOK'
      BY <2>2, <2>3, <2>8, FailTypes
    <3>2. EventsOK'
      BY Zenon, <2>2, <2>8 DEF EventsOK
    <3> QED BY Zenon, <1>0, <2>1, <2>6, <3>1, <3>2, ServicesParts DEF TypeOK
  <2> QED BY Zenon, <1>3, <2>7, <2>8 DEF HandleMemberReady
<1> QED BY <1>1, <1>2, <1>3

\* The engine's steps.
LEMMA EngineTypes ==
    ASSUME TypeOK, NEW n \in Nodes, NEW p \in Payload, UNCHANGED workload,
           Coordinate(n, p) \/ Evaluate(n, p) \/ Accept(n, p) \/ Abort(n, p)
    PROVE  TypeOK'
<1>0. WorkloadOK'
  BY KeptTypes
<1>1. CASE Coordinate(n, p)
  <2>1. StoredOK' /\ ServicesOK' /\ PeeringOK'
    BY Zenon, <1>1, KeptTypes DEF Coordinate
  <2>2. backlog' = [backlog EXCEPT ![n] = @ \ {p}]
        /\ UNCHANGED <<pending_circuit_payloads, submitted, requests, proposed>>
    BY Zenon, <1>1 DEF Coordinate
  <2>3. CASE Valid(n, p) /\ Expected(n, p) # {}
    <3>1. Checks(n, p) /\ Become(n, p) /\ UNCHANGED pending_consensus_proposals
          /\ \E to : Order(n, to, "REQUEST", p)
      BY Zenon, <1>1, <2>3 DEF Coordinate
    <3>2. ChangeOK'
      BY Zenon, <3>1, ProposeTypes DEF Checks, TypeOK
    <3>3. orders' \in [Nodes \X Nodes -> Seq({"REQUEST", "APPLY", "REJECT"} \X Payload)]
      BY Zenon, <3>1, OrderTypes DEF TypeOK
    <3>4. EngineOK'
      BY Zenon, <2>2, <3>1, <3>3 DEF Checks, Become, TypeOK, EngineOK
    <3>5. QueuesOK'
      BY <2>2, <3>1, KeptTypes
    <3> QED BY <1>0, <2>1, <3>2, <3>4, <3>5 DEF TypeOK
  <2>4. CASE ~ (Valid(n, p) /\ Expected(n, p) # {})
    <3>1. reject_proposal(n, p) /\ UNCHANGED <<current_consensus_verifiers, evaluating, validated, orders>>
      BY Zenon, <1>1, <2>4 DEF Coordinate
    <3>2. ChangeOK' /\ QueuesOK'
      BY <2>2, <3>1, ForgetTypes DEF reject_proposal, TypeOK
    <3>3. EngineOK'
      BY <2>2, <3>1 DEF TypeOK, EngineOK
    <3> QED BY <1>0, <2>1, <3>2, <3>3 DEF TypeOK
  <2> QED BY <2>3, <2>4
<1>2. CASE Evaluate(n, p)
  <2>1. StoredOK' /\ ServicesOK' /\ PeeringOK' /\ QueuesOK'
    BY <1>2, KeptTypes DEF Evaluate
  <2>2. /\ requests' = [requests EXCEPT ![n] = @ \ {p}] /\ backlog' = [backlog EXCEPT ![n] = @ \ {p}]
        /\ UNCHANGED orders
    BY <1>2 DEF Evaluate
  <2>3. CASE Checks(n, p) /\ Become(n, p)
    <3>1. ChangeOK'
      BY Zenon, <2>3, ProposeTypes DEF Checks, TypeOK
    <3>2. EngineOK'
      BY <2>2, <2>3 DEF Checks, Become, TypeOK, EngineOK
    <3> QED BY <1>0, <2>1, <3>1, <3>2 DEF TypeOK
  <2>4. CASE UNCHANGED <<change, evaluating, validated>>
    <3>1. ChangeOK' /\ EngineOK'
      BY <2>2, <2>4, KeptTypes DEF TypeOK, EngineOK
    <3> QED BY <1>0, <2>1, <3>1 DEF TypeOK
  <2> QED BY Zenon, <1>2, <2>3, <2>4 DEF Evaluate
<1>3. CASE Accept(n, p)
  <2>1. accept_proposal(n, p) /\ Become(n, None) /\ Order(n, current_consensus_verifiers[n], "APPLY", p)
        /\ UNCHANGED <<peering, pending_circuit_payloads, current_consensus_verifiers, backlog,
                       requests, validated, submitted, proposed>>
    BY Zenon, <1>3 DEF Accept
  <2>2. StoredOK' /\ ServicesOK' /\ ChangeOK' /\ QueuesOK'
    BY <2>1, AcceptTypes
  <2>3. PeeringOK'
    BY <2>1, KeptTypes
  <2>4. orders' \in [Nodes \X Nodes -> Seq({"REQUEST", "APPLY", "REJECT"} \X Payload)]
    BY Zenon, <2>1, OrderTypes DEF TypeOK
  <2>5. EngineOK'
    BY Zenon, <2>1, <2>4 DEF Become, TypeOK, EngineOK
  <2> QED BY <1>0, <2>2, <2>3, <2>5 DEF TypeOK
<1>4. CASE Abort(n, p)
  <2>1. reject_proposal(n, p) /\ Become(n, None) /\ Order(n, current_consensus_verifiers[n], "REJECT", p)
        /\ UNCHANGED <<stored, services, peering, pending_circuit_payloads, backlog, requests,
                       current_consensus_verifiers, validated, submitted, proposed>>
    BY Zenon, <1>4 DEF Abort
  <2>2. ChangeOK' /\ QueuesOK'
    BY <2>1, ForgetTypes DEF reject_proposal, TypeOK
  <2>3. StoredOK' /\ ServicesOK' /\ PeeringOK'
    BY <2>1, KeptTypes
  <2>4. orders' \in [Nodes \X Nodes -> Seq({"REQUEST", "APPLY", "REJECT"} \X Payload)]
    BY Zenon, <2>1, OrderTypes DEF TypeOK
  <2>5. EngineOK'
    BY Zenon, <2>1, <2>4 DEF Become, TypeOK, EngineOK
  <2> QED BY <1>0, <2>2, <2>3, <2>5 DEF TypeOK
<1> QED BY <1>1, <1>2, <1>3, <1>4

\* A verifier that handles an order of its coordinator keeps the types.
LEMMA OrderHandledTypes ==
    ASSUME TypeOK, NEW c \in Nodes, NEW n \in Nodes, UNCHANGED workload, HandleOrder(c, n)
    PROVE  TypeOK'
<1> DEFINE S == {"REQUEST", "APPLY", "REJECT"} \X Payload
           kind == Head(orders[<<c, n>>])[1]
           p == Head(orders[<<c, n>>])[2]
<1>1. /\ orders' = [orders EXCEPT ![<<c, n>>] = Tail(@)] /\ orders[<<c, n>>] # <<>>
      /\ UNCHANGED <<peering, pending_circuit_payloads, backlog, validated, submitted, proposed>>
  BY Zenon DEF HandleOrder
<1>2. WorkloadOK' /\ PeeringOK'
  BY <1>1, KeptTypes
<1>3. p \in Payload /\ orders' \in [Nodes \X Nodes -> Seq(S)]
  <2>1. <<c, n>> \in Nodes \X Nodes
    OBVIOUS
  <2>2. orders \in [Nodes \X Nodes -> Seq(S)]
    BY DEF TypeOK, EngineOK
  <2>3. Head(orders[<<c, n>>]) \in S /\ Tail(orders[<<c, n>>]) \in Seq(S)
    <3> HIDE DEF S
    <3> QED BY <1>1, <2>1, <2>2
  <2>4. p \in Payload
    BY <2>3
  <2> HIDE DEF S
  <2> QED BY <1>1, <2>1, <2>2, <2>3, <2>4
<1> HIDE DEF p, kind
<1>4. CASE /\ requests' = [requests EXCEPT ![n] = @ \cup {p}]
           /\ UNCHANGED <<stored, services, change, evaluating, pending_consensus_proposals>>
  <2>1. StoredOK' /\ ServicesOK' /\ ChangeOK' /\ QueuesOK'
    BY <1>1, <1>4, KeptTypes
  <2>2. EngineOK'
    BY <1>1, <1>3, <1>4 DEF TypeOK, EngineOK
  <2> QED BY <1>2, <2>1, <2>2 DEF TypeOK
<1>5. CASE /\ \/ accept_proposal(n, p) /\ Become(n, None)
              \/ UNCHANGED <<stored, services, pending_changes, evaluating, pending_consensus_proposals>>
           /\ UNCHANGED <<requests, current_consensus_verifiers>>
  <2>1. StoredOK' /\ ServicesOK' /\ ChangeOK' /\ QueuesOK'
    BY <1>1, <1>5, KeptTypes, AcceptTypes DEF change
  <2>2. EngineOK'
    BY Zenon, <1>1, <1>3, <1>5 DEF Become, TypeOK, EngineOK
  <2> QED BY <1>2, <2>1, <2>2 DEF TypeOK
<1>6. CASE /\ reject_proposal(n, p)
           /\ Become(n, IF evaluating[n] = p THEN None ELSE evaluating[n])
           /\ UNCHANGED <<stored, services, requests, current_consensus_verifiers>>
  <2>1. StoredOK' /\ ServicesOK'
    BY <1>6, KeptTypes
  <2>2. ChangeOK' /\ QueuesOK'
    BY <1>1, <1>6, ForgetTypes DEF reject_proposal, TypeOK
  <2>3. EngineOK'
    BY <1>1, <1>3, <1>6 DEF Become, TypeOK, EngineOK
  <2> QED BY <1>2, <2>1, <2>2, <2>3 DEF TypeOK
<1> QED BY Zenon, <1>4, <1>5, <1>6 DEF HandleOrder, p, kind

\* A node that restarts from its stored state keeps the types.
LEMMA RestartTypes ==
    ASSUME TypeOK, NEW n \in Nodes, UNCHANGED workload, Restart(n)
    PROVE  TypeOK'
<1>1. WorkloadOK'
  BY KeptTypes
<1>2. disk[n].open \in OpenProposals /\ disk[n].circuits \in SUBSET Definitions
  BY DEF TypeOK, StoredOK
<1>3. StoredOK'
  BY Zenon, <1>2 DEF Restart, TypeOK, StoredOK
<1>4. ServicesOK'
  BY Zenon, <1>2, <1>3, EmptyEntry DEF Restart, restart_services, TypeOK, ServicesOK, StoredOK
<1>5. PeeringOK'
  <2>1. /\ authorized' = [authorized EXCEPT ![n] = {}] /\ met' = [met EXCEPT ![n] = {}]
        /\ unpeered_payloads' = [unpeered_payloads EXCEPT ![n] = <<>>]
    BY Zenon DEF Restart
  <2> QED BY <2>1 DEF TypeOK, PeeringOK
<1>6. ChangeOK'
  BY Zenon DEF Restart, TypeOK, ChangeOK
<1>7. EngineOK'
  <2>1. /\ evaluating' = [evaluating EXCEPT ![n] = None] /\ backlog' = [backlog EXCEPT ![n] = {}]
        /\ requests' = [requests EXCEPT ![n] = {}] /\ UNCHANGED validated
        /\ orders' = [x \in Nodes \X Nodes |-> IF x[2] = n THEN <<>> ELSE orders[x]]
    BY Zenon DEF Restart
  <2>2. orders' \in [Nodes \X Nodes -> Seq({"REQUEST", "APPLY", "REJECT"} \X Payload)]
    BY <2>1 DEF TypeOK, EngineOK
  <2>3. /\ evaluating' \in [Nodes -> Payload \cup {None}] /\ backlog' \in [Nodes -> SUBSET Payload]
        /\ requests' \in [Nodes -> SUBSET Payload] /\ validated' \in [Nodes -> SUBSET Payload]
    BY <2>1 DEF TypeOK, EngineOK
  <2> QED BY Zenon, <2>2, <2>3 DEF EngineOK
<1>8. QueuesOK'
  <2>1. /\ pending_circuit_payloads' = [pending_circuit_payloads EXCEPT ![n] = <<>>]
        /\ pending_consensus_proposals' = [pending_consensus_proposals EXCEPT ![n] = {}]
        /\ proposed' = [proposed EXCEPT ![n] = {}] /\ UNCHANGED submitted
    BY Zenon DEF Restart
  <2>2. pending_circuit_payloads' \in [Nodes -> Seq(Payload)]
    BY <2>1 DEF TypeOK, QueuesOK
  <2>3. /\ pending_consensus_proposals' \in [Nodes -> SUBSET (Payload \X CircuitProposal)]
        /\ proposed' \in [Nodes -> SUBSET (Payload \X CircuitProposal)] /\ submitted' \in Seq(Payload)
    BY Zenon, <2>1 DEF TypeOK, QueuesOK
  <2> QED BY Zenon, <2>2, <2>3 DEF QueuesOK
<1> QED BY Zenon, <1>1, <1>3, <1>4, <1>5, <1>6, <1>7, <1>8 DEF TypeOK

-----------------------------------------------------------------------------
(* What a step does to what is stored, to the pending changes and to the evaluation. *)

Acts(n) ==
    \/ \E p \in Payloads : submit(n, p)
    \/ \E peer \in Nodes : PeerAuthorized(n, peer) \/ PeerRefused(n, peer) \/ PeerLost(n, peer)
    \/ create_proposal(n)
    \/ \E q \in proposed[n] : HandleProposedCircuit(n, q)
    \/ \E r \in member_ready[n] : HandleMemberReady(n, r)
    \/ \E p \in Payloads : Coordinate(n, p) \/ Evaluate(n, p) \/ Accept(n, p) \/ Abort(n, p)
    \/ \E c \in Nodes : HandleOrder(c, n)
    \/ Restart(n)

\* Every step is a step of one node and leaves the workload alone.
LEMMA NextActs == Next => \E n \in Nodes : Acts(n) /\ UNCHANGED workload
  BY Zenon DEF Next, Steps, Acts

\* Every step of a node keeps the types.
LEMMA ActsTypes ==
    ASSUME TypeOK, NEW n \in Nodes, Acts(n), UNCHANGED workload
    PROVE  TypeOK'
<1>1. \A p \in Payloads : p \in Payload
  BY WorkloadPayloads DEF TypeOK
<1> QED BY Zenon, <1>1, UserTypes, MessageTypes, EngineTypes, OrderHandledTypes, RestartTypes DEF Acts

\* A submitted payload becomes the change at hand, and perhaps the one evaluated.
Proposes(n, p) ==
    /\ p \in Payload /\ p \in Cast /\ evaluating[n] = None
    /\ Propose(n, p)
    /\ evaluating' \in {evaluating, [evaluating EXCEPT ![n] = p]}
    /\ UNCHANGED <<stored, submitted>>

\* The change is dropped, and perhaps the evaluation ends.
Drops(n) ==
    /\ pending_changes' \in {pending_changes, [pending_changes EXCEPT ![n] = None]}
    /\ evaluating' \in {evaluating, [evaluating EXCEPT ![n] = None]}
    /\ UNCHANGED <<stored, submitted, current_consensus_verifiers>>

\* The change is committed, or fails to be.
Commits(n) ==
    /\ pending_changes' = [pending_changes EXCEPT ![n] = None]
    /\ evaluating' = [evaluating EXCEPT ![n] = None]
    /\ Committed(n)
    /\ UNCHANGED <<submitted, current_consensus_verifiers>>

\* What a step of a node may do to the stored state: nothing, take up a change, drop it,
\* commit it, or read the stored state again.
LEMMA Effects ==
    ASSUME TypeOK, QueuedWereSubmitted, NEW n \in Nodes, Acts(n)
    PROVE  \/ UNCHANGED <<stored, change, evaluating>>
           \/ \E p : Proposes(n, p)
           \/ Drops(n) \/ Commits(n) \/ Restart(n)
<1>1. ASSUME NEW p, accept_proposal(n, p), Become(n, None), UNCHANGED <<submitted, current_consensus_verifiers>>
      PROVE  Drops(n) \/ Commits(n)
  BY <1>1, AcceptStores DEF Become, Drops, Commits
<1>2. ASSUME NEW p, reject_proposal(n, p), UNCHANGED <<stored, submitted, current_consensus_verifiers>>,
             evaluating' \in {evaluating, [evaluating EXCEPT ![n] = None]}
      PROVE  Drops(n)
  BY Zenon, <1>2 DEF reject_proposal, Drops, TypeOK, ChangeOK
<1>3. CASE create_proposal(n)
  <2> DEFINE p == Head(pending_circuit_payloads[n])
  <2>1. p \in Payload /\ p \in Cast
    <3>1. pending_circuit_payloads[n] \in Seq(Payload) /\ pending_circuit_payloads[n] # <<>>
      BY Zenon, <1>3 DEF create_proposal, TypeOK, QueuesOK
    <3>2. p = pending_circuit_payloads[n][1] /\ 1 \in DOMAIN pending_circuit_payloads[n]
      BY <3>1
    <3> QED BY <3>1, <3>2 DEF QueuedWereSubmitted
  <2>2. CASE Valid(n, p)
    <3>1. Propose(n, p) /\ evaluating[n] = None /\ UNCHANGED <<stored, evaluating, submitted>>
      BY Zenon, <1>3, <2>2 DEF create_proposal, EngineIdle
    <3> HIDE DEF p
    <3> QED BY <2>1, <3>1 DEF Proposes
  <2>3. CASE ~ Valid(n, p)
    BY Zenon, <1>3, <2>3 DEF create_proposal
  <2> QED BY <2>2, <2>3
<1>4. ASSUME NEW p \in Payloads, Coordinate(n, p) \/ Evaluate(n, p)
      PROVE  UNCHANGED <<stored, change, evaluating>> \/ Proposes(n, p) \/ Drops(n)
  <2>1. p \in Payload /\ p \in Cast /\ evaluating[n] = None /\ UNCHANGED <<stored, submitted>>
    BY Zenon, <1>4, WorkloadPayloads DEF Coordinate, Evaluate, TypeOK, QueuedWereSubmitted
  <2>2. CASE Checks(n, p) /\ Become(n, p)
    BY <2>1, <2>2 DEF Checks, Become, Proposes
  <2>3. CASE reject_proposal(n, p) /\ UNCHANGED <<current_consensus_verifiers, evaluating>>
    BY <1>2, <2>1, <2>3
  <2>4. CASE UNCHANGED <<change, evaluating>>
    BY <2>1, <2>4
  <2> QED BY Zenon, <1>4, <2>2, <2>3, <2>4 DEF Coordinate, Evaluate
<1>5. ASSUME NEW p, Accept(n, p) \/ Abort(n, p) PROVE Drops(n) \/ Commits(n)
  BY Zenon, <1>1, <1>2, <1>5 DEF Accept, Abort, Become
<1>6. ASSUME NEW c \in Nodes, HandleOrder(c, n)
      PROVE  UNCHANGED <<stored, change, evaluating>> \/ Drops(n) \/ Commits(n)
  <2> DEFINE p == Head(orders[<<c, n>>])[2]
  <2>0. UNCHANGED submitted
    BY Zenon, <1>6 DEF HandleOrder
  <2>1. CASE UNCHANGED <<stored, change, evaluating>>
    BY <2>1
  <2>2. CASE accept_proposal(n, p) /\ Become(n, None) /\ UNCHANGED current_consensus_verifiers
    BY <1>1, <2>0, <2>2
  <2>3. CASE /\ reject_proposal(n, p)
             /\ Become(n, IF evaluating[n] = p THEN None ELSE evaluating[n])
             /\ UNCHANGED <<stored, current_consensus_verifiers>>
    <3>1. evaluating' \in {evaluating, [evaluating EXCEPT ![n] = None]}
      <4> HIDE DEF p
      <4> QED BY Zenon, <2>3 DEF Become, TypeOK, EngineOK
    <3> QED BY <1>2, <2>0, <2>3, <3>1
  <2> QED BY Zenon, <1>6, <2>1, <2>2, <2>3 DEF HandleOrder, change
<1>7. CASE \/ \E p \in Payloads : submit(n, p)
           \/ \E peer \in Nodes : PeerAuthorized(n, peer) \/ PeerRefused(n, peer) \/ PeerLost(n, peer)
           \/ \E q \in proposed[n] : HandleProposedCircuit(n, q)
           \/ \E r \in member_ready[n] : HandleMemberReady(n, r)
  BY Zenon, <1>7 DEF submit, PeerAuthorized, PeerRefused, PeerLost, HandleProposedCircuit, HandleMemberReady, engine
<1> QED BY Zenon, <1>3, <1>4, <1>5, <1>6, <1>7 DEF Acts

-----------------------------------------------------------------------------
(* Each part of the invariant is kept. *)

\* What was submitted stays submitted.
LEMMA CastGrows ==
    ASSUME TypeOK, NEW n \in Nodes, Acts(n)
    PROVE  Cast \subseteq Cast'
<1>1. ASSUME NEW p \in Payloads, submit(n, p) PROVE Cast \subseteq Cast' /\ p \in Cast'
  <2>1. submitted' = Append(submitted, p) /\ submitted \in Seq(Payload) /\ p \in Payload
    BY <1>1, WorkloadPayloads DEF submit, TypeOK, QueuesOK
  <2>2. /\ \A i \in DOMAIN submitted : i \in DOMAIN submitted' /\ submitted'[i] = submitted[i]
        /\ Len(submitted) + 1 \in DOMAIN submitted' /\ submitted'[Len(submitted) + 1] = p
    BY <2>1
  <2> QED BY <2>2 DEF Cast
<1>2. CASE UNCHANGED submitted
  BY <1>2 DEF Cast
<1>3. (\E p \in Payloads : submit(n, p)) \/ UNCHANGED submitted
  BY Zenon DEF Acts, PeerAuthorized, PeerRefused, PeerLost, create_proposal, HandleProposedCircuit, HandleMemberReady,
         Coordinate, Evaluate, Accept, Abort, HandleOrder, Restart
<1> QED BY <1>1, <1>2, <1>3

\* A payload that a user submits counts as cast.
LEMMA SubmittedIsCast ==
    ASSUME TypeOK, NEW n \in Nodes, NEW p \in Payloads, submit(n, p)
    PROVE  p \in Cast'
<1>1. submitted' = Append(submitted, p) /\ submitted \in Seq(Payload) /\ p \in Payload
  BY WorkloadPayloads DEF submit, TypeOK, QueuesOK
<1>2. Len(submitted) + 1 \in DOMAIN submitted' /\ submitted'[Len(submitted) + 1] = p
  BY <1>1
<1> QED BY <1>2 DEF Cast

\* Queues that only shrink, and one node's that changes.
LEMMA QueuedStep ==
    ASSUME TypeOK, QueuedWereSubmitted, NEW n \in Nodes, Acts(n)
    PROVE  QueuedWereSubmitted'
<1> DEFINE Same(m) == /\ pending_circuit_payloads'[m] = pending_circuit_payloads[m]
                      /\ unpeered_payloads'[m] = unpeered_payloads[m]
           Known(m) == /\ \A i \in DOMAIN pending_circuit_payloads'[m] :
                             pending_circuit_payloads'[m][i] \in Cast'
                       /\ \A i \in DOMAIN unpeered_payloads'[m] : unpeered_payloads'[m][i][2] \in Cast'
<1>1. Cast \subseteq Cast'
  BY CastGrows
<1>2. ASSUME NEW m, m \in Nodes, Same(m) PROVE Known(m)
  BY <1>1, <1>2 DEF QueuedWereSubmitted
<1>3. \A m \in Nodes : Known(m)
  <2>1. ASSUME NEW p \in Payloads, submit(n, p), NEW m \in Nodes PROVE Known(m)
    <3>1. p \in Cast' /\ p \in Payload
      BY <2>1, SubmittedIsCast, WorkloadPayloads DEF TypeOK
    <3>2. CASE m # n
      <4>1. Same(m)
        BY <2>1, <3>2 DEF submit, Queue, TypeOK, PeeringOK, QueuesOK
      <4> QED BY <1>2, <4>1
    <3>3. CASE m = n /\ Queue(n, <<p>>) /\ UNCHANGED unpeered_payloads
      <4> DEFINE q == pending_circuit_payloads[n]
                 one == <<p>>
                 all == q \o one
      <4>1. q \in Seq(Payload) /\ one \in Seq(Payload)
        BY <3>1 DEF TypeOK, QueuesOK
      <4>2. \A j \in DOMAIN all : (j \in DOMAIN q /\ all[j] = q[j]) \/ \E k \in DOMAIN one : all[j] = one[k]
        <5> HIDE DEF q, one
        <5> QED BY <4>1, ConcatElements
      <4>3. \A k \in DOMAIN one : one[k] = p
        OBVIOUS
      <4>4. pending_circuit_payloads'[n] = all
        BY <3>3 DEF Queue, TypeOK, QueuesOK
      <4>5. \A j \in DOMAIN q : q[j] \in Cast
        BY DEF QueuedWereSubmitted
      <4> HIDE DEF all, one, q
      <4>6. \A j \in DOMAIN pending_circuit_payloads'[n] : pending_circuit_payloads'[n][j] \in Cast'
        BY <1>1, <3>1, <4>2, <4>3, <4>4, <4>5
      <4> QED BY <1>1, <3>3, <4>6 DEF QueuedWereSubmitted
    <3>4. CASE /\ m = n /\ UNCHANGED pending_circuit_payloads
               /\ \E peers : unpeered_payloads' = [unpeered_payloads EXCEPT ![n] = Append(@, <<peers, p>>)]
      <4> DEFINE w == unpeered_payloads[n]
                 S == (SUBSET Nodes) \X Payload
      <4>1. PICK peers : unpeered_payloads' = [unpeered_payloads EXCEPT ![n] = Append(@, <<peers, p>>)]
        BY Zenon, <3>4
      <4>2. w \in Seq(S) /\ unpeered_payloads'[n] = Append(w, <<peers, p>>)
        BY <4>1 DEF TypeOK, PeeringOK
      <4>3. \A j \in DOMAIN Append(w, <<peers, p>>) : \/ j \in DOMAIN w /\ Append(w, <<peers, p>>)[j] = w[j]
                                                      \/ Append(w, <<peers, p>>)[j] = <<peers, p>>
        <5> HIDE DEF S, w
        <5> QED BY <4>2
      <4>4. \A j \in DOMAIN unpeered_payloads'[n] : unpeered_payloads'[n][j][2] \in Cast'
        <5>1. \A j \in DOMAIN w : w[j][2] \in Cast
          BY DEF QueuedWereSubmitted
        <5> HIDE DEF w
        <5> QED BY <1>1, <3>1, <4>2, <4>3, <5>1
      <4> QED BY <1>1, <3>4, <4>4 DEF QueuedWereSubmitted
    <3> QED BY Zenon, <2>1, <3>2, <3>3, <3>4 DEF submit
  <2>2. ASSUME NEW peer \in Nodes, PeerAuthorized(n, peer), NEW m \in Nodes PROVE Known(m)
    <3>1. CASE m # n
      <4>1. \A k \in Nodes \ {n} : Same(k)
        BY ZenonT(60), <2>2, AuthorizedStep DEF TypeOK
      <4>2. Same(m)
        BY Zenon, <3>1, <4>1
      <4> QED BY <1>2, <4>2
    <3>2. CASE m = n
      <4>1. \A j \in DOMAIN unpeered_payloads'[n] : \E i \in DOMAIN unpeered_payloads[n] :
               /\ unpeered_payloads'[n][j][1] = unpeered_payloads[n][i][1] \ {peer}
               /\ unpeered_payloads'[n][j][2] = unpeered_payloads[n][i][2]
        BY ZenonT(60), <2>2, AuthorizedStep DEF TypeOK
      <4>2. \A j \in DOMAIN pending_circuit_payloads'[n] :
               \/ /\ j \in DOMAIN pending_circuit_payloads[n]
                  /\ pending_circuit_payloads'[n][j] = pending_circuit_payloads[n][j]
               \/ \E i \in DOMAIN unpeered_payloads[n] :
                     /\ pending_circuit_payloads'[n][j] = unpeered_payloads[n][i][2]
                     /\ unpeered_payloads[n][i][1] \subseteq {peer}
        BY ZenonT(30), <2>2, AuthorizedStep DEF TypeOK
      <4> QED BY <1>1, <3>2, <4>1, <4>2 DEF QueuedWereSubmitted
    <3> QED BY <3>1, <3>2
  <2>3. ASSUME NEW peer \in Nodes, PeerRefused(n, peer), NEW m \in Nodes PROVE Known(m)
    <3>1. UNCHANGED pending_circuit_payloads
      BY Zenon, <2>3 DEF PeerRefused
    <3>2. CASE m # n
      <4>1. Same(m)
        BY <2>3, <3>1, <3>2, RefusedStep DEF TypeOK
      <4> QED BY <1>2, <4>1
    <3>3. CASE m = n
      <4>1. \A j \in DOMAIN unpeered_payloads'[n] : \E i \in DOMAIN unpeered_payloads[n] :
               unpeered_payloads'[n][j] = unpeered_payloads[n][i]
        BY <2>3, RefusedStep DEF TypeOK
      <4> QED BY <1>1, <3>1, <3>3, <4>1 DEF QueuedWereSubmitted
    <3> QED BY <3>2, <3>3
  <2>4. ASSUME create_proposal(n), NEW m \in Nodes PROVE Known(m)
    <3>1. pending_circuit_payloads[n] \in Seq(Payload) /\ pending_circuit_payloads[n] # <<>>
      BY ZenonT(60), <2>4 DEF create_proposal, TypeOK, QueuesOK
    <3>2. pending_circuit_payloads' = [pending_circuit_payloads EXCEPT ![n] = Tail(pending_circuit_payloads[n])]
          /\ UNCHANGED unpeered_payloads
      BY <2>4 DEF create_proposal, peering
    <3>3. CASE m # n
      <4>1. Same(m)
        BY <3>2, <3>3 DEF TypeOK, QueuesOK
      <4> QED BY <1>2, <4>1
    <3>4. CASE m = n
      <4>1. pending_circuit_payloads'[n] = Tail(pending_circuit_payloads[n])
        BY <3>2 DEF TypeOK, QueuesOK
      <4>2. \A i \in DOMAIN Tail(pending_circuit_payloads[n]) :
               /\ i + 1 \in DOMAIN pending_circuit_payloads[n]
               /\ Tail(pending_circuit_payloads[n])[i] = pending_circuit_payloads[n][i + 1]
        BY <3>1
      <4>3. \A i \in DOMAIN pending_circuit_payloads'[n] : pending_circuit_payloads'[n][i] \in Cast
        BY <4>1, <4>2 DEF QueuedWereSubmitted
      <4> QED BY <1>1, <3>2, <3>4, <4>3 DEF QueuedWereSubmitted
    <3> QED BY <3>3, <3>4
  <2>5. ASSUME Restart(n), NEW m \in Nodes PROVE Known(m)
    <3>1. CASE m # n
      <4>1. Same(m)
        BY Zenon, <2>5, <3>1 DEF Restart, TypeOK, PeeringOK, QueuesOK
      <4> QED BY <1>2, <4>1
    <3>2. CASE m = n
      <4>1. pending_circuit_payloads'[n] = <<>> /\ unpeered_payloads'[n] = <<>>
        BY Zenon, <2>5 DEF Restart, TypeOK, PeeringOK, QueuesOK
      <4> QED BY <3>2, <4>1
    <3> QED BY <3>1, <3>2
  <2>6. ASSUME UNCHANGED <<pending_circuit_payloads, unpeered_payloads>>, NEW m \in Nodes PROVE Known(m)
    BY <1>2, <2>6
  <2> HIDE DEF Known, Same
  <2> QED BY Zenon, <2>1, <2>2, <2>3, <2>4, <2>5, <2>6
          DEF Acts, PeerLost, HandleProposedCircuit, HandleMemberReady, Coordinate, Evaluate, Accept, Abort, HandleOrder, peering
<1>4. \A m \in Nodes : backlog'[m] \subseteq Cast' /\ \A q \in proposed'[m] : q[1] \in Cast'
  <2>1. CASE create_proposal(n)
    <3> DEFINE p == Head(pending_circuit_payloads[n])
               q == <<p, Proposed(n, p)>>
    <3>1. p \in Cast
      <4>1. pending_circuit_payloads[n] \in Seq(Payload) /\ pending_circuit_payloads[n] # <<>>
        BY Zenon, <2>1 DEF create_proposal, TypeOK, QueuesOK
      <4>2. p = pending_circuit_payloads[n][1] /\ 1 \in DOMAIN pending_circuit_payloads[n]
        BY <4>1
      <4> QED BY <4>2 DEF QueuedWereSubmitted
    <3>2. \/ UNCHANGED <<backlog, proposed>>
          \/ /\ backlog' = [backlog EXCEPT ![n] = @ \cup {p}]
             /\ proposed' = [m \in Nodes |-> IF m \in Members[p.circuit] \ {n}
                                             THEN proposed[m] \cup {q} ELSE proposed[m]]
      BY Zenon, <2>1 DEF create_proposal
    <3>3. q[1] = p
      OBVIOUS
    <3> HIDE DEF p, q
    <3>4. \A m \in Nodes : backlog'[m] \subseteq backlog[m] \cup {p}
      BY <3>2 DEF TypeOK, EngineOK
    <3>5. \A m \in Nodes : proposed'[m] \subseteq proposed[m] \cup {q}
      BY Zenon, <3>2 DEF TypeOK, QueuesOK
    <3>6. \A m \in Nodes : backlog[m] \subseteq Cast' /\ \A r \in proposed[m] : r[1] \in Cast'
      BY <1>1 DEF QueuedWereSubmitted
    <3>7. \A m \in Nodes : backlog'[m] \subseteq Cast'
      BY <1>1, <3>1, <3>4, <3>6
    <3>8. \A m \in Nodes : \A r \in proposed'[m] : r[1] \in Cast'
      BY <1>1, <3>1, <3>3, <3>5, <3>6
    <3> QED BY <3>7, <3>8
  <2>2. ASSUME NEW q \in proposed[n], HandleProposedCircuit(n, q) PROVE <1>4!:
    <3>1. q[1] \in Cast
      BY DEF QueuedWereSubmitted
    <3>2. /\ backlog' = [backlog EXCEPT ![n] = @ \cup {q[1]}]
          /\ proposed' = [proposed EXCEPT ![n] = @ \ {q}]
      BY Zenon, <2>2 DEF HandleProposedCircuit
    <3>3. \A m \in Nodes : backlog'[m] \subseteq backlog[m] \cup {q[1]} /\ proposed'[m] \subseteq proposed[m]
      BY <3>2 DEF TypeOK, EngineOK, QueuesOK
    <3>4. \A m \in Nodes : backlog[m] \subseteq Cast' /\ \A r \in proposed[m] : r[1] \in Cast'
      BY Zenon, <1>1 DEF QueuedWereSubmitted
    <3> QED BY <1>1, <3>1, <3>3, <3>4
  <2>3. ASSUME NEW p \in Payloads, Coordinate(n, p) \/ Evaluate(n, p) PROVE <1>4!:
    BY ZenonT(60), <1>1, <2>3 DEF Coordinate, Evaluate, QueuedWereSubmitted, TypeOK, EngineOK
  <2>4. CASE Restart(n)
    BY Zenon, <1>1, <2>4 DEF Restart, QueuedWereSubmitted, TypeOK, EngineOK, QueuesOK
  <2>5. CASE UNCHANGED <<backlog, proposed>>
    BY Zenon, <1>1, <2>5 DEF QueuedWereSubmitted
  <2>6. ASSUME NEW peer \in Nodes, PeerLost(n, peer) PROVE <1>4!:
    <3>1. backlog' = backlog /\ \A m \in Nodes : proposed'[m] \subseteq proposed[m]
      BY Zenon, <2>6, LostStep DEF TypeOK
    <3> QED BY Zenon, <1>1, <3>1 DEF QueuedWereSubmitted
  <2> QED BY Zenon, <2>1, <2>2, <2>3, <2>4, <2>5, <2>6
          DEF Acts, submit, PeerAuthorized, PeerRefused, HandleMemberReady, Accept, Abort, HandleOrder, engine
<1> QED BY <1>3, <1>4 DEF QueuedWereSubmitted

\* A payload that waits, waits for the members that have not been peers since, and so each
\* has been one when it is released.
LEMMA PeersStep ==
    ASSUME TypeOK, WaitingForStrangers, ProposedAmongPeers, NEW n \in Nodes, Acts(n)
    PROVE  WaitingForStrangers' /\ ProposedAmongPeers'
<1> DEFINE Waits(m) == \A i \in DOMAIN unpeered_payloads'[m] :
                          \A x \in Members[unpeered_payloads'[m][i][2].circuit] \ {m} :
                              <<unpeered_payloads'[m][i][2], x>> \in met'[m] \/ x \in unpeered_payloads'[m][i][1]
           Among(m) == \A i \in DOMAIN pending_circuit_payloads'[m] :
                          pending_circuit_payloads'[m][i].action = "create" =>
                              \A x \in Members[pending_circuit_payloads'[m][i].circuit] \ {m} :
                                  <<pending_circuit_payloads'[m][i], x>> \in met'[m]
           Same(m) == /\ pending_circuit_payloads'[m] = pending_circuit_payloads[m]
                      /\ unpeered_payloads'[m] = unpeered_payloads[m]
                      /\ met'[m] = met[m]
<1>1. ASSUME NEW m, m \in Nodes, Same(m) PROVE Waits(m) /\ Among(m)
  BY Zenon, <1>1 DEF WaitingForStrangers, ProposedAmongPeers
<1>2. ASSUME NEW p \in Payloads, submit(n, p), NEW m \in Nodes PROVE Waits(m) /\ Among(m)
  <2> DEFINE unauthorized == {x \in Members[p.circuit] : x # n /\ x \notin authorized[n]}
  <2>0. p \in Payload /\ met' = [met EXCEPT ![n] = @ \cup ({p} \X authorized[n])]
    BY Zenon, <1>2, WorkloadPayloads DEF submit, TypeOK
  <2>1. /\ met[n] \subseteq met'[n] /\ \A x \in authorized[n] : <<p, x>> \in met'[n]
        /\ \A k \in Nodes \ {n} : met'[k] = met[k]
    BY <2>0 DEF TypeOK, PeeringOK
  <2>2. CASE m # n
    <3>1. Same(m)
      BY Zenon, <1>2, <2>1, <2>2 DEF submit, Queue, TypeOK, PeeringOK, QueuesOK
    <3> QED BY ZenonT(60), <1>1, <3>1
  <2>3. CASE m = n /\ Queue(n, <<p>>) /\ UNCHANGED unpeered_payloads /\ (p.action = "vote" \/ unauthorized = {})
    <3> DEFINE q == pending_circuit_payloads[n]
               one == <<p>>
               all == q \o one
    <3>1. q \in Seq(Payload) /\ one \in Seq(Payload)
      BY <2>0 DEF TypeOK, QueuesOK
    <3>2. \A j \in DOMAIN all : (j \in DOMAIN q /\ all[j] = q[j]) \/ \E k \in DOMAIN one : all[j] = one[k]
      <4> HIDE DEF q, one
      <4> QED BY <3>1, ConcatElements
    <3>3. \A k \in DOMAIN one : one[k] = p
      OBVIOUS
    <3>4. pending_circuit_payloads'[n] = all
      BY Zenon, <2>3 DEF Queue, TypeOK, QueuesOK
    <3>5. p.action = "create" => \A x \in Members[p.circuit] \ {n} : <<p, x>> \in met'[n]
      BY <2>1, <2>3
    <3>6. \A j \in DOMAIN q : q[j].action = "create" =>
             \A x \in Members[q[j].circuit] \ {n} : <<q[j], x>> \in met'[n]
      BY Zenon, <2>1 DEF ProposedAmongPeers
    <3> HIDE DEF all, one, q, unauthorized
    <3>7. Among(n)
      BY ZenonT(60), <3>2, <3>3, <3>4, <3>5, <3>6
    <3>8. Waits(n)
      BY Zenon, <2>1, <2>3 DEF WaitingForStrangers
    <3> QED BY Zenon, <2>3, <3>7, <3>8
  <2>4. CASE /\ m = n /\ UNCHANGED pending_circuit_payloads
             /\ unpeered_payloads' = [unpeered_payloads EXCEPT ![n] = Append(@, <<unauthorized, p>>)]
    <3> DEFINE w == unpeered_payloads[n]
               S == (SUBSET Nodes) \X Payload
               e == <<unauthorized, p>>
    <3>1. w \in Seq(S) /\ unpeered_payloads'[n] = Append(w, e)
      BY <2>4 DEF TypeOK, PeeringOK
    <3>2. e[1] = unauthorized /\ e[2] = p
      OBVIOUS
    <3>3. \A j \in DOMAIN Append(w, e) : (j \in DOMAIN w /\ Append(w, e)[j] = w[j]) \/ Append(w, e)[j] = e
      <4> HIDE DEF S, w, e
      <4> QED BY <3>1
    <3>4. \A x \in Members[p.circuit] \ {n} : <<p, x>> \in met'[n] \/ x \in unauthorized
      BY <2>1
    <3>5. \A j \in DOMAIN w : \A x \in Members[w[j][2].circuit] \ {n} :
             <<w[j][2], x>> \in met'[n] \/ x \in w[j][1]
      BY Zenon, <2>1 DEF WaitingForStrangers
    <3> HIDE DEF w, e, unauthorized
    <3>6. Waits(n)
      BY ZenonT(60), <3>1, <3>2, <3>3, <3>4, <3>5
    <3>7. Among(n)
      BY Zenon, <2>1, <2>4 DEF ProposedAmongPeers
    <3> QED BY <2>4, <3>6, <3>7
  <2> QED BY Zenon, <1>2, <2>2, <2>3, <2>4 DEF submit
<1>3. ASSUME NEW peer \in Nodes, PeerAuthorized(n, peer), NEW m \in Nodes PROVE Waits(m) /\ Among(m)
  <2>0. PeeringOK /\ QueuesOK
    BY DEF TypeOK
  <2>1. CASE m # n
    <3>1. \A k \in Nodes \ {n} : Same(k)
      BY ZenonT(60), <1>3, <2>0, AuthorizedStep
    <3>2. Same(m)
      BY Zenon, <2>1, <3>1
    <3> QED BY Zenon, <1>1, <3>2
  <2>2. CASE m = n
    <3>1. /\ met[n] \subseteq met'[n]
          /\ \A i \in DOMAIN unpeered_payloads[n] : <<unpeered_payloads[n][i][2], peer>> \in met'[n]
      BY Zenon, <1>3, <2>0, AuthorizedStep
    <3>2. \A j \in DOMAIN unpeered_payloads'[n] : \E i \in DOMAIN unpeered_payloads[n] :
             /\ unpeered_payloads'[n][j][1] = unpeered_payloads[n][i][1] \ {peer}
             /\ unpeered_payloads'[n][j][2] = unpeered_payloads[n][i][2]
      BY ZenonT(60), <1>3, <2>0, AuthorizedStep
    <3>3. \A j \in DOMAIN pending_circuit_payloads'[n] :
             \/ /\ j \in DOMAIN pending_circuit_payloads[n]
                /\ pending_circuit_payloads'[n][j] = pending_circuit_payloads[n][j]
             \/ \E i \in DOMAIN unpeered_payloads[n] :
                   /\ pending_circuit_payloads'[n][j] = unpeered_payloads[n][i][2]
                   /\ unpeered_payloads[n][i][1] \subseteq {peer}
      BY Zenon, <1>3, <2>0, AuthorizedStep
    <3>4. Waits(n)
      BY <3>1, <3>2 DEF WaitingForStrangers
    <3>5. Among(n)
      <4> SUFFICES ASSUME NEW j \in DOMAIN pending_circuit_payloads'[n],
                          pending_circuit_payloads'[n][j].action = "create"
                   PROVE  \A x \in Members[pending_circuit_payloads'[n][j].circuit] \ {n} :
                              <<pending_circuit_payloads'[n][j], x>> \in met'[n]
        BY Zenon
      <4>1. CASE /\ j \in DOMAIN pending_circuit_payloads[n]
                 /\ pending_circuit_payloads'[n][j] = pending_circuit_payloads[n][j]
        BY Zenon, <3>1, <4>1 DEF ProposedAmongPeers
      <4>2. ASSUME NEW i \in DOMAIN unpeered_payloads[n],
                   pending_circuit_payloads'[n][j] = unpeered_payloads[n][i][2],
                   unpeered_payloads[n][i][1] \subseteq {peer}
            PROVE  \A x \in Members[pending_circuit_payloads'[n][j].circuit] \ {n} :
                       <<pending_circuit_payloads'[n][j], x>> \in met'[n]
        <5> SUFFICES ASSUME NEW x \in Members[unpeered_payloads[n][i][2].circuit] \ {n}
                     PROVE  <<unpeered_payloads[n][i][2], x>> \in met'[n]
          BY Zenon, <4>2
        <5>1. <<unpeered_payloads[n][i][2], x>> \in met[n] \/ x = peer
          BY Zenon, <4>2 DEF WaitingForStrangers
        <5> QED BY Zenon, <3>1, <5>1
      <4> QED BY <3>3, <4>1, <4>2
    <3> QED BY <2>2, <3>4, <3>5
  <2> QED BY Zenon, <2>1, <2>2
<1>4. ASSUME NEW peer \in Nodes, PeerRefused(n, peer), NEW m \in Nodes PROVE Waits(m) /\ Among(m)
  <2>0. PeeringOK /\ UNCHANGED <<pending_circuit_payloads, met>>
    BY <1>4 DEF TypeOK, PeerRefused
  <2>1. CASE m # n
    <3>1. Same(m)
      BY <1>4, <2>0, <2>1, RefusedStep
    <3> QED BY Zenon, <1>1, <3>1
  <2>2. CASE m = n
    <3>1. \A j \in DOMAIN unpeered_payloads'[n] : \E i \in DOMAIN unpeered_payloads[n] :
             unpeered_payloads'[n][j] = unpeered_payloads[n][i]
      BY <1>4, <2>0, RefusedStep
    <3>2. Waits(n)
      BY <2>0, <3>1 DEF WaitingForStrangers
    <3>3. Among(n)
      BY ZenonT(60), <2>0 DEF ProposedAmongPeers
    <3> QED BY <2>2, <3>2, <3>3
  <2> QED BY <2>1, <2>2
<1>5. ASSUME create_proposal(n), NEW m \in Nodes PROVE Waits(m) /\ Among(m)
  <2>1. /\ pending_circuit_payloads' = [pending_circuit_payloads EXCEPT ![n] = Tail(pending_circuit_payloads[n])]
        /\ pending_circuit_payloads[n] \in Seq(Payload) /\ pending_circuit_payloads[n] # <<>>
        /\ UNCHANGED <<met, unpeered_payloads>>
    BY ZenonT(60), <1>5 DEF create_proposal, peering, TypeOK, QueuesOK
  <2>2. CASE m # n
    <3>1. Same(m)
      BY ZenonT(60), <2>1, <2>2 DEF TypeOK, QueuesOK
    <3> QED BY <1>1, <3>1
  <2>3. CASE m = n
    <3>1. pending_circuit_payloads'[n] = Tail(pending_circuit_payloads[n])
      BY <2>1 DEF TypeOK, QueuesOK
    <3>2. \A i \in DOMAIN Tail(pending_circuit_payloads[n]) :
             /\ i + 1 \in DOMAIN pending_circuit_payloads[n]
             /\ Tail(pending_circuit_payloads[n])[i] = pending_circuit_payloads[n][i + 1]
      BY <2>1
    <3>3. Among(n)
      BY <2>1, <3>1, <3>2 DEF ProposedAmongPeers
    <3>4. Waits(n)
      BY <2>1 DEF WaitingForStrangers
    <3> QED BY <2>3, <3>3, <3>4
  <2> QED BY <2>2, <2>3
<1>6. ASSUME Restart(n), NEW m \in Nodes PROVE Waits(m) /\ Among(m)
  <2>1. CASE m # n
    <3>1. Same(m)
      BY Zenon, <1>6, <2>1 DEF Restart, TypeOK, PeeringOK, QueuesOK
    <3> QED BY <1>1, <3>1
  <2>2. CASE m = n
    <3>1. pending_circuit_payloads'[n] = <<>> /\ unpeered_payloads'[n] = <<>>
      BY Zenon, <1>6 DEF Restart, TypeOK, PeeringOK, QueuesOK
    <3> QED BY <2>2, <3>1
  <2> QED BY <2>1, <2>2
<1>7. ASSUME UNCHANGED <<pending_circuit_payloads, met, unpeered_payloads>>, NEW m \in Nodes PROVE Waits(m) /\ Among(m)
  <2>1. Same(m)
    BY <1>7
  <2> QED BY <1>1, <2>1
<1>8. \A m \in Nodes : Waits(m) /\ Among(m)
  <2> HIDE DEF Waits, Among, Same
  <2> QED BY Zenon, <1>2, <1>3, <1>4, <1>5, <1>6, <1>7
          DEF Acts, PeerLost, HandleProposedCircuit, HandleMemberReady, Coordinate, Evaluate, Accept, Abort,
              HandleOrder, peering
<1> QED BY Zenon, <1>8 DEF WaitingForStrangers, ProposedAmongPeers

\* More payloads back what fewer did.
LEMMA BackedGrows ==
    ASSUME NEW C, NEW D, C \subseteq D, NEW proposal, Backed(proposal, C)
    PROVE  Backed(proposal, D)
  BY Zenon DEF Backed

\* A circuit that was voted for stays so as more payloads are cast.
LEMMA VotedForGrows ==
    ASSUME Cast \subseteq Cast', NEW d, VotedFor(d)
    PROVE  VotedFor(d)'
  BY DEF VotedFor

\* What check_approved accepts was voted for by every member but the requester.
LEMMA ApprovedVotedFor ==
    ASSUME NEW proposal \in CircuitProposal, Backed(proposal, Cast), check_approved(proposal) = "Accepted"
    PROVE  VotedFor(proposal.circuit)
<1> DEFINE d == proposal.circuit
           votes == {proposal.votes[i] : i \in DOMAIN proposal.votes}
<1>1. PICK c \in Cast : c.action = "create" /\ c.circuit = d /\ c.requester = proposal.requester
  BY Zenon DEF Backed
<1>2. (\A v \in votes : v.vote # "REJECT") /\ {v.node : v \in votes} = Members[d] \ {proposal.requester}
  BY DEF check_approved
<1>3. ASSUME NEW m \in Members[d] \ {c.requester}
      PROVE  [action |-> "vote", circuit |-> d, requester |-> m, vote |-> "ACCEPT"] \in Cast
  <2>1. PICK i \in DOMAIN proposal.votes : proposal.votes[i].node = m /\ proposal.votes[i] \in votes
    BY <1>1, <1>2
  <2>2. proposal.votes[i] \in Ballot
    BY DEF CircuitProposal
  <2>3. proposal.votes[i].vote = "ACCEPT"
    BY <1>2, <2>1, <2>2 DEF Ballot
  <2> QED BY Zenon, <2>1, <2>3 DEF Backed
<1> QED BY <1>1, <1>3 DEF VotedFor

\* A valid payload that was submitted leads to a proposal that is backed.
LEMMA ProposedBacked ==
    ASSUME StoredOK, StoredWereVotedFor, NEW n \in Nodes, NEW p \in Payload, p \in Cast, Valid(n, p)
    PROVE  Backed(Proposed(n, p), Cast)
<1> DEFINE open == open_proposals[n][Id[p.circuit]]
           new == Proposed(n, p)
<1> SUFFICES Backed(new, Cast)
  OBVIOUS
<1>1. CASE p.action = "create" /\ new.votes = <<>> /\ new.requester = p.requester
  <2>1. new.circuit = p.circuit
    BY ZenonT(60), ValidLeads
  <2> HIDE DEF new
  <2> QED BY <1>1, <2>1 DEF Backed
<1>2. CASE /\ p.action = "vote" /\ open # None /\ open \in CircuitProposal /\ open.circuit = p.circuit
           /\ new.requester = open.requester
           /\ new.votes = Append(open.votes, [node |-> p.requester, vote |-> p.vote])
  <2>1. new.circuit = p.circuit
    BY Zenon, ValidLeads
  <2>2. Backed(open, Cast)
    BY Zenon, <1>2, PayloadFields DEF StoredWereVotedFor
  <2>3. p = [action |-> "vote", circuit |-> p.circuit, requester |-> p.requester, vote |-> p.vote]
    BY Zenon, <1>2 DEF Payload
  <2> DEFINE ballot == [node |-> p.requester, vote |-> p.vote]
  <2>4. ballot.node = p.requester /\ ballot.vote = p.vote
    OBVIOUS
  <2>5. open.votes \in Seq(Ballot)
    BY Zenon, <1>2 DEF CircuitProposal
  <2>6. new.votes = Append(open.votes, ballot)
    BY Zenon, <1>2
  <2> HIDE DEF new, open, ballot
  <2>7. \A i \in DOMAIN new.votes : (i \in DOMAIN open.votes /\ new.votes[i] = open.votes[i]) \/ new.votes[i] = ballot
    BY <2>5, <2>6
  <2>8. \A i \in DOMAIN new.votes :
           [action |-> "vote", circuit |-> new.circuit, requester |-> new.votes[i].node,
            vote |-> new.votes[i].vote] \in Cast
    BY Zenon, <1>2, <2>1, <2>2, <2>3, <2>4, <2>7 DEF Backed
  <2>9. \E c \in Cast : c.action = "create" /\ c.circuit = new.circuit /\ c.requester = new.requester
    BY Zenon, <1>2, <2>1, <2>2 DEF Backed
  <2> QED BY <2>8, <2>9 DEF Backed
<1> QED BY Zenon, <1>1, <1>2, ValidLeads

\* What the change at hand becomes when a payload is proposed.
LEMMA ProposesChange ==
    ASSUME TypeOK, NEW n \in Nodes, NEW p, Proposes(n, p)
    PROVE  /\ \A m \in Nodes \ {n} : pending_changes'[m] = pending_changes[m]
           /\ pending_changes'[n] # None => pending_changes'[n].proposal = Proposed(n, p)
           /\ current_consensus_verifiers' = [current_consensus_verifiers EXCEPT ![n] = Members[p.circuit]]
<1>1. /\ pending_changes' = [pending_changes EXCEPT ![n] = [proposal |-> Proposed(n, p), action |-> p.action]]
      /\ current_consensus_verifiers' = [current_consensus_verifiers EXCEPT ![n] = Members[p.circuit]]
  BY DEF Proposes, Propose
<1> QED BY Zenon, <1>1 DEF TypeOK, ChangeOK

\* Nothing is stored that was not voted for.
LEMMA StoredStep ==
    ASSUME TypeOK, QueuedWereSubmitted, StoredWereVotedFor, NEW n \in Nodes, Acts(n)
    PROVE  StoredWereVotedFor'
<1> DEFINE Open(m) == \A id \in Ids : /\ open_proposals'[m][id] # None => Backed(open_proposals'[m][id], Cast')
                                      /\ disk'[m].open[id] # None => Backed(disk'[m].open[id], Cast')
           Change(m) == pending_changes'[m] # None => Backed(pending_changes'[m].proposal, Cast')
           Circuits(m) == \A d \in circuits'[m] \cup disk'[m].circuits : VotedFor(d)'
<1>1. Cast \subseteq Cast'
  BY Zenon, CastGrows
<1>2. ASSUME NEW m \in Nodes, open_proposals'[m] = open_proposals[m], disk'[m] = disk[m],
             circuits'[m] = circuits[m]
      PROVE  Open(m) /\ Circuits(m)
  <2>1. Open(m)
    BY ZenonT(60), <1>1, <1>2, BackedGrows DEF StoredWereVotedFor
  <2>2. Circuits(m)
    BY <1>1, <1>2, VotedForGrows DEF StoredWereVotedFor
  <2> QED BY <2>1, <2>2
<1>3. ASSUME NEW m \in Nodes, pending_changes'[m] = pending_changes[m] PROVE Change(m)
  BY Zenon, <1>1, <1>3, BackedGrows DEF StoredWereVotedFor
<1>4. ASSUME NEW m \in Nodes, pending_changes'[m] = None PROVE Change(m)
  BY <1>4
<1>5. ASSUME UNCHANGED <<stored, change, evaluating>>, NEW m \in Nodes PROVE Open(m) /\ Change(m) /\ Circuits(m)
  BY Zenon, <1>2, <1>3, <1>5 DEF stored, change
<1>6. ASSUME NEW p, Proposes(n, p), NEW m \in Nodes PROVE Open(m) /\ Change(m) /\ Circuits(m)
  <2>1. Open(m) /\ Circuits(m)
    BY Zenon, <1>2, <1>6 DEF Proposes, stored
  <2>2. CASE m = n
    <3>1. p \in Payload /\ p \in Cast /\ Valid(n, p)
      BY Zenon, <1>6 DEF Proposes, Propose
    <3>2. Backed(Proposed(n, p), Cast)
      BY <3>1, ProposedBacked DEF TypeOK
    <3>3. Backed(Proposed(n, p), Cast')
      BY <1>1, <3>2, BackedGrows
    <3> QED BY ZenonT(30), <1>6, <2>1, <2>2, <3>3, ProposesChange
  <2>3. CASE m # n
    BY ZenonT(60), <1>3, <1>6, <2>1, <2>3, ProposesChange
  <2> QED BY Zenon, <2>2, <2>3
<1>7. ASSUME Drops(n), NEW m \in Nodes PROVE Open(m) /\ Change(m) /\ Circuits(m)
  <2>1. pending_changes'[m] = pending_changes[m] \/ pending_changes'[m] = None
    BY <1>7 DEF Drops, TypeOK, ChangeOK
  <2> QED BY Zenon, <1>2, <1>3, <1>4, <1>7, <2>1 DEF Drops, stored
<1>8. ASSUME Commits(n), NEW m \in Nodes PROVE Open(m) /\ Change(m) /\ Circuits(m)
  <2> DEFINE proposal == pending_changes[n].proposal
             d == proposal.circuit
  <2>1. CommittedAt(n, proposal, d) /\ pending_changes[n] # None
    BY <1>8, CommittedPlaces DEF Commits, Committed, TypeOK
  <2>2. pending_changes'[m] = IF m = n THEN None ELSE pending_changes[m]
    BY <1>8 DEF Commits, TypeOK, ChangeOK
  <2>3. Change(m)
    BY <1>3, <1>4, <2>2
  <2>4. CASE m # n
    BY Zenon, <1>2, <2>1, <2>3, <2>4 DEF CommittedAt
  <2>5. CASE m = n
    <3>1. Backed(proposal, Cast) /\ proposal \in CircuitProposal
      BY Zenon, <2>1 DEF StoredWereVotedFor, CommittedAt
    <3>2. check_approved(proposal) = "Accepted" => VotedFor(d)
      BY <3>1, ApprovedVotedFor
    <3> HIDE DEF proposal, d
    <3>3. \A id \in Ids : open_proposals'[n][id] # None => Backed(open_proposals'[n][id], Cast')
      BY ZenonT(30), <1>1, <2>1, <3>1, BackedGrows DEF StoredWereVotedFor, CommittedAt
    <3>4. \A id \in Ids : disk[n].open[id] # None => Backed(disk[n].open[id], Cast')
      BY Zenon, <1>1, BackedGrows DEF StoredWereVotedFor
    <3>5. Open(n)
      BY Zenon, <2>1, <3>3, <3>4 DEF CommittedAt
    <3>6. \A c \in circuits'[n] : VotedFor(c)
      BY Zenon, <2>1, <3>2 DEF CommittedAt, StoredWereVotedFor
    <3>7. \A c \in disk'[n].circuits : VotedFor(c)
      BY ZenonT(30), <2>1, <3>6 DEF CommittedAt, StoredWereVotedFor
    <3>8. Circuits(n)
      BY ZenonT(30), <1>1, <3>6, <3>7, VotedForGrows
    <3> QED BY <2>3, <2>5, <3>5, <3>8
  <2> QED BY Zenon, <2>4, <2>5
<1>9. ASSUME Restart(n), NEW m \in Nodes PROVE Open(m) /\ Change(m) /\ Circuits(m)
  <2>1. /\ open_proposals' = [open_proposals EXCEPT ![n] = disk[n].open]
        /\ circuits' = [circuits EXCEPT ![n] = disk[n].circuits]
        /\ pending_changes' = [pending_changes EXCEPT ![n] = None]
        /\ disk' = disk
    BY Zenon, <1>9 DEF Restart
  <2>2. CASE m # n
    BY Zenon, <1>2, <1>3, <2>1, <2>2 DEF TypeOK, StoredOK, ChangeOK
  <2>3. CASE m = n
    <3>1. open_proposals'[n] = disk[n].open /\ circuits'[n] = disk[n].circuits /\ pending_changes'[n] = None
      BY <2>1 DEF TypeOK, StoredOK, ChangeOK
    <3>2. Open(n)
      BY Zenon, <1>1, <2>1, <3>1, BackedGrows DEF StoredWereVotedFor
    <3>3. Circuits(n)
      BY Zenon, <1>1, <2>1, <3>1, VotedForGrows DEF StoredWereVotedFor
    <3> QED BY Zenon, <2>3, <3>1, <3>2, <3>3
  <2> QED BY Zenon, <2>2, <2>3
<1>10. \A m \in Nodes : Open(m) /\ Change(m) /\ Circuits(m)
  <2> HIDE DEF Open, Change, Circuits
  <2> QED BY <1>5, <1>6, <1>7, <1>8, <1>9, Effects
<1> QED BY Zenon, <1>10 DEF StoredWereVotedFor

\* The verifiers change only with the change at hand, when nothing is evaluated.
LEMMA VerifiersStep ==
    ASSUME TypeOK, QueuedWereSubmitted, VerifiersAreMembers, NEW n \in Nodes, Acts(n)
    PROVE  VerifiersAreMembers'
<1> DEFINE V(m) == evaluating'[m] # None => current_consensus_verifiers'[m] = Members[evaluating'[m].circuit]
<1>1. ASSUME NEW m \in Nodes, evaluating'[m] = evaluating[m],
             current_consensus_verifiers'[m] = current_consensus_verifiers[m]
      PROVE  V(m)
  BY <1>1 DEF VerifiersAreMembers
<1>2. ASSUME UNCHANGED <<stored, change, evaluating>>, NEW m \in Nodes PROVE V(m)
  BY <1>1, <1>2 DEF change
<1>3. ASSUME NEW p, Proposes(n, p), NEW m \in Nodes PROVE V(m)
  <2>1. /\ current_consensus_verifiers' = [current_consensus_verifiers EXCEPT ![n] = Members[p.circuit]]
        /\ evaluating' = evaluating \/ evaluating' = [evaluating EXCEPT ![n] = p]
        /\ evaluating[n] = None
    BY <1>3 DEF Proposes, Propose
  <2>2. CASE m # n
    BY Zenon, <1>1, <2>1, <2>2 DEF TypeOK, ChangeOK, EngineOK
  <2>3. CASE m = n
    BY Zenon, <2>1, <2>3 DEF TypeOK, ChangeOK, EngineOK
  <2> QED BY Zenon, <2>2, <2>3
<1>4. ASSUME Drops(n) \/ Commits(n), NEW m \in Nodes PROVE V(m)
  <2>1. /\ UNCHANGED current_consensus_verifiers
        /\ evaluating'[m] = evaluating[m] \/ evaluating'[m] = None
    BY Zenon, <1>4 DEF Drops, Commits, TypeOK, EngineOK
  <2> QED BY <1>1, <2>1
<1>5. ASSUME Restart(n), NEW m \in Nodes PROVE V(m)
  <2>1. /\ evaluating' = [evaluating EXCEPT ![n] = None]
        /\ current_consensus_verifiers' = [current_consensus_verifiers EXCEPT ![n] = {}]
    BY Zenon, <1>5 DEF Restart
  <2> QED BY <1>1, <2>1 DEF TypeOK, ChangeOK, EngineOK
<1>6. \A m \in Nodes : V(m)
  <2> HIDE DEF V
  <2> QED BY <1>2, <1>3, <1>4, <1>5, Effects
<1> QED BY <1>6 DEF VerifiersAreMembers

\* A step that leaves what a node has stored, and its change at hand or nothing, leaves it
\* with one definition of an ID.
LEMMA OneDefinitionKept ==
    ASSUME NEW m \in Nodes, OneDefinition(m), open_proposals'[m] = open_proposals[m],
           circuits'[m] = circuits[m], pending_changes'[m] \in {pending_changes[m], None}
    PROVE  OneDefinition(m)'
<1>1. /\ \A d, e \in circuits'[m] : Id[d] = Id[e] => d = e
      /\ \A id \in Ids : open_proposals'[m][id] # None =>
            /\ Id[open_proposals'[m][id].circuit] = id
            /\ \A d \in circuits'[m] : Id[d] = id => d = open_proposals'[m][id].circuit
  <2>1. /\ \A d, e \in circuits[m] : Id[d] = Id[e] => d = e
        /\ \A id \in Ids : open_proposals[m][id] # None =>
              /\ Id[open_proposals[m][id].circuit] = id
              /\ \A d \in circuits[m] : Id[d] = id => d = open_proposals[m][id].circuit
    BY Zenon DEF OneDefinition
  <2> QED BY <2>1
<1>2. CASE pending_changes'[m] = None
  BY Zenon, <1>1, <1>2 DEF OneDefinition
<1>3. CASE pending_changes'[m] = pending_changes[m]
  <2>1. pending_changes'[m] # None =>
          LET d == pending_changes'[m].proposal.circuit
          IN /\ \A e \in circuits'[m] : Id[e] = Id[d] => e = d
             /\ open_proposals'[m][Id[d]] # None => open_proposals'[m][Id[d]].circuit = d
    BY Zenon, <1>3 DEF OneDefinition
  <2> QED BY Zenon, <1>1, <2>1 DEF OneDefinition
<1> QED BY ZenonT(60), <1>2, <1>3

\* So does the proposal of a valid payload,
LEMMA OneDefinitionProposed ==
    ASSUME TypeOK, NEW n \in Nodes, OneDefinition(n), NEW p, Proposes(n, p)
    PROVE  OneDefinition(n)'
<1> DEFINE open == open_proposals[n][Id[p.circuit]]
<1>1. p \in Payload /\ Valid(n, p) /\ open_proposals' = open_proposals /\ circuits' = circuits
  BY Zenon DEF Proposes, Propose, stored
<1>2. pending_changes'[n] # None =>
          /\ pending_changes'[n].proposal.circuit = p.circuit
          /\ \A e \in circuits[n] : Id[e] = Id[p.circuit] => e = p.circuit
          /\ open # None => open.circuit = p.circuit
  <2>1. pending_changes'[n] # None => pending_changes'[n].proposal = Proposed(n, p)
    BY ProposesChange
  <2>2. Proposed(n, p).circuit = p.circuit
    BY Zenon, <1>1, ValidLeads DEF TypeOK
  <2>3. CASE validate_create_circuit(n, p)
    BY Zenon, <2>1, <2>2, <2>3 DEF validate_create_circuit
  <2>4. CASE open # None /\ open.circuit = p.circuit
    <3>1. \A e \in circuits[n] : Id[e] = Id[p.circuit] => e = open.circuit
      BY Zenon, <1>1, <2>4, PayloadFields DEF OneDefinition
    <3> QED BY Zenon, <2>1, <2>2, <2>4, <3>1
  <2> QED BY Zenon, <1>1, <2>3, <2>4, ValidLeads DEF TypeOK
<1> QED BY ZenonT(60), <1>1, <1>2 DEF OneDefinition

\* and the commit of the change at hand.
LEMMA OneDefinitionCommitted ==
    ASSUME TypeOK, NEW n \in Nodes, OneDefinition(n), Commits(n)
    PROVE  OneDefinition(n)'
<1> DEFINE proposal == pending_changes[n].proposal
           d == proposal.circuit
<1>1. CommittedAt(n, proposal, d)
  BY CommittedPlaces DEF Commits, TypeOK
<1>2. pending_changes[n] # None /\ pending_changes'[n] = None
  BY DEF Commits, Committed, TypeOK, ChangeOK
<1>3. /\ \A e \in circuits[n] : Id[e] = Id[d] => e = d
      /\ open_proposals[n][Id[d]] # None => open_proposals[n][Id[d]].circuit = d
  BY Zenon, <1>2 DEF OneDefinition
<1>4. \A e \in circuits'[n] : e = d \/ e \in circuits[n]
  BY Zenon, <1>1 DEF CommittedAt
<1>5. d = proposal.circuit
  OBVIOUS
<1> HIDE DEF proposal, d
<1>6. \A c, e \in circuits'[n] : Id[c] = Id[e] => c = e
  <2>1. \A c, e \in circuits[n] : Id[c] = Id[e] => c = e
    BY Zenon DEF OneDefinition
  <2> QED BY <1>3, <1>4, <2>1
<1>7. ASSUME NEW id \in Ids, open_proposals'[n][id] # None
      PROVE  /\ Id[open_proposals'[n][id].circuit] = id
             /\ \A e \in circuits'[n] : Id[e] = id => e = open_proposals'[n][id].circuit
  <2>1. CASE open_proposals'[n][id] = open_proposals[n][id]
    <3>1. /\ Id[open_proposals[n][id].circuit] = id
          /\ \A e \in circuits[n] : Id[e] = id => e = open_proposals[n][id].circuit
      BY Zenon, <1>7, <2>1 DEF OneDefinition
    <3> QED BY Zenon, <1>3, <1>4, <1>7, <2>1, <3>1
  <2>2. CASE id = Id[d] /\ open_proposals'[n][id] = proposal
    BY Zenon, <1>3, <1>4, <1>5, <2>2
  <2> QED BY Zenon, <1>1, <1>7, <2>1, <2>2 DEF CommittedAt
<1> QED BY Zenon, <1>2, <1>6, <1>7 DEF OneDefinition

\* No step makes a node hold two definitions of a circuit ID.
LEMMA DefinitionsStep ==
    ASSUME TypeOK, QueuedWereSubmitted, OneOfAnId, NEW n \in Nodes, Acts(n), UNCHANGED workload
    PROVE  OneOfAnId'
<1>0. Faults' = Faults
  BY DEF Faults
<1>1. ASSUME "store" \notin Faults, NEW m \in Nodes PROVE DiskIsCurrent(m)'
  <2>1. DiskIsCurrent(m) /\ DiskIsCurrent(n)
    BY <1>1 DEF OneOfAnId
  <2>2. CASE open_proposals'[m] = open_proposals[m] /\ circuits'[m] = circuits[m] /\ disk'[m] = disk[m]
    BY <2>1, <2>2 DEF DiskIsCurrent
  <2>3. CASE UNCHANGED stored
    BY <2>2, <2>3 DEF stored
  <2>4. CASE Commits(n)
    <3>1. CommittedAt(n, pending_changes[n].proposal, pending_changes[n].proposal.circuit)
      BY <2>4, CommittedPlaces DEF Commits, TypeOK
    <3>2. CASE m = n
      BY Zenon, <1>1, <3>1, <3>2 DEF CommittedAt, DiskIsCurrent
    <3>3. CASE m # n
      BY Zenon, <2>2, <3>1, <3>3 DEF CommittedAt
    <3> QED BY <3>2, <3>3
  <2>5. CASE Restart(n)
    <3>1. /\ open_proposals' = [open_proposals EXCEPT ![n] = disk[n].open]
          /\ circuits' = [circuits EXCEPT ![n] = disk[n].circuits]
          /\ disk' = disk
      BY Zenon, <2>5 DEF Restart
    <3>2. disk[n].open = open_proposals[n] /\ disk[n].circuits = circuits[n]
      BY <2>1 DEF DiskIsCurrent
    <3> QED BY <2>2, <3>1, <3>2 DEF TypeOK, StoredOK
  <2> QED BY <2>3, <2>4, <2>5, Effects DEF Proposes, Drops
<1>2. ASSUME ~ ({"store", "restart"} \subseteq Faults), NEW m \in Nodes PROVE OneDefinition(m)'
  <2>0. OneDefinition(m) /\ OneDefinition(n)
    BY <1>2 DEF OneOfAnId
  <2>1. CASE UNCHANGED <<stored, change, evaluating>>
    BY <2>0, <2>1, OneDefinitionKept DEF stored, change
  <2>2. ASSUME NEW p, Proposes(n, p) PROVE OneDefinition(m)'
    <3>1. CASE m = n
      BY <2>0, <2>2, <3>1, OneDefinitionProposed
    <3>2. CASE m # n
      BY Zenon, <2>0, <2>2, <3>2, OneDefinitionKept, ProposesChange DEF Proposes, stored
    <3> QED BY <3>1, <3>2
  <2>3. CASE Drops(n)
    <3>1. pending_changes'[m] \in {pending_changes[m], None}
      BY <2>3 DEF Drops, TypeOK, ChangeOK
    <3> QED BY <2>0, <2>3, <3>1, OneDefinitionKept DEF Drops, stored
  <2>4. CASE Commits(n)
    <3>1. CASE m = n
      BY Zenon, <2>0, <2>4, <3>1, OneDefinitionCommitted
    <3>2. CASE m # n
      <4>1. CommittedAt(n, pending_changes[n].proposal, pending_changes[n].proposal.circuit)
        BY <2>4, CommittedPlaces DEF Commits, TypeOK
      <4>2. pending_changes'[m] = pending_changes[m]
        BY <2>4, <3>2 DEF Commits, TypeOK, ChangeOK
      <4>3. open_proposals'[m] = open_proposals[m] /\ circuits'[m] = circuits[m]
        BY Zenon, <3>2, <4>1 DEF CommittedAt
      <4> QED BY <2>0, <4>2, <4>3, OneDefinitionKept
    <3> QED BY <3>1, <3>2
  <2>5. CASE Restart(n)
    <3>1. /\ open_proposals' = [open_proposals EXCEPT ![n] = disk[n].open]
          /\ circuits' = [circuits EXCEPT ![n] = disk[n].circuits]
          /\ pending_changes' = [pending_changes EXCEPT ![n] = None]
          /\ "restart" \in Faults
      BY Zenon, <2>5 DEF Restart
    <3>2. DiskIsCurrent(n)
      BY <1>2, <3>1 DEF OneOfAnId
    <3>3. disk[n].open = open_proposals[n] /\ disk[n].circuits = circuits[n]
      BY <3>2 DEF DiskIsCurrent
    <3>4. /\ open_proposals'[m] = open_proposals[m] /\ circuits'[m] = circuits[m]
          /\ pending_changes'[m] \in {pending_changes[m], None}
      BY <3>1, <3>3 DEF TypeOK, StoredOK, ChangeOK
    <3> QED BY Zenon, <2>0, <3>4, OneDefinitionKept
  <2> QED BY <2>1, <2>2, <2>3, <2>4, <2>5, Effects
<1> QED BY <1>0, <1>1, <1>2 DEF OneOfAnId

-----------------------------------------------------------------------------
(* The theorems. *)

\* The admin services start with nothing stored, pending or queued.
LEMMA AdminInitially == Init => AdminInv
<1> SUFFICES ASSUME Init PROVE AdminInv
  OBVIOUS
<1>1. WorkloadOK /\ ChangeOK
  BY Zenon DEF Init, WorkloadOK, ChangeOK
<1>2. ServicesOK
  <2>1. Empty \in Uninitialized
    BY Zenon, EmptyEntry
  <2> QED BY <2>1 DEF Init, ServicesOK
<1>3. EngineOK
  BY DEF Init, EngineOK
<1>4. StoredOK
  BY Zenon DEF Init, StoredOK, OpenProposals
<1>5. PeeringOK
  BY DEF Init, PeeringOK
<1>6. QueuesOK
  BY DEF Init, QueuesOK
<1>7. QueuedWereSubmitted /\ WaitingForStrangers /\ ProposedAmongPeers /\ VerifiersAreMembers
  <2>1. \A n \in Nodes : /\ pending_circuit_payloads[n] = <<>> /\ unpeered_payloads[n] = <<>>
                        /\ backlog[n] = {} /\ proposed[n] = {} /\ evaluating[n] = None
    BY ZenonT(60) DEF Init
  <2>2. QueuedWereSubmitted
    BY <2>1 DEF QueuedWereSubmitted
  <2>3. WaitingForStrangers /\ ProposedAmongPeers
    BY <2>1 DEF WaitingForStrangers, ProposedAmongPeers
  <2>4. VerifiersAreMembers
    BY Zenon, <2>1 DEF VerifiersAreMembers
  <2> QED BY <2>2, <2>3, <2>4
<1>8. StoredWereVotedFor
  BY Zenon DEF Init, StoredWereVotedFor
<1>9. \A n \in Nodes : OneDefinition(n) /\ DiskIsCurrent(n)
  BY Zenon DEF Init, OneDefinition, DiskIsCurrent
<1> QED BY <1>1, <1>2, <1>3, <1>4, <1>5, <1>6, <1>7, <1>8, <1>9 DEF AdminInv, TypeOK, OneOfAnId

\* Every step of the admin services keeps their invariant.
LEMMA AdminStep == AdminInv /\ [Next]_vars => AdminInv'
<1>1. ASSUME AdminInv, NEW n \in Nodes, Acts(n), UNCHANGED workload PROVE AdminInv'
  BY <1>1, ActsTypes, QueuedStep, StoredStep, PeersStep, VerifiersStep, DefinitionsStep DEF AdminInv
<1>2. ASSUME AdminInv, UNCHANGED vars PROVE AdminInv'
  <2>1. TypeOK'
    BY <1>2 DEF vars, stored, services, peering, change, engine, AdminInv, TypeOK, WorkloadOK, StoredOK,
                ServicesOK, PeeringOK, ChangeOK, EngineOK, QueuesOK
  <2>2. QueuedWereSubmitted' /\ WaitingForStrangers' /\ ProposedAmongPeers' /\ VerifiersAreMembers'
    <3>1. /\ pending_circuit_payloads' = pending_circuit_payloads /\ unpeered_payloads' = unpeered_payloads
          /\ backlog' = backlog /\ proposed' = proposed /\ evaluating' = evaluating
          /\ met' = met /\ Cast' = Cast
          /\ current_consensus_verifiers' = current_consensus_verifiers
      BY Zenon, <1>2 DEF vars, peering, change, engine, Cast
    <3>2. QueuedWereSubmitted'
      BY Zenon, <1>2, <3>1 DEF AdminInv, QueuedWereSubmitted
    <3>3. WaitingForStrangers' /\ ProposedAmongPeers'
      BY Zenon, <1>2, <3>1 DEF AdminInv, WaitingForStrangers, ProposedAmongPeers
    <3>4. VerifiersAreMembers'
      BY Zenon, <1>2, <3>1 DEF AdminInv, VerifiersAreMembers
    <3> QED BY <3>2, <3>3, <3>4
  <2>3. StoredWereVotedFor'
    <3>1. /\ open_proposals' = open_proposals /\ circuits' = circuits /\ disk' = disk
          /\ pending_changes' = pending_changes /\ Cast' = Cast
      BY ZenonT(60), <1>2 DEF vars, stored, change, Cast
    <3>2. \A d : VotedFor(d)' <=> VotedFor(d)
      BY <3>1 DEF VotedFor
    <3> QED BY Zenon, <1>2, <3>1, <3>2 DEF AdminInv, StoredWereVotedFor
  <2>4. OneOfAnId'
    <3>1. /\ open_proposals' = open_proposals /\ circuits' = circuits /\ disk' = disk
          /\ pending_changes' = pending_changes /\ Faults' = Faults
      BY <1>2 DEF vars, stored, change, Faults
    <3>2. \A n \in Nodes : OneDefinition(n) => OneDefinition(n)'
      BY <3>1, OneDefinitionKept
    <3>3. \A n \in Nodes : DiskIsCurrent(n) => DiskIsCurrent(n)'
      BY Zenon, <3>1 DEF DiskIsCurrent
    <3> QED BY <1>2, <3>1, <3>2, <3>3 DEF AdminInv, OneOfAnId
  <2> QED BY ZenonT(60), <2>1, <2>2, <2>3, <2>4 DEF AdminInv
<1> QED BY <1>1, <1>2, NextActs

\* The invariant of the admin services, which the theorems below rest on.
THEOREM AdminInvariant == Spec => []AdminInv
  BY AdminInitially, AdminStep, PTL DEF Spec

\* A node commits a circuit (commit_change) only when every member other than the requester
\* has voted for that very circuit.
THEOREM CircuitsVotedFor == Spec => []CircuitsAreVotedFor
<1>1. AdminInv => CircuitsAreVotedFor
  BY Zenon DEF AdminInv, StoredWereVotedFor, CircuitsAreVotedFor
<1> QED BY <1>1, AdminInvariant, PTL

\* The engine is given only members of the circuit as verifiers (propose_change).
THEOREM VerifiersMembers == Spec => []VerifiersAreMembers
<1>1. AdminInv => VerifiersAreMembers
  BY DEF AdminInv
<1> QED BY <1>1, AdminInvariant, PTL

\* A new circuit is put to consensus only after each other member has been an authorized peer
\* since it was submitted (propose_circuit, on_authorization_change), although peers may be
\* refused or lost at any time.
THEOREM ProposedToPeers == Spec => []ProposedAmongPeers
<1>1. AdminInv => ProposedAmongPeers
  BY DEF AdminInv
<1> QED BY <1>1, AdminInvariant, PTL

\* CircuitsStay: for every behaviour in which writes do not fail, or no daemon restarts, a
\* committed circuit is neither replaced nor lost.  Of one ID, a node's circuits, its open proposal and its
\* pending changes have one definition (OneDefinition), because validate_create_circuit looks
\* at both and a vote is for the open definition; a restart keeps this where what is on disk is
\* what is in memory (DiskIsCurrent).
THEOREM CommittedCircuitsStay == Spec => CircuitsStay
<1> DEFINE Stays == \A n \in Nodes : /\ circuits[n] \subseteq circuits'[n]
                                     /\ \A d, e \in circuits'[n] : Id[d] = Id[e] => d = e
<1>1. ASSUME AdminInv, [Next]_vars PROVE [{"store", "restart"} \subseteq Faults \/ Stays]_vars
  <2>1. CASE UNCHANGED vars
    BY <2>1
  <2>2. ASSUME NEW n \in Nodes, Acts(n), UNCHANGED workload, ~ ({"store", "restart"} \subseteq Faults)
        PROVE  Stays
    <3>1. \A m \in Nodes : OneDefinition(m)
      BY Zenon, <1>1, <2>2 DEF AdminInv, OneOfAnId
    <3>2. \A m \in Nodes : \A d, e \in circuits'[m] : Id[d] = Id[e] => d = e
      <4>1. Faults' = Faults /\ OneOfAnId'
        BY <1>1, <2>2, DefinitionsStep DEF AdminInv, Faults
      <4> QED BY Zenon, <2>2, <4>1 DEF OneOfAnId, OneDefinition
    <3>3. CASE \A m \in Nodes : circuits'[m] = circuits[m]
      BY <3>2, <3>3
    <3>4. CASE UNCHANGED stored
      BY <3>3, <3>4 DEF stored
    <3>5. CASE Commits(n)
      <4> DEFINE c == pending_changes[n].proposal.circuit
      <4>1. CommittedAt(n, pending_changes[n].proposal, c)
        BY ZenonT(60), <1>1, <3>5, CommittedPlaces DEF Commits, AdminInv, TypeOK
      <4>2. \A e \in circuits[n] : Id[e] = Id[c] => e = c
        BY <3>1, <3>5 DEF OneDefinition, Commits, Committed
      <4>3. \A e \in circuits[n] : e \in circuits'[n] \/ (Id[e] = Id[c] /\ c \in circuits'[n])
        BY ZenonT(30), <4>1 DEF CommittedAt
      <4>4. \A m \in Nodes \ {n} : circuits'[m] = circuits[m]
        BY Zenon, <4>1 DEF CommittedAt
      <4> HIDE DEF c
      <4> QED BY <3>2, <4>2, <4>3, <4>4
    <3>6. CASE Restart(n)
      <4>1. circuits' = [circuits EXCEPT ![n] = disk[n].circuits] /\ "restart" \in Faults
        BY Zenon, <3>6 DEF Restart
      <4>2. DiskIsCurrent(n)
        BY <1>1, <2>2, <4>1 DEF AdminInv, OneOfAnId
      <4>3. disk[n].circuits = circuits[n]
        BY <4>2 DEF DiskIsCurrent
      <4> QED BY <1>1, <3>3, <4>1, <4>3 DEF AdminInv, TypeOK, StoredOK
    <3>7. TypeOK /\ QueuedWereSubmitted
      BY <1>1 DEF AdminInv
    <3> HIDE DEF Stays
    <3> QED BY <2>2, <3>4, <3>5, <3>6, <3>7, Effects DEF Proposes, Drops
  <2> HIDE DEF Stays
  <2> QED BY <1>1, <2>1, <2>2, NextActs
<1> QED BY <1>1, AdminInvariant, PTL DEF Spec, CircuitsStay
=============================================================================
