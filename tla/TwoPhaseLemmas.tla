-------------------------- MODULE TwoPhaseLemmas --------------------------
(***************************************************************************)
(* The lemmas that the proofs about the two-phase engine rest on, for      *)
(* every number of nodes and proposals, every choice of verifiers and      *)
(* every combination of faults: what sends, receptions and backlog         *)
(* operations add and take away; type correctness; and, towards the        *)
(* invariant, the steps that leave one of its conjuncts alone, those that  *)
(* call no manager, those that call it, and those of the environment.      *)
(***************************************************************************)
EXTENDS TwoPhase, TLAPS

\* What a leaf is tried with, unless it names its provers.
USE SMTT(20), ZenonT(20), SMTT(30)

-----------------------------------------------------------------------------
(* Sequences. *)

\* What Append adds.
LEMMA ContainsAppend ==
    ASSUME NEW S, NEW s \in Seq(S), NEW x \in S, NEW y
    PROVE  Contains(Append(s, x), y) <=> Contains(s, y) \/ y = x
<1> DEFINE a == Append(s, x)
<1>1. a \in Seq(S) /\ Len(a) = Len(s) + 1 /\ Len(s) \in Nat
  OBVIOUS
<1>2. \A i \in 1..Len(s) : a[i] = s[i]
  OBVIOUS
<1>3. a[Len(s) + 1] = x
  OBVIOUS
<1> QED
  <2>1. ASSUME Contains(a, y) PROVE Contains(s, y) \/ y = x
    <3>1. PICK i \in 1..Len(a) : a[i] = y
      BY <2>1 DEF Contains
    <3>2. CASE i = Len(s) + 1
      BY <3>1, <3>2, <1>3
    <3>3. CASE i \in 1..Len(s)
      BY <3>1, <3>3, <1>2 DEF Contains
    <3> HIDE DEF a
    <3> QED BY <3>2, <3>3, <1>1
  <2>2. ASSUME Contains(s, y) PROVE Contains(a, y)
    <3>1. PICK i \in 1..Len(s) : s[i] = y
      BY <2>2 DEF Contains
    <3>2. i \in 1..Len(a) /\ a[i] = y
      BY <3>1, <1>1, <1>2
    <3> HIDE DEF a
    <3> QED BY <3>2 DEF Contains
  <2>3. ASSUME y = x PROVE Contains(a, y)
    <3>1. Len(s) + 1 \in 1..Len(a) /\ a[Len(s) + 1] = y
      BY <2>3, <1>1, <1>3
    <3> HIDE DEF a
    <3> QED BY <3>1 DEF Contains
  <2> QED BY <2>1, <2>2, <2>3

\* What Tail leaves.
LEMMA ContainsTail ==
    ASSUME NEW S, NEW s \in Seq(S), s # <<>>, NEW y
    PROVE  /\ Contains(Tail(s), y) => Contains(s, y)
           /\ Contains(s, Head(s))
           /\ Once(s, y) => Once(Tail(s), y)
           /\ Once(s, Head(s)) => ~Contains(Tail(s), Head(s))
<1> DEFINE b == Tail(s)
<1>1. Len(s) \in Nat /\ Len(s) >= 1 /\ b \in Seq(S) /\ Len(b) = Len(s) - 1
  OBVIOUS
<1>2. \A i \in 1..Len(b) : b[i] = s[i + 1] /\ i + 1 \in 1..Len(s)
  BY <1>1
<1>3. Head(s) = s[1] /\ 1 \in 1..Len(s)
  BY <1>1
<1> HIDE DEF b
<1>4. Contains(b, y) => Contains(s, y)
  BY <1>1, <1>2 DEF Contains
<1>5. Contains(s, Head(s))
  BY <1>3 DEF Contains
<1>6. ASSUME Once(s, y) PROVE Once(b, y)
  <2> SUFFICES ASSUME NEW i \in 1..Len(b), NEW j \in 1..Len(b), b[i] = y, b[j] = y
               PROVE  i = j
    BY DEF Once
  <2>1. s[i + 1] = y /\ s[j + 1] = y /\ i + 1 \in 1..Len(s) /\ j + 1 \in 1..Len(s)
    BY <1>2
  <2>2. i + 1 = j + 1
    BY <2>1, <1>6 DEF Once
  <2> QED BY <2>2, <1>1
<1>7. ASSUME Once(s, Head(s)), Contains(b, Head(s)) PROVE FALSE
  <2>1. PICK i \in 1..Len(b) : b[i] = Head(s)
    BY <1>7 DEF Contains
  <2>2. s[i + 1] = Head(s) /\ s[1] = Head(s) /\ i + 1 \in 1..Len(s)
    BY <2>1, <1>2, <1>3
  <2>3. i + 1 = 1
    BY <2>2, <1>3, <1>7 DEF Once
  <2> QED BY <2>3, <1>1
<1> QED BY <1>4, <1>5, <1>6, <1>7 DEF b

\* Appending something new keeps what was there once.
LEMMA OnceAppend ==
    ASSUME NEW S, NEW s \in Seq(S), NEW x \in S, NEW y,
           \/ Once(s, y) /\ y # x
           \/ ~Contains(s, y)
    PROVE  Once(Append(s, x), y)
<1> DEFINE a == Append(s, x)
<1>1. Len(a) = Len(s) + 1 /\ Len(s) \in Nat
  OBVIOUS
<1>2. \A i \in 1..Len(s) : a[i] = s[i]
  OBVIOUS
<1>3. a[Len(s) + 1] = x
  OBVIOUS
<1> HIDE DEF a
<1>4. \A i \in 1..Len(a) : i \in 1..Len(s) \/ i = Len(s) + 1
  BY <1>1
<1>5. CASE Once(s, y) /\ y # x
  <2> SUFFICES ASSUME NEW i \in 1..Len(a), NEW j \in 1..Len(a), a[i] = y, a[j] = y
               PROVE  i = j
    BY DEF Once, a
  <2>1. i \in 1..Len(s) /\ j \in 1..Len(s)
    BY <1>3, <1>4, <1>5
  <2> QED BY <2>1, <1>2, <1>5 DEF Once
<1>6. CASE ~Contains(s, y)
  <2> SUFFICES ASSUME NEW i \in 1..Len(a), NEW j \in 1..Len(a), a[i] = y, a[j] = y
               PROVE  i = j
    BY DEF Once, a
  <2>1. i = Len(s) + 1 /\ j = Len(s) + 1
    BY <1>2, <1>4, <1>6 DEF Contains
  <2> QED BY <2>1
<1> QED BY <1>5, <1>6

\* What RemoveAt leaves.
LEMMA ContainsRemoveAt ==
    ASSUME NEW S, NEW s \in Seq(S), NEW k \in 1..Len(s), NEW y
    PROVE  /\ RemoveAt(s, k) \in Seq(S)
           /\ Contains(RemoveAt(s, k), y) => Contains(s, y)
           /\ Contains(s, s[k])
           /\ Once(s, y) => Once(RemoveAt(s, k), y)
           /\ Once(s, s[k]) => ~Contains(RemoveAt(s, k), s[k])
<1> DEFINE u == SubSeq(s, 1, k - 1)
           v == SubSeq(s, k + 1, Len(s))
           b == RemoveAt(s, k)
           to(i) == IF i < k THEN i ELSE i + 1
<1>1. Len(s) \in Nat /\ k \in Nat /\ 1 =< k /\ k =< Len(s)
  OBVIOUS
<1>2. /\ u \in Seq(S) /\ Len(u) = k - 1 /\ \A i \in 1..(k - 1) : u[i] = s[i]
      /\ v \in Seq(S) /\ Len(v) = Len(s) - k /\ \A i \in 1..(Len(s) - k) : v[i] = s[k + i]
  BY <1>1
<1>a. b = u \o v
  BY DEF RemoveAt
<1> HIDE DEF u, v, b
<1>3. b \in Seq(S) /\ Len(b) = Len(s) - 1
  BY <1>1, <1>2, <1>a
<1>4. \A i \in 1..Len(b) : b[i] = s[to(i)] /\ to(i) \in 1..Len(s) /\ to(i) # k
  <2> TAKE i \in 1..Len(b)
  <2>1. CASE i < k
    <3>1. i \in 1..Len(u)
      BY <2>1, <1>1, <1>2, <1>3
    <3>2. (u \o v)[i] = u[i]
      BY <3>1, <1>2
    <3> QED BY <3>1, <3>2, <2>1, <1>a, <1>1, <1>2, <1>3
  <2>2. CASE i >= k
    <3>1. i - (k - 1) \in 1..(Len(s) - k) /\ Len(u) < i /\ i =< Len(u) + Len(v)
      BY <2>2, <1>1, <1>2, <1>3
    <3>2. (u \o v)[i] = v[i - Len(u)]
      <4>1. u \in Seq(S) /\ v \in Seq(S) /\ Len(u) \in Nat /\ Len(v) \in Nat
        BY <1>2
      <4> QED BY <3>1, <4>1
    <3>3. b[i] = s[k + (i - (k - 1))]
      BY <3>1, <3>2, <1>a, <1>2
    <3>4. k + (i - (k - 1)) = i + 1
      BY <1>1, <3>1
    <3> QED BY <3>3, <3>4, <2>2, <1>1, <1>3
  <2> QED BY <2>1, <2>2, <1>1, <1>3
<1>5. \A i, j \in 1..Len(b) : to(i) = to(j) => i = j
  BY <1>1, <1>3
<1> HIDE DEF to
<1>6. Contains(b, y) => Contains(s, y)
  BY <1>4 DEF Contains
<1>7. Contains(s, s[k])
  BY DEF Contains
<1>8. Once(s, y) => Once(b, y)
  BY <1>4, <1>5 DEF Once
<1>9. Once(s, s[k]) => ~Contains(b, s[k])
  BY <1>4 DEF Once, Contains
<1> QED BY <1>3, <1>6, <1>7, <1>8, <1>9 DEF b

-----------------------------------------------------------------------------
(* Channels and messages. *)

\* Every message and update that the engines build is one of its type.
LEMMA MsgFacts ==
    /\ \A t, u, p, q : Msg(t, p) = Msg(u, q) <=> t = u /\ p = q
    /\ \A p \in Proposals, t \in {"REQUEST", "VERIFIED", "FAILED", "APPLY", "REJECT"} :
         Msg(t, p) \in ConsensusMsg
    /\ \A p \in Proposals, t \in {"Proposal", "Valid", "Invalid"} : Msg(t, p) \in ProposalUpdate
    /\ Msg("None", NoProposal) \in ProposalUpdate
  BY DEF Msg, ConsensusMsg, ProposalUpdate

\* The coordinator is one of the verifiers, hence one of the nodes.
LEMMA CoordinatorFacts ==
    \A p \in Proposals : Coordinator(p) \in Verifiers[p] /\ Coordinator(p) \in Nodes
  BY VerifiersAssumption, Zenon DEF Coordinator

\* The queues ch2 hold what ch holds, and the message of type u about q that a has
\* sent to each node of the set to.
Added(ch, ch2, a, to, u, q) ==
    \A s, n \in Nodes : \A t, p :
        In(ch2, s, n, t, p) <=> In(ch, s, n, t, p) \/ (s = a /\ n \in to /\ t = u /\ p = q)

\* What ch held once, ch2 holds once, and what ch2 holds that ch did not, it holds once.
AddedOnce(ch, ch2, a, to, u, q) ==
    \A s, n \in Nodes : \A t, p :
        (~In(ch, s, n, t, p) \/ (Once(ch[<<s, n>>], Msg(t, p)) /\ ~(s = a /\ n \in to /\ t = u /\ p = q)))
          => Once(ch2[<<s, n>>], Msg(t, p))

\* The queues ch2 hold no message of type t that ch does not hold.
Fewer(ch, ch2, t) ==
    \A s, n \in Nodes : \A p : /\ In(ch2, s, n, t, p) => In(ch, s, n, t, p)
                               /\ Once(ch[<<s, n>>], Msg(t, p)) => Once(ch2[<<s, n>>], Msg(t, p))

\* What a message sent to one node adds.
LEMMA PushFacts ==
    ASSUME NEW M, NEW ch \in [Channels -> Seq(M)], NEW a \in Nodes, NEW b \in Nodes,
           NEW u, NEW q, Msg(u, q) \in M
    PROVE  LET ch2 == Push(ch, <<a, b>>, Msg(u, q))
           IN  /\ ch2 \in [Channels -> Seq(M)]
               /\ Added(ch, ch2, a, {b}, u, q) /\ AddedOnce(ch, ch2, a, {b}, u, q)
<1> DEFINE ch2 == Push(ch, <<a, b>>, Msg(u, q))
<1>1. <<a, b>> \in Channels
  BY DEF Channels
<1>2. ch2 \in [Channels -> Seq(M)]
  BY <1>1 DEF Push
<1>3. ch2[<<a, b>>] = Append(ch[<<a, b>>], Msg(u, q))
  BY <1>1 DEF Push
<1>4. \A s, n \in Nodes : <<s, n>> # <<a, b>> => ch2[<<s, n>>] = ch[<<s, n>>]
  BY DEF Push, Channels
<1>5. ASSUME NEW s \in Nodes, NEW n \in Nodes, NEW t, NEW p
      PROVE  /\ In(ch2, s, n, t, p) <=> (In(ch, s, n, t, p) \/ (s = a /\ n \in {b} /\ t = u /\ p = q))
             /\ (~In(ch, s, n, t, p) \/ (Once(ch[<<s, n>>], Msg(t, p)) /\ ~(s = a /\ n \in {b} /\ t = u /\ p = q)))
                  => Once(ch2[<<s, n>>], Msg(t, p))
  <2> HIDE DEF ch2
  <2>1. CASE s = a /\ n = b
    <3>1. ch[<<a, b>>] \in Seq(M)
      BY <1>1
    <3>2. Contains(ch2[<<a, b>>], Msg(t, p)) <=> Contains(ch[<<a, b>>], Msg(t, p)) \/ Msg(t, p) = Msg(u, q)
      BY <3>1, <1>3, ContainsAppend
    <3>3. (~Contains(ch[<<a, b>>], Msg(t, p)) \/ (Once(ch[<<a, b>>], Msg(t, p)) /\ Msg(t, p) # Msg(u, q)))
            => Once(ch2[<<a, b>>], Msg(t, p))
      BY <3>1, <1>3, OnceAppend
    <3>4. Msg(t, p) = Msg(u, q) <=> t = u /\ p = q
      BY MsgFacts
    <3> QED BY <2>1, <3>2, <3>3, <3>4 DEF In
  <2>2. CASE ~(s = a /\ n = b)
    <3>1. ch2[<<s, n>>] = ch[<<s, n>>]
      BY <2>2, <1>4
    <3>2. ~Contains(ch[<<s, n>>], Msg(t, p)) => Once(ch[<<s, n>>], Msg(t, p))
      BY DEF Contains, Once
    <3> QED BY <2>2, <3>1, <3>2 DEF In
  <2> QED BY <2>1, <2>2
<1> HIDE DEF ch2
<1>6. Added(ch, ch2, a, {b}, u, q)
  BY <1>5, Zenon DEF Added
<1>7. AddedOnce(ch, ch2, a, {b}, u, q)
  BY <1>5 DEF AddedOnce
<1> QED BY <1>2, <1>6, <1>7, Zenon DEF ch2

\* What taking the first message of a queue removes.
LEMMA PopFacts ==
    ASSUME NEW M, NEW ch \in [Channels -> Seq(M)], NEW a \in Nodes, NEW b \in Nodes,
           ch[<<a, b>>] # <<>>
    PROVE  LET ch2 == Pop(ch, <<a, b>>)
           IN  /\ ch2 \in [Channels -> Seq(M)]
               /\ \A t : Fewer(ch, ch2, t)
               /\ \A t, p : At(ch, <<a, b>>, Msg(t, p)) =>
                    /\ In(ch, a, b, t, p)
                    /\ Once(ch[<<a, b>>], Msg(t, p)) => ~In(ch2, a, b, t, p)
<1> DEFINE ch2 == Pop(ch, <<a, b>>)
<1>1. <<a, b>> \in Channels /\ ch[<<a, b>>] \in Seq(M)
  BY DEF Channels
<1>2. ch2 \in [Channels -> Seq(M)]
  BY <1>1 DEF Pop
<1>3. ch2[<<a, b>>] = Tail(ch[<<a, b>>])
  BY <1>1 DEF Pop
<1>4. \A s, n \in Nodes : <<s, n>> # <<a, b>> => ch2[<<s, n>>] = ch[<<s, n>>]
  BY DEF Pop, Channels
<1> HIDE DEF ch2
<1>5. ASSUME NEW s \in Nodes, NEW n \in Nodes, NEW t, NEW p
      PROVE  /\ In(ch2, s, n, t, p) => In(ch, s, n, t, p)
             /\ Once(ch[<<s, n>>], Msg(t, p)) => Once(ch2[<<s, n>>], Msg(t, p))
  <2>1. CASE s = a /\ n = b
    BY <2>1, <1>1, <1>3, ContainsTail DEF In
  <2>2. CASE ~(s = a /\ n = b)
    BY <2>2, <1>4 DEF In
  <2> QED BY <2>1, <2>2
<1>6. ASSUME NEW t, NEW p, At(ch, <<a, b>>, Msg(t, p))
      PROVE  /\ In(ch, a, b, t, p)
             /\ Once(ch[<<a, b>>], Msg(t, p)) => ~In(ch2, a, b, t, p)
  BY <1>6, <1>1, <1>3, ContainsTail DEF In, At
<1>7. \A t : Fewer(ch, ch2, t)
  BY <1>5 DEF Fewer
<1> QED BY <1>2, <1>6, <1>7, Zenon DEF ch2

\* What a message sent to several nodes adds.
LEMMA SendAllFacts ==
    ASSUME NEW M, NEW ch \in [Channels -> Seq(M)], NEW a \in Nodes, NEW to,
           NEW u, NEW q, Msg(u, q) \in M
    PROVE  LET ch2 == SendAll(ch, a, to, Msg(u, q))
           IN  /\ ch2 \in [Channels -> Seq(M)]
               /\ Added(ch, ch2, a, to, u, q) /\ AddedOnce(ch, ch2, a, to, u, q)
<1> DEFINE ch2 == SendAll(ch, a, to, Msg(u, q))
<1>1. ch2 \in [Channels -> Seq(M)]
  BY DEF SendAll
<1>2. ASSUME NEW s \in Nodes, NEW n \in Nodes
      PROVE  /\ ch[<<s, n>>] \in Seq(M)
             /\ (s = a /\ n \in to) => ch2[<<s, n>>] = Append(ch[<<s, n>>], Msg(u, q))
             /\ ~(s = a /\ n \in to) => ch2[<<s, n>>] = ch[<<s, n>>]
  BY Zenon DEF SendAll, Channels
<1> HIDE DEF ch2
<1>3. ASSUME NEW s \in Nodes, NEW n \in Nodes, NEW t, NEW p
      PROVE  /\ In(ch2, s, n, t, p) <=> (In(ch, s, n, t, p) \/ (s = a /\ n \in to /\ t = u /\ p = q))
             /\ (~In(ch, s, n, t, p) \/ (Once(ch[<<s, n>>], Msg(t, p)) /\ ~(s = a /\ n \in to /\ t = u /\ p = q)))
                  => Once(ch2[<<s, n>>], Msg(t, p))
  <2>1. ch[<<s, n>>] \in Seq(M) /\ (Msg(t, p) = Msg(u, q) <=> t = u /\ p = q)
    BY <1>2, MsgFacts
  <2>2. CASE s = a /\ n \in to
    <3>1. ch2[<<s, n>>] = Append(ch[<<s, n>>], Msg(u, q))
      BY <2>2, <1>2
    <3>2. Contains(ch2[<<s, n>>], Msg(t, p)) <=> Contains(ch[<<s, n>>], Msg(t, p)) \/ Msg(t, p) = Msg(u, q)
      BY <2>1, <3>1, ContainsAppend
    <3>3. (~Contains(ch[<<s, n>>], Msg(t, p)) \/ (Once(ch[<<s, n>>], Msg(t, p)) /\ Msg(t, p) # Msg(u, q)))
            => Once(ch2[<<s, n>>], Msg(t, p))
      BY <2>1, <3>1, OnceAppend
    <3> QED BY <2>1, <2>2, <3>2, <3>3 DEF In
  <2>3. CASE ~(s = a /\ n \in to)
    <3>1. ch2[<<s, n>>] = ch[<<s, n>>]
      BY <2>3, <1>2
    <3>2. ~Contains(ch[<<s, n>>], Msg(t, p)) => Once(ch[<<s, n>>], Msg(t, p))
      BY DEF Contains, Once
    <3> QED BY <2>3, <3>1, <3>2 DEF In
  <2> QED BY <2>2, <2>3
<1>4. Added(ch, ch2, a, to, u, q)
  BY <1>3, Zenon DEF Added
<1>5. AddedOnce(ch, ch2, a, to, u, q)
  BY <1>3 DEF AddedOnce
<1> QED BY <1>1, <1>4, <1>5 DEF ch2

\* What emptying a node's own queue removes.
LEMMA ClearFacts ==
    ASSUME NEW M, NEW ch \in [Channels -> Seq(M)], NEW a \in Nodes
    PROVE  LET ch2 == [ch EXCEPT ![<<a, a>>] = <<>>]
           IN  /\ ch2 \in [Channels -> Seq(M)]
               /\ \A t : Fewer(ch, ch2, t)
<1> DEFINE ch2 == [ch EXCEPT ![<<a, a>>] = <<>>]
<1>1. <<a, a>> \in Channels /\ <<>> \in Seq(M)
  BY DEF Channels
<1>2. ch2 \in [Channels -> Seq(M)] /\ ch2[<<a, a>>] = <<>>
  BY <1>1
<1>3. \A s, n \in Nodes : <<s, n>> # <<a, a>> => ch2[<<s, n>>] = ch[<<s, n>>]
  BY DEF Channels
<1>4. \A x : ~Contains(<<>>, x) /\ Once(<<>>, x)
  BY DEF Contains, Once
<1> HIDE DEF ch2
<1>5. ASSUME NEW s \in Nodes, NEW n \in Nodes, NEW t, NEW p
      PROVE  /\ In(ch2, s, n, t, p) => In(ch, s, n, t, p)
             /\ Once(ch[<<s, n>>], Msg(t, p)) => Once(ch2[<<s, n>>], Msg(t, p))
  <2>1. CASE <<s, n>> = <<a, a>>
    BY <2>1, <1>2, <1>4 DEF In
  <2>2. CASE <<s, n>> # <<a, a>>
    BY <2>2, <1>3 DEF In
  <2> QED BY <2>1, <2>2
<1>6. \A t : Fewer(ch, ch2, t)
  BY <1>5 DEF Fewer
<1> QED BY <1>2, <1>6, Zenon DEF ch2

-----------------------------------------------------------------------------
(* The engines' queues and backlogs. *)

Updates == [Channels -> Seq(ProposalUpdate)]
Messages == [Channels -> Seq(ConsensusMsg)]

\* The queues keep their types.
LEMMA QueueTypes ==
    /\ \A ch \in Messages, s, n \in Nodes : ch[<<s, n>>] # <<>> => Pop(ch, <<s, n>>) \in Messages
    /\ \A ch \in Updates, s, n \in Nodes : ch[<<s, n>>] # <<>> => Pop(ch, <<s, n>>) \in Updates
    /\ \A ch \in Messages, n \in Nodes, p \in Proposals,
          t \in {"REQUEST", "VERIFIED", "FAILED", "APPLY", "REJECT"} :
         /\ Broadcast(ch, n, t, p) \in Messages
         /\ Push(ch, <<n, Coordinator(p)>>, Msg(t, p)) \in Messages
    /\ \A ch \in Updates, n \in Nodes, p \in Proposals, t \in {"Proposal", "Valid", "Invalid"} :
         /\ Broadcast(ch, n, t, p) \in Updates
         /\ Push(ch, <<n, n>>, Msg(t, p)) \in Updates
    /\ \A ch \in Updates, n \in Nodes, p \in Proposals : \A to :
         SendAll(ch, n, to, Msg("Proposal", p)) \in Updates
    /\ \A ch \in Updates, n \in Nodes, p \in Proposals : \A r : Verdict(ch, n, p, r) \in Updates
    /\ \A ch \in Updates, n \in Nodes : Push(ch, <<n, n>>, Msg("None", NoProposal)) \in Updates
<1>1. \A ch \in Messages, s, n \in Nodes : ch[<<s, n>>] # <<>> => Pop(ch, <<s, n>>) \in Messages
  BY Zenon, PopFacts DEF Messages
<1>2. \A ch \in Updates, s, n \in Nodes : ch[<<s, n>>] # <<>> => Pop(ch, <<s, n>>) \in Updates
  BY Zenon, PopFacts DEF Updates
<1>3. ASSUME NEW ch \in Messages, NEW n \in Nodes, NEW p \in Proposals,
             NEW t \in {"REQUEST", "VERIFIED", "FAILED", "APPLY", "REJECT"}
      PROVE  /\ Broadcast(ch, n, t, p) \in Messages
             /\ Push(ch, <<n, Coordinator(p)>>, Msg(t, p)) \in Messages
  <2>1. Msg(t, p) \in ConsensusMsg /\ Coordinator(p) \in Nodes
    BY MsgFacts, CoordinatorFacts
  <2> QED BY <2>1, SendAllFacts, PushFacts, Zenon DEF Messages, Broadcast
<1>4. ASSUME NEW ch \in Updates, NEW n \in Nodes, NEW p \in Proposals,
             NEW t \in {"Proposal", "Valid", "Invalid"}
      PROVE  /\ Broadcast(ch, n, t, p) \in Updates
             /\ Push(ch, <<n, n>>, Msg(t, p)) \in Updates
             /\ \A to : SendAll(ch, n, to, Msg(t, p)) \in Updates
  <2>1. Msg(t, p) \in ProposalUpdate
    BY MsgFacts
  <2> QED BY <2>1, SendAllFacts, PushFacts, Zenon DEF Updates, Broadcast
<1>5. \A ch \in Updates, n \in Nodes, p \in Proposals : \A r : Verdict(ch, n, p, r) \in Updates
  BY <1>4 DEF Verdict
<1>6. \A ch \in Updates, n \in Nodes : Push(ch, <<n, n>>, Msg("None", NoProposal)) \in Updates
  BY MsgFacts, PushFacts, Zenon DEF Updates
<1> QED BY <1>1, <1>2, <1>3, <1>4, <1>5, <1>6, Zenon

Backlogs == [Nodes -> Seq(Proposals)]

\* The backlogs b2 are b with p added for n.
BacklogAdded(b, b2, n, p) ==
    \A m \in Nodes : \A q :
        /\ Contains(b2[m], q) <=> Contains(b[m], q) \/ (m = n /\ q = p)
        /\ (~Contains(b[m], q) \/ (Once(b[m], q) /\ ~(m = n /\ q = p))) => Once(b2[m], q)

\* The backlogs b2 hold nothing that b does not hold.
BacklogFewer(b, b2) ==
    \A m \in Nodes : \A q : /\ Contains(b2[m], q) => Contains(b[m], q)
                            /\ Once(b[m], q) => Once(b2[m], q)

\* What a backlog holds when a proposal is added at its end.
LEMMA WithFacts ==
    \A b \in Backlogs, n \in Nodes, p \in Proposals :
        /\ With(b, n, p) \in Backlogs
        /\ BacklogAdded(b, With(b, n, p), n, p)
<1> SUFFICES ASSUME NEW b \in Backlogs, NEW n \in Nodes, NEW p \in Proposals
             PROVE  /\ With(b, n, p) \in Backlogs
                    /\ BacklogAdded(b, With(b, n, p), n, p)
  OBVIOUS
<1>1. With(b, n, p) \in Backlogs
  BY DEF With, Backlogs
<1>2. ASSUME NEW m \in Nodes, NEW q
      PROVE  /\ Contains(With(b, n, p)[m], q) <=> Contains(b[m], q) \/ (m = n /\ q = p)
             /\ (~Contains(b[m], q) \/ (Once(b[m], q) /\ ~(m = n /\ q = p)))
                  => Once(With(b, n, p)[m], q)
  <2>1. b[m] \in Seq(Proposals)
    BY DEF Backlogs
  <2>2. CASE m = n
    <3>1. With(b, n, p)[m] = Append(b[m], p)
      BY <2>2 DEF With, Backlogs
    <3> QED BY <2>1, <2>2, <3>1, ContainsAppend, OnceAppend
  <2>3. CASE m # n
    <3>1. With(b, n, p)[m] = b[m]
      BY <2>3 DEF With, Backlogs
    <3>2. ~Contains(b[m], q) => Once(b[m], q)
      BY DEF Contains, Once
    <3> QED BY <2>3, <3>1, <3>2
  <2> QED BY <2>2, <2>3
<1>3. BacklogAdded(b, With(b, n, p), n, p)
  BY <1>2 DEF BacklogAdded
<1> QED BY <1>1, <1>3

\* What it holds when an entry is taken out.
LEMMA WithoutFacts ==
    \A b \in Backlogs, n \in Nodes : \A i \in DOMAIN b[n] :
        /\ b[n][i] \in Proposals
        /\ Contains(b[n], b[n][i])
        /\ Without(b, n, i) \in Backlogs
        /\ BacklogFewer(b, Without(b, n, i))
        /\ Once(b[n], b[n][i]) => ~Contains(Without(b, n, i)[n], b[n][i])
<1> SUFFICES ASSUME NEW b \in Backlogs, NEW n \in Nodes, NEW i \in DOMAIN b[n]
             PROVE  /\ b[n][i] \in Proposals
                    /\ Contains(b[n], b[n][i])
                    /\ Without(b, n, i) \in Backlogs
                    /\ BacklogFewer(b, Without(b, n, i))
                    /\ Once(b[n], b[n][i]) => ~Contains(Without(b, n, i)[n], b[n][i])
  OBVIOUS
<1>1. b[n] \in Seq(Proposals) /\ i \in 1..Len(b[n])
  BY DEF Backlogs
<1>2. Without(b, n, i)[n] = RemoveAt(b[n], i)
  BY DEF Without, Backlogs
<1>3. \A m \in Nodes : m # n => Without(b, n, i)[m] = b[m]
  BY DEF Without, Backlogs
<1>4. RemoveAt(b[n], i) \in Seq(Proposals)
  BY <1>1, ContainsRemoveAt, Zenon
<1>5. Without(b, n, i) \in Backlogs
  BY <1>4 DEF Without, Backlogs
<1>6. ASSUME NEW m \in Nodes, NEW q
      PROVE  /\ Contains(Without(b, n, i)[m], q) => Contains(b[m], q)
             /\ Once(b[m], q) => Once(Without(b, n, i)[m], q)
  <2>1. CASE m = n
    BY <2>1, <1>1, <1>2, ContainsRemoveAt
  <2>2. CASE m # n
    BY <2>2, <1>3
  <2> QED BY <2>1, <2>2
<1>7. /\ b[n][i] \in Proposals
      /\ Contains(b[n], b[n][i])
      /\ Once(b[n], b[n][i]) => ~Contains(Without(b, n, i)[n], b[n][i])
  BY <1>1, <1>2, ContainsRemoveAt
<1>8. BacklogFewer(b, Without(b, n, i))
  BY <1>6 DEF BacklogFewer
<1> QED BY <1>5, <1>7, <1>8

-----------------------------------------------------------------------------
\* The type invariant in parts, one per group of variables.
PCs == {"abort", "backlog", "next", "message", "update", "stopped"}
LoopOK == pc \in [Nodes -> PCs]
EvaluationOK ==
    /\ state \in [Nodes -> {"Idle", "AwaitingProposal", "EvaluatingProposal"}]
    /\ current \in [Nodes -> Proposals \cup {NoProposal}]
    /\ \A n \in Nodes : state[n] = "EvaluatingProposal" <=> current[n] # NoProposal
    /\ peers_verified \in [Nodes -> SUBSET Nodes]
TimerOK == coordinator_timeout \in [Nodes -> {"inactive", "active", "expired"}]
BacklogsOK ==
    /\ proposal_backlog \in Backlogs
    /\ verification_request_backlog \in Backlogs
CreatedOK == created \subseteq Proposals
ValidatedOK == validated \in [Nodes -> SUBSET Proposals]
DecisionsOK == accepted \in [Nodes -> SUBSET Proposals] /\ rejected \in [Nodes -> SUBSET Proposals]

Parts ==
    /\ LoopOK /\ EvaluationOK /\ TimerOK /\ BacklogsOK /\ msgs \in Messages
    /\ updates \in Updates /\ CreatedOK /\ ValidatedOK /\ DecisionsOK

\* The type invariant is the conjunction of its parts, now and after a step.
LEMMA TypeParts == (TypeOK <=> Parts) /\ (TypeOK' <=> Parts')
  BY DEF TypeOK, LoopOK, PCs, EvaluationOK, TimerOK, BacklogsOK, Backlogs, Messages, Updates, CreatedOK,
         ValidatedOK, DecisionsOK, Parts

\* Taking a proposal, or a request and its proposal, out of the backlogs keeps their types.
LEMMA BacklogSteps ==
    ASSUME TypeOK, NEW n \in Nodes
    PROVE  \A j \in DOMAIN proposal_backlog[n] : proposal_backlog' = Without(proposal_backlog, n, j) =>
             /\ UNCHANGED verification_request_backlog => BacklogsOK'
             /\ \A i \in DOMAIN verification_request_backlog[n] :
                  verification_request_backlog' = Without(verification_request_backlog, n, i) => BacklogsOK'
<1>1. proposal_backlog \in Backlogs /\ verification_request_backlog \in Backlogs
  BY DEF TypeOK, Backlogs
<1> QED BY <1>1, WithoutFacts DEF BacklogsOK

\* What the assignments of the handlers do to the parts.
LEMMA PartSteps ==
    ASSUME TypeOK, NEW n \in Nodes
    PROVE  /\ \A to \in PCs : Goto(n, to) => LoopOK'
           /\ UNCHANGED pc => LoopOK'
           /\ UNCHANGED evaluation => EvaluationOK'
           /\ \A s \in {"Idle", "AwaitingProposal"} : Become(n, s, NoProposal) => EvaluationOK'
           /\ \A p \in Proposals : Become(n, "EvaluatingProposal", p) => EvaluationOK'
           /\ UNCHANGED coordinator_timeout => TimerOK'
           /\ \A t \in {"inactive", "active", "expired"} :
                coordinator_timeout' = [coordinator_timeout EXCEPT ![n] = t] => TimerOK'
           /\ UNCHANGED backlogs => BacklogsOK'
           /\ UNCHANGED created => CreatedOK'
           /\ UNCHANGED validated => ValidatedOK'
           /\ \A p \in Proposals : \A r : Validate(n, p, r) => ValidatedOK'
           /\ UNCHANGED decisions => DecisionsOK'
           /\ \A p \in Proposals : Accept(n, p) \/ Reject(n, p) => DecisionsOK'
<1> USE TypeParts DEF Parts
<1>1. /\ \A to \in PCs : Goto(n, to) => LoopOK'
      /\ UNCHANGED pc => LoopOK'
  BY DEF LoopOK, Goto
<1>2. UNCHANGED evaluation => EvaluationOK'
  BY DEF EvaluationOK, evaluation
<1>3. \A s \in {"Idle", "AwaitingProposal"} : Become(n, s, NoProposal) => EvaluationOK'
  BY DEF EvaluationOK, Become
<1>4. \A p \in Proposals : Become(n, "EvaluatingProposal", p) => EvaluationOK'
  BY VerifiersAssumption DEF EvaluationOK, Become
<1>5. /\ UNCHANGED coordinator_timeout => TimerOK'
      /\ \A t \in {"inactive", "active", "expired"} :
           coordinator_timeout' = [coordinator_timeout EXCEPT ![n] = t] => TimerOK'
  BY DEF TimerOK
<1>6. UNCHANGED backlogs => BacklogsOK'
  BY DEF BacklogsOK, backlogs
<1>7. /\ UNCHANGED created => CreatedOK'
      /\ UNCHANGED validated => ValidatedOK'
      /\ \A p \in Proposals : \A r : Validate(n, p, r) => ValidatedOK'
  BY DEF CreatedOK, ValidatedOK, Validate
<1>8. /\ UNCHANGED decisions => DecisionsOK'
      /\ \A p \in Proposals : Accept(n, p) \/ Reject(n, p) => DecisionsOK'
  BY DEF DecisionsOK, decisions, Accept, Reject
<1> QED BY <1>1, <1>2, <1>3, <1>4, <1>5, <1>6, <1>7, <1>8

\* The steps that call no manager keep the types.
LEMMA NoCallType ==
    ASSUME TypeOK, NEW n \in Nodes, NoCall(n)
    PROVE  TypeOK'
<1> USE TypeParts DEF Parts, PCs, At, Receive, Update, engineVars, historyVars
<1>1. ASSUME MessageTimeout(n)
      PROVE  TypeOK'
  <2> QED BY <1>1, PartSteps DEF MessageTimeout
<1>2. ASSUME UpdateTimeout(n)
      PROVE  TypeOK'
  <2> QED BY <1>2, PartSteps DEF UpdateTimeout
<1>3. ASSUME NoneCreated(n)
      PROVE  TypeOK'
  <2>1. updates' \in Updates
    BY <1>3, QueueTypes DEF NoneCreated
  <2>2. EvaluationOK' /\ BacklogsOK'
    BY <1>3 DEF NoneCreated, EvaluationOK, BacklogsOK, backlogs
  <2> QED BY <1>3, <2>1, <2>2, PartSteps DEF NoneCreated
<1>4. ASSUME NEW p \in Proposals, ProposalValid(n, p)
      PROVE  TypeOK'
  <2>1. updates' \in Updates /\ msgs' \in Messages
    BY <1>4, QueueTypes, ZenonT(60) DEF ProposalValid
  <2>2. EvaluationOK'
    BY <1>4 DEF ProposalValid, EvaluationOK
  <2> QED BY <1>4, <2>1, <2>2, PartSteps DEF ProposalValid
<1>5. ASSUME NEW p \in Proposals, InvalidAtVerifier(n, p)
      PROVE  TypeOK'
  <2>1. updates' \in Updates /\ msgs' \in Messages
    BY Zenon, <1>5, QueueTypes DEF InvalidAtVerifier
  <2> QED BY <1>5, <2>1, PartSteps DEF InvalidAtVerifier
<1>6. ASSUME NEW p \in Proposals, NEW s \in Nodes, RequestBacklogged(n, s, p)
      PROVE  TypeOK'
  <2>1. msgs' \in Messages
    BY Zenon, <1>6, QueueTypes DEF RequestBacklogged
  <2>2. BacklogsOK'
    BY Zenon, <1>6, WithFacts DEF RequestBacklogged, BacklogsOK
  <2> QED BY <1>6, <2>1, <2>2, PartSteps DEF RequestBacklogged
<1>7. ASSUME NEW p \in Proposals, NEW s \in Nodes, VerifiedCounted(n, s, p)
      PROVE  TypeOK'
  <2>1. msgs' \in Messages
    BY <1>7, QueueTypes DEF VerifiedCounted
  <2>2. EvaluationOK'
    BY <1>7 DEF VerifiedCounted, EvaluationOK
  <2> QED BY Zenon, <1>7, <2>1, <2>2, PartSteps DEF VerifiedCounted
<1>8. ASSUME NEW p \in Proposals, NEW s \in Nodes, MessageIgnored(n, s, p)
      PROVE  TypeOK'
  <2>1. msgs' \in Messages
    BY Zenon, <1>8, QueueTypes DEF MessageIgnored
  <2> QED BY <1>8, <2>1, PartSteps, Zenon DEF MessageIgnored
<1>9. ASSUME NEW p \in Proposals, NEW s \in Nodes, ProposalBacklogged(n, s, p)
      PROVE  TypeOK'
  <2>1. updates' \in Updates
    BY Zenon, <1>9, QueueTypes DEF ProposalBacklogged
  <2>2. BacklogsOK'
    BY Zenon, <1>9, WithFacts DEF ProposalBacklogged, BacklogsOK
  <2> QED BY Zenon, <1>9, <2>1, <2>2, PartSteps DEF ProposalBacklogged
<1>10. ASSUME NEW p \in Proposals, NEW s \in Nodes, UpdateIgnored(n, s, p)
      PROVE  TypeOK'
  <2>1. updates' \in Updates
    BY <1>10, QueueTypes DEF UpdateIgnored
  <2> QED BY Zenon, <1>10, <2>1, PartSteps DEF UpdateIgnored
<1> QED BY <1>1, <1>2, <1>3, <1>4, <1>5, <1>6, <1>7, <1>8, <1>9, <1>10 DEF NoCall

\* complete_coordination keeps the types of what it assigns.
LEMMA CompleteType ==
    ASSUME TypeOK, NEW n \in Nodes, NEW p \in Proposals, NEW result \in {"APPLY", "REJECT"},
           NEW ok \in BOOLEAN, NEW ch \in Messages, complete_coordination(n, p, result, ok, ch)
    PROVE  EvaluationOK' /\ TimerOK' /\ msgs' \in Messages /\ DecisionsOK'
<1>1. CASE ok
  <2>1. Broadcast(ch, n, result, p) \in Messages
    BY QueueTypes, Zenon
  <2>2. Accept(n, p) \/ Reject(n, p)
    BY <1>1 DEF complete_coordination
  <2> QED BY <1>1, <2>1, <2>2, PartSteps DEF complete_coordination
<1>2. CASE ~ok
  BY Zenon, <1>2, PartSteps DEF complete_coordination
<1> QED BY <1>1, <1>2

\* The steps that call the manager, whatever it answers.  Calls(n) and the services that are
\* built on the engine take these and no others.
Answers(n) ==
    \/ \E p \in Proposals :
         \/ \E r : CheckCall(n, p, r)
         \/ \E ok \in BOOLEAN : AcceptCall(n, p, ok) \/ RejectCall(n, p, ok) \/ CheckRejectCall(n, p, ok)
    \/ CreateProposal(n, NoProposal)
    \/ CreateProposalFails(n, NoProposal, {})
Creates(n, p) == CreateProposal(n, p) \/ \E to : CreateProposalFails(n, p, to)

\* The manager calls of the engine are among them, and it creates a proposal once.
LEMMA CallsAnswer ==
    ASSUME NEW n \in Nodes, Calls(n)
    PROVE  Answers(n) \/ \E p \in Proposals \ created : Creates(n, p)
<1>1. \A call : CallResults(call) \subseteq BOOLEAN
  BY Zenon DEF CallResults
<1> QED BY <1>1 DEF Calls, Answers, Creates

\* The steps that call the manager keep the types.
LEMMA CallsType ==
    ASSUME TypeOK, NEW n \in Nodes, Answers(n) \/ \E p \in Proposals : Creates(n, p)
    PROVE  TypeOK'
<1> USE TypeParts DEF Parts, PCs, At, Receive, Update, engineVars, historyVars
<1>1. ASSUME NEW p \in Proposals, NEW r, HandleBackloggedRequest(n, p, r)
      PROVE  TypeOK'
  <2>1. updates' \in Updates
    BY <1>1, QueueTypes, Zenon DEF HandleBackloggedRequest
  <2>2. BacklogsOK'
    BY <1>1, BacklogSteps, Zenon DEF HandleBackloggedRequest
  <2> QED BY <1>1, <2>1, <2>2, PartSteps DEF HandleBackloggedRequest
<1>2. ASSUME NEW p \in Proposals, NEW s \in Nodes, NEW r, RequestEvaluated(n, s, p, r)
      PROVE  TypeOK'
  <2>1. updates' \in Updates /\ msgs' \in Messages
    BY <1>2, QueueTypes, Zenon DEF RequestEvaluated
  <2>2. BacklogsOK'
    BY <1>2, BacklogSteps, PartSteps, Zenon DEF RequestEvaluated, backlogs
  <2> QED BY <1>2, <2>1, <2>2, PartSteps, Zenon DEF RequestEvaluated
<1>3. ASSUME NEW p \in Proposals, NEW r, CoordinateNext(n, p, r)
      PROVE  TypeOK'
  <2>1. updates' \in Updates
    BY <1>3, QueueTypes, Zenon DEF CoordinateNext, start_coordination, TakeNextProposal
  <2>2. BacklogsOK'
    BY <1>3, BacklogSteps, Zenon DEF CoordinateNext, TakeNextProposal
  <2> QED BY <1>3, <2>1, <2>2, PartSteps, Zenon DEF CoordinateNext, start_coordination, TakeNextProposal
<1>4. ASSUME NEW p \in Proposals, NEW s \in Nodes, NEW r, CoordinateProposal(n, s, p, r)
      PROVE  TypeOK'
  <2>1. updates' \in Updates
    BY <1>4, QueueTypes, Zenon DEF CoordinateProposal, start_coordination, ProposalToCoordinate
  <2> QED BY <1>4, <2>1, PartSteps, Zenon DEF CoordinateProposal, start_coordination, ProposalToCoordinate
<1>5. ASSUME NEW p \in Proposals, NEW s \in Nodes, NEW ok \in BOOLEAN, VerifiedByAll(n, s, p, ok)
      PROVE  TypeOK'
  <2>1. Pop(msgs, <<s, n>>) \in Messages
    BY Zenon, <1>5, QueueTypes DEF VerifiedByAll
  <2>2. EvaluationOK' /\ TimerOK' /\ msgs' \in Messages /\ DecisionsOK'
    <3>1. CASE ok
      BY <1>5, <2>1, <3>1, CompleteType, Zenon DEF VerifiedByAll
    <3>2. CASE ~ok
      <4>1. EvaluationOK'
        <5>1. peers_verified' = [peers_verified EXCEPT ![n] = @ \cup {s}] /\ UNCHANGED <<state, current>>
          BY ZenonT(60), <1>5, <3>2 DEF VerifiedByAll
        <5> QED BY <5>1 DEF EvaluationOK
      <4> QED BY Zenon, <1>5, <2>1, <3>2, <4>1, PartSteps DEF VerifiedByAll
    <3> QED BY <3>1, <3>2
  <2> QED BY <1>5, <2>2, PartSteps, Zenon DEF VerifiedByAll
<1>6. ASSUME NEW p \in Proposals, NEW s \in Nodes, NEW ok \in BOOLEAN, ApplyResult(n, s, p, ok)
      PROVE  TypeOK'
  <2>1. msgs' \in Messages
    BY Zenon, <1>6, QueueTypes DEF ApplyResult
  <2> QED BY <1>6, <2>1, PartSteps DEF ApplyResult
<1>7. ASSUME NEW p \in Proposals, NEW ok \in BOOLEAN, AbortTimedOut(n, p, ok)
      PROVE  TypeOK'
  <2>3. EvaluationOK' /\ TimerOK' /\ msgs' \in Messages /\ DecisionsOK'
    BY <1>7, CompleteType DEF AbortTimedOut
  <2> QED BY <1>7, <2>3, PartSteps DEF AbortTimedOut
<1>8. ASSUME NEW p \in Proposals, NEW ok \in BOOLEAN, InvalidAtCoordinator(n, p, ok)
      PROVE  TypeOK'
  <2>1. updates' \in Updates
    BY <1>8, QueueTypes, Zenon DEF InvalidAtCoordinator
  <2>3. EvaluationOK' /\ TimerOK' /\ msgs' \in Messages /\ DecisionsOK'
    BY <1>8, CompleteType, Zenon DEF InvalidAtCoordinator
  <2> QED BY <1>8, <2>1, <2>3, PartSteps, Zenon DEF InvalidAtCoordinator
<1>9. ASSUME NEW p \in Proposals, NEW s \in Nodes, NEW ok \in BOOLEAN, FailedByPeer(n, s, p, ok)
      PROVE  TypeOK'
  <2>2. Pop(msgs, <<s, n>>) \in Messages
    BY <1>9, QueueTypes, Zenon DEF FailedByPeer
  <2>3. EvaluationOK' /\ TimerOK' /\ msgs' \in Messages /\ DecisionsOK'
    BY <1>9, <2>2, CompleteType, Zenon DEF FailedByPeer
  <2> QED BY <1>9, <2>3, PartSteps, Zenon DEF FailedByPeer
<1>10. ASSUME NEW p \in Proposals, NEW s \in Nodes, NEW ok \in BOOLEAN, RejectResult(n, s, p, ok)
      PROVE  TypeOK'
  <2>1. msgs' \in Messages
    BY <1>10, QueueTypes, Zenon DEF RejectResult
  <2> QED BY <1>10, <2>1, PartSteps, Zenon DEF RejectResult
<1>11. ASSUME NEW p \in Proposals, NEW ok \in BOOLEAN, CoordinateNextFails(n, p, ok)
      PROVE  TypeOK'
  <2>2. BacklogsOK'
    BY <1>11, BacklogSteps, Zenon DEF CoordinateNextFails, TakeNextProposal
  <2>3. EvaluationOK' /\ TimerOK' /\ msgs' \in Messages /\ DecisionsOK'
    BY <1>11, CompleteType DEF CoordinateNextFails
  <2> QED BY <1>11, <2>2, <2>3, PartSteps, Zenon DEF CoordinateNextFails, TakeNextProposal
<1>12. ASSUME NEW p \in Proposals, NEW s \in Nodes, NEW ok \in BOOLEAN, CoordinateProposalFails(n, s, p, ok)
      PROVE  TypeOK'
  <2>1. updates' \in Updates
    BY Zenon, <1>12, QueueTypes DEF CoordinateProposalFails, ProposalToCoordinate
  <2>3. EvaluationOK' /\ TimerOK' /\ msgs' \in Messages /\ DecisionsOK'
    BY <1>12, CompleteType DEF CoordinateProposalFails
  <2> QED BY Zenon, <1>12, <2>1, <2>3, PartSteps DEF CoordinateProposalFails, ProposalToCoordinate
<1>13. ASSUME CreateProposal(n, NoProposal)
       PROVE  TypeOK'
  <2>1. updates' \in Updates
    BY <1>13, QueueTypes, Zenon DEF CreateProposal
  <2> QED BY <1>13, <2>1, PartSteps DEF CreateProposal
<1>14. ASSUME NEW p \in Proposals, CreateProposal(n, p)
       PROVE  TypeOK'
  <2>1. updates' \in Updates /\ CreatedOK'
    BY Zenon, <1>14, QueueTypes, VerifiersAssumption DEF CreateProposal, CreatedOK
  <2> QED BY <1>14, <2>1, PartSteps DEF CreateProposal
<1>15. ASSUME NEW p \in Proposals, NEW to, CreateProposalFails(n, p, to)
       PROVE  TypeOK'
  <2>1. updates' \in Updates /\ CreatedOK'
    BY <1>15, QueueTypes, VerifiersAssumption DEF CreateProposalFails, CreatedOK
  <2> QED BY ZenonT(60), <1>15, <2>1, PartSteps DEF CreateProposalFails
<1>21. ASSUME CreateProposalFails(n, NoProposal, {})
       PROVE  TypeOK'
  BY <1>21, PartSteps DEF CreateProposalFails
<1>17. CASE \E p \in Proposals : \E r : CheckCall(n, p, r)
  BY <1>17, <1>1, <1>2, <1>3, <1>4 DEF CheckCall
<1>18. CASE \E p \in Proposals : \E ok \in BOOLEAN : AcceptCall(n, p, ok)
  BY <1>18, <1>5, <1>6 DEF AcceptCall
<1>19. CASE \E p \in Proposals : \E ok \in BOOLEAN : RejectCall(n, p, ok)
  BY <1>19, <1>7, <1>8, <1>9, <1>10 DEF RejectCall
<1>20. CASE \E p \in Proposals : \E ok \in BOOLEAN : CheckRejectCall(n, p, ok)
  BY <1>20, <1>11, <1>12 DEF CheckRejectCall
<1> QED BY <1>13, <1>14, <1>15, <1>17, <1>18, <1>19, <1>20, <1>21 DEF Answers, Creates

\* What the environment may do, whatever Faults allows.
Disturbances ==
    \/ \E c \in Channels : LoseMessage(c) \/ LoseProposal(c)
    \/ \E n \in Nodes : TimeoutElapses(n) \/ Stop(n) \/ Start(n)

\* Lost messages, stops and starts keep the types.
LEMMA EnvironmentType ==
    ASSUME TypeOK, Disturbances
    PROVE  TypeOK'
<1> USE TypeParts DEF Parts, PCs, engineVars, historyVars
<1>1. ASSUME NEW s \in Nodes, NEW n \in Nodes, LoseMessage(<<s, n>>)
      PROVE  TypeOK'
  <2>1. msgs' \in Messages
    BY Zenon, <1>1, QueueTypes DEF LoseMessage
  <2> QED BY Zenon, <1>1, <2>1, PartSteps DEF LoseMessage
<1>2. ASSUME NEW s \in Nodes, NEW n \in Nodes, LoseProposal(<<s, n>>)
      PROVE  TypeOK'
  <2>1. updates' \in Updates
    BY Zenon, <1>2, QueueTypes DEF LoseProposal
  <2> QED BY Zenon, <1>2, <2>1, PartSteps DEF LoseProposal
<1>3. ASSUME NEW n \in Nodes, TimeoutElapses(n)
      PROVE  TypeOK'
  BY <1>3, PartSteps, Zenon DEF TimeoutElapses
<1>4. ASSUME NEW n \in Nodes, Stop(n)
      PROVE  TypeOK'
  <2>1. updates' \in Updates
    BY <1>4, ClearFacts, Zenon DEF Stop, Updates
  <2>2. BacklogsOK'
    BY <1>4 DEF Stop, BacklogsOK, Backlogs
  <2> QED BY <1>4, <2>1, <2>2, PartSteps, Zenon DEF Stop
<1>5. ASSUME NEW n \in Nodes, Start(n)
      PROVE  TypeOK'
  BY <1>5, PartSteps DEF Start
<1>6. \A c \in Channels : \E s, n \in Nodes : c = <<s, n>>
  BY DEF Channels
<1> QED BY <1>1, <1>2, <1>3, <1>4, <1>5, <1>6 DEF Disturbances

\* Every variable of the engines keeps its type, and an engine is in
\* State::EvaluatingProposal exactly when it has a current proposal.
LEMMA TypeStep ==
    ASSUME TypeOK, [Next]_vars
    PROVE  TypeOK'
<1>1. CASE UNCHANGED vars
  BY <1>1 DEF TypeOK, vars, engineVars, historyVars, evaluation, backlogs, decisions
<1>2. CASE Next
  <2>1. Environment => Disturbances
    BY DEF Environment, Disturbances
  <2> QED BY <1>2, <2>1, NoCallType, CallsAnswer, CallsType, EnvironmentType DEF Next
<1> QED BY <1>1, <1>2

\* The engines start with every variable of its type.
LEMMA TypeInit == Init => TypeOK
  BY DEF Init, TypeOK

\* In every behaviour of the engines the queues, backlogs and histories keep their types, and an
\* engine is in State::EvaluatingProposal exactly when it has a current proposal.
THEOREM TypeCorrect == Spec => []TypeOK
  BY TypeInit, TypeStep, PTL DEF Spec

-----------------------------------------------------------------------------
(* Steps that leave a conjunct of the invariant alone. *)

FewerMessages(ch) == \A t : Fewer(msgs, ch, t)
FewerProposals(ch) == Fewer(updates, ch, "Proposal")

FewerBacklogged == BacklogFewer(proposal_backlog, proposal_backlog')

NoNewEvaluation ==
    \A n \in Nodes, p \in Proposals : evaluating_proposal(n, p)' => evaluating_proposal(n, p)

\* The history only grows.
Grows ==
    /\ created \subseteq created'
    /\ \A n \in Nodes : /\ validated[n] \subseteq validated'[n]
                        /\ accepted[n] \subseteq accepted'[n]
                        /\ rejected[n] \subseteq rejected'[n]

\* MetOnce is kept by a step that takes things away and decides nothing.
LEMMA MetOnceFrame ==
    ASSUME IInv, FewerProposals(updates'), FewerBacklogged, NoNewEvaluation, Grows,
           UNCHANGED decisions
    PROVE  \A p \in Proposals : MetOnce(p)'
<1> SUFFICES ASSUME NEW p \in Proposals
             PROVE  MetOnce(p)'
  BY Zenon
<1> DEFINE c == Coordinator(p)
<1>1. c \in Nodes /\ MetOnce(p)
  BY CoordinatorFacts DEF IInv
<1>2. Decided(c, p)' <=> Decided(c, p)
  BY DEF Decided, decisions
<1>3. evaluating_proposal(c, p)' => evaluating_proposal(c, p)
  BY <1>1 DEF NoNewEvaluation
<1>4. Known(c, p)' => Known(c, p)
  BY <1>1, <1>3 DEF FewerBacklogged, BacklogFewer, Known
<1> QED BY <1>1, <1>2, <1>3, <1>4, Zenon DEF MetOnce, FewerProposals, Fewer, FewerBacklogged, BacklogFewer, Grows

\* MessagesTrue is kept by a step that sends nothing.
LEMMA MessagesFrame ==
    ASSUME IInv, FewerMessages(msgs'), Grows
    PROVE  \A p \in Proposals : MessagesTrue(p)'
<1> SUFFICES ASSUME NEW p \in Proposals
             PROVE  MessagesTrue(p)'
  OBVIOUS
<1>1. Coordinator(p) \in Nodes /\ MessagesTrue(p)
  BY CoordinatorFacts DEF IInv
<1> QED BY <1>1, Zenon DEF MessagesTrue, FewerMessages, Fewer, Grows

\* The message of type t about p from s to n is true.
Tells(s, n, t, p) ==
    /\ t = "VERIFIED" => n = Coordinator(p) /\ p \in validated[s]
    /\ t = "FAILED" => n = Coordinator(p)
    /\ t = "APPLY" => n # Coordinator(p) /\ p \in accepted[Coordinator(p)]
    /\ t = "REJECT" => n # Coordinator(p) /\ p \in rejected[Coordinator(p)]

\* MessagesTrue is kept by a step that sends only what is true.
LEMMA MessagesSent ==
    ASSUME IInv, Grows, NEW p \in Proposals,
           \A s, n \in Nodes : \A t : In(msgs', s, n, t, p) => In(msgs, s, n, t, p) \/ Tells(s, n, t, p)'
    PROVE  MessagesTrue(p)'
<1>1. Coordinator(p) \in Nodes /\ MessagesTrue(p)
  BY CoordinatorFacts DEF IInv
<1>2. ASSUME NEW s \in Nodes, NEW n \in Nodes, NEW t, In(msgs', s, n, t, p) PROVE Tells(s, n, t, p)'
  <2>1. CASE In(msgs, s, n, t, p)
    <3>1. Tells(s, n, t, p)
      BY <1>1, <2>1 DEF MessagesTrue, Tells
    <3>2. /\ p \in validated[s] => p \in validated'[s]
          /\ p \in accepted[Coordinator(p)] => p \in accepted'[Coordinator(p)]
          /\ p \in rejected[Coordinator(p)] => p \in rejected'[Coordinator(p)]
      BY Zenon, <1>1 DEF Grows
    <3> QED BY Zenon, <3>1, <3>2 DEF Tells
  <2> QED BY Zenon, <1>2, <2>1
<1> QED BY Zenon, <1>2 DEF MessagesTrue, Tells

\* DecisionsFollow is kept by a step that decides nothing.
LEMMA DecisionsFrame ==
    ASSUME IInv, Grows, UNCHANGED decisions
    PROVE  \A p \in Proposals : DecisionsFollow(p)'
<1> SUFFICES ASSUME NEW p \in Proposals
             PROVE  DecisionsFollow(p)'
  OBVIOUS
<1>1. Coordinator(p) \in Nodes /\ DecisionsFollow(p) /\ \A v \in Verifiers[p] : v \in Nodes
  BY CoordinatorFacts, VerifiersAssumption DEF IInv
<1> QED BY <1>1 DEF DecisionsFollow, Grows, decisions

\* VotesTrue is kept by a step that counts no vote and leaves no verdict behind
\* that the history does not record.
LEMMA VotesFrame ==
    ASSUME IInv, Grows, NoNewEvaluation,
           \A n \in Nodes : peers_verified'[n] \subseteq peers_verified[n],
           \A n \in Nodes, p \in Proposals :
              In(updates, n, n, "Valid", p)' => In(updates, n, n, "Valid", p) \/ p \in validated'[n]
    PROVE  \A p \in Proposals : VotesTrue(p)'
<1> SUFFICES ASSUME NEW p \in Proposals, NEW n \in Nodes
             PROVE  /\ evaluating_proposal(n, p)' => \A v \in peers_verified'[n] : p \in validated'[v]
                    /\ In(updates, n, n, "Valid", p)' => p \in validated'[n]
  BY DEF VotesTrue
<1>1. VotesTrue(p) /\ peers_verified[n] \subseteq Nodes
  BY Zenon DEF IInv, TypeOK
<1> QED BY <1>1 DEF VotesTrue, Grows, NoNewEvaluation

-----------------------------------------------------------------------------
(* The two ways to change an evaluation: start it and complete it. *)

\* What the engines' sends add.
LEMMA SentFacts ==
    ASSUME NEW ch \in Messages, NEW n \in Nodes, NEW p \in Proposals,
           NEW t \in {"REQUEST", "VERIFIED", "FAILED", "APPLY", "REJECT"}
    PROVE  /\ Added(ch, Broadcast(ch, n, t, p), n, Verifiers[p] \ {n}, t, p)
           /\ Added(ch, Push(ch, <<n, Coordinator(p)>>, Msg(t, p)), n, {Coordinator(p)}, t, p)
<1>1. Msg(t, p) \in ConsensusMsg /\ Coordinator(p) \in Nodes
  BY MsgFacts, CoordinatorFacts
<1>2. Added(ch, Broadcast(ch, n, t, p), n, Verifiers[p] \ {n}, t, p)
  BY <1>1, SendAllFacts DEF Messages, Broadcast
<1>3. Added(ch, Push(ch, <<n, Coordinator(p)>>, Msg(t, p)), n, {Coordinator(p)}, t, p)
  <2>1. ch \in [Channels -> Seq(ConsensusMsg)]
    BY DEF Messages
  <2>2. ASSUME NEW b \in Nodes
        PROVE  Added(ch, Push(ch, <<n, b>>, Msg(t, p)), n, {b}, t, p)
    <3>1. Msg(t, p) \in ConsensusMsg
      BY <1>1
    <3> QED BY Zenon, <2>1, <3>1, PushFacts
  <2> QED BY <1>1, <2>2
<1> QED BY Zenon, <1>2, <1>3

\* A verdict adds no proposal, and a Valid only with its entry in the history.
LEMMA VerdictFacts ==
    ASSUME NEW ch \in Updates, NEW n \in Nodes, NEW p \in Proposals, NEW r
    PROVE  /\ Fewer(ch, Verdict(ch, n, p, r), "Proposal")
           /\ \A m \in Nodes, q \in Proposals :
                In(Verdict(ch, n, p, r), m, m, "Valid", q) =>
                  In(ch, m, m, "Valid", q) \/ (m = n /\ q = p /\ r = "valid")
<1>1. ASSUME NEW t \in {"Valid", "Invalid"}
      PROVE  /\ Added(ch, Push(ch, <<n, n>>, Msg(t, p)), n, {n}, t, p)
             /\ AddedOnce(ch, Push(ch, <<n, n>>, Msg(t, p)), n, {n}, t, p)
  <2>1. Msg(t, p) \in ProposalUpdate
    BY MsgFacts
  <2> QED BY <2>1, PushFacts, Zenon DEF Updates
<1> DEFINE v == Verdict(ch, n, p, r)
<1>2. \/ Added(ch, v, n, {n}, "Valid", p) /\ AddedOnce(ch, v, n, {n}, "Valid", p) /\ r = "valid"
      \/ Added(ch, v, n, {n}, "Invalid", p) /\ AddedOnce(ch, v, n, {n}, "Invalid", p)
  BY ZenonT(60), <1>1 DEF Verdict
<1> HIDE DEF v
<1>3. Fewer(ch, v, "Proposal")
  BY <1>2 DEF Fewer, Added, AddedOnce
<1>4. ASSUME NEW m \in Nodes, NEW q \in Proposals, In(v, m, m, "Valid", q)
      PROVE  In(ch, m, m, "Valid", q) \/ (m = n /\ q = p /\ r = "valid")
  <2>1. CASE Added(ch, v, n, {n}, "Valid", p) /\ r = "valid"
    BY <1>4, <2>1 DEF Added
  <2>2. CASE Added(ch, v, n, {n}, "Invalid", p)
    BY <1>4, <2>2 DEF Added
  <2> QED BY <1>2, <2>1, <2>2
<1> QED BY <1>3, <1>4 DEF v

\* An engine starts to evaluate p, which, if it is its coordinator, it has just
\* taken from where it waited.
LEMMA EvaluateStep ==
    ASSUME IInv, NEW n \in Nodes, NEW p \in Proposals, NEW r, NEW ch \in Updates,
           FewerProposals(ch), Fewer(updates, ch, "Valid"), FewerBacklogged, FewerMessages(msgs'),
           Become(n, "EvaluatingProposal", p), updates' = Verdict(ch, n, p, r), Validate(n, p, r),
           UNCHANGED <<created, decisions>>,
           n = Coordinator(p) => /\ p \in created /\ ~Decided(n, p)
                                 /\ ~Contains(proposal_backlog'[n], p)
                                 /\ \A s \in Nodes : ~In(ch, s, n, "Proposal", p)
    PROVE  \A q \in Proposals : MetOnce(q)' /\ MessagesTrue(q)' /\ VotesTrue(q)' /\ DecisionsFollow(q)'
<1>1. Grows
  BY DEF Grows, Validate, decisions, IInv, TypeOK
<1>2. /\ \A m \in Nodes, q \in Proposals :
           evaluating_proposal(m, q)' <=> (IF m = n THEN q = p ELSE evaluating_proposal(m, q))
      /\ \A m \in Nodes : peers_verified'[m] = IF m = n THEN {} ELSE peers_verified[m]
  BY DEF Become, IInv, TypeOK, evaluating_proposal
<1>3. \A q \in Proposals : DecisionsFollow(q)' /\ MessagesTrue(q)'
  BY <1>1, DecisionsFrame, MessagesFrame
<1>4. ASSUME NEW q \in Proposals
      PROVE  VotesTrue(q)'
  <2> SUFFICES ASSUME NEW m \in Nodes
               PROVE  /\ evaluating_proposal(m, q)' => \A v \in peers_verified'[m] : q \in validated'[v]
                      /\ In(updates, m, m, "Valid", q)' => q \in validated'[m]
    BY Zenon DEF VotesTrue
  <2>1. VotesTrue(q) /\ peers_verified[m] \subseteq Nodes
    BY DEF IInv, TypeOK
  <2>2. evaluating_proposal(m, q)' => \A v \in peers_verified'[m] : q \in validated'[v]
    BY Zenon, <1>1, <1>2, <2>1 DEF VotesTrue, Grows
  <2>3. In(updates, m, m, "Valid", q)' => In(updates, m, m, "Valid", q) \/ (m = n /\ q = p /\ r = "valid")
    BY VerdictFacts, Zenon DEF Fewer
  <2>4. r = "valid" => p \in validated'[n]
    BY DEF Validate, IInv, TypeOK
  <2> QED BY Zenon, <1>1, <2>1, <2>2, <2>3, <2>4 DEF VotesTrue, Grows
<1>5. FewerProposals(updates') /\ Fewer(ch, updates', "Proposal")
  <2>1. Fewer(ch, updates', "Proposal")
    BY VerdictFacts, Zenon
  <2> QED BY <2>1, Zenon DEF FewerProposals, Fewer
<1>6. ASSUME NEW q \in Proposals
      PROVE  MetOnce(q)'
  <2> DEFINE c == Coordinator(q)
  <2>1. c \in Nodes /\ MetOnce(q)
    BY Zenon, CoordinatorFacts DEF IInv
  <2>2. Decided(c, q)' <=> Decided(c, q)
    BY Zenon DEF Decided, decisions
  <2>3. CASE c = n /\ q = p
    <3>1. ~In(updates, n, n, "Proposal", p)' /\ \A s \in Nodes : ~In(updates, s, n, "Proposal", p)'
      BY <1>5, <2>3, Zenon DEF Fewer
    <3> QED BY Zenon, <2>1, <2>2, <2>3, <3>1 DEF MetOnce
  <2>4. CASE ~(c = n /\ q = p)
    <3>1. evaluating_proposal(c, q)' => evaluating_proposal(c, q)
      BY Zenon, <1>2, <2>1, <2>4
    <3>2. Known(c, q)' => Known(c, q)
      BY Zenon, <2>1, <3>1 DEF FewerBacklogged, BacklogFewer, Known
    <3> QED BY <1>5, <2>1, <2>2, <3>1, <3>2, Zenon DEF MetOnce, FewerProposals, Fewer, FewerBacklogged, BacklogFewer
  <2> QED BY <2>3, <2>4
<1> QED BY <1>3, <1>4, <1>6

\* The coordinator of p, which it has not decided and which waits nowhere for it any
\* more, completes the coordination of p; to apply it, it knows that p is valid everywhere.
LEMMA CompleteStep ==
    ASSUME IInv, NEW n \in Nodes, NEW p \in Proposals, NEW result \in {"APPLY", "REJECT"},
           NEW ok \in BOOLEAN, NEW ch \in Messages, FewerMessages(ch),
           complete_coordination(n, p, result, ok, ch),
           n = Coordinator(p), p \in created, ~Decided(n, p),
           result = "APPLY" => \A v \in Verifiers[p] : p \in validated[v],
           FewerProposals(updates'), Fewer(updates, updates', "Valid"), FewerBacklogged,
           ~Contains(proposal_backlog'[n], p), \A s \in Nodes : ~In(updates', s, n, "Proposal", p),
           UNCHANGED <<created, validated>>
    PROVE  \A q \in Proposals : MetOnce(q)' /\ MessagesTrue(q)' /\ VotesTrue(q)' /\ DecisionsFollow(q)'
<1>1. CASE ~ok
  <2>1. msgs' = ch /\ UNCHANGED <<evaluation, decisions>>
    BY Zenon, <1>1 DEF complete_coordination
  <2>2. NoNewEvaluation /\ Grows /\ UNCHANGED peers_verified
    BY Zenon, <2>1 DEF NoNewEvaluation, Grows, evaluation, decisions, evaluating_proposal
  <2>3. FewerMessages(msgs')
    BY Zenon, <2>1
  <2>4. \A m \in Nodes, q \in Proposals :
          In(updates, m, m, "Valid", q)' => In(updates, m, m, "Valid", q) \/ q \in validated'[m]
    BY Zenon DEF Fewer
  <2> QED BY Zenon, <2>1, <2>2, <2>3, <2>4, MetOnceFrame, MessagesFrame, VotesFrame, DecisionsFrame
<1>2. CASE ok
  <2>1. /\ Become(n, "Idle", NoProposal) /\ msgs' = Broadcast(ch, n, result, p)
        /\ result = "APPLY" => Accept(n, p)
        /\ result = "REJECT" => Reject(n, p)
    BY Zenon, <1>2 DEF complete_coordination
  <2>2. /\ \A m \in Nodes, q \in Proposals :
             (q \in accepted'[m]) <=> (q \in accepted[m] \/ (m = n /\ q = p /\ result = "APPLY"))
        /\ \A m \in Nodes, q \in Proposals :
             (q \in rejected'[m]) <=> (q \in rejected[m] \/ (m = n /\ q = p /\ result = "REJECT"))
    <3>1. accepted \in [Nodes -> SUBSET Proposals] /\ rejected \in [Nodes -> SUBSET Proposals]
      BY Zenon DEF IInv, TypeOK
    <3>2. CASE result = "APPLY"
      BY ZenonT(60), <2>1, <3>1, <3>2 DEF Accept
    <3>3. CASE result = "REJECT"
      BY ZenonT(60), <2>1, <3>1, <3>3 DEF Reject
    <3> QED BY Zenon, <3>2, <3>3
  <2>3. Grows
    BY Zenon, <2>2 DEF Grows, IInv, TypeOK
  <2>4. NoNewEvaluation /\ \A m \in Nodes : peers_verified'[m] \subseteq peers_verified[m]
    BY Zenon, <2>1 DEF NoNewEvaluation, Become, evaluating_proposal, IInv, TypeOK
  <2>5. \A m \in Nodes, q \in Proposals : Decided(m, q)' <=> (Decided(m, q) \/ (m = n /\ q = p))
    BY Zenon, <2>2 DEF Decided
  <2>6. ~evaluating_proposal(n, p)'
    BY Zenon, <2>1 DEF Become, evaluating_proposal, IInv, TypeOK
  <2>7. ASSUME NEW q \in Proposals
        PROVE  MetOnce(q)'
    <3> DEFINE c == Coordinator(q)
    <3>1. c \in Nodes /\ MetOnce(q)
      BY Zenon, CoordinatorFacts DEF IInv
    <3>2. evaluating_proposal(c, q)' => evaluating_proposal(c, q)
      BY Zenon, <2>4, <3>1 DEF NoNewEvaluation
    <3>3. Known(c, q)' => Known(c, q)
      BY Zenon, <3>1, <3>2 DEF FewerBacklogged, BacklogFewer, Known
    <3>4. CASE q = p
      BY <2>5, <2>6, <3>1, <3>4, Zenon DEF MetOnce
    <3>5. CASE q # p
      <4>1. Decided(c, q)' <=> Decided(c, q)
        BY Zenon, <2>5, <3>1, <3>5
      <4> QED BY <3>1, <3>2, <3>3, <4>1, Zenon DEF MetOnce, FewerProposals, Fewer, FewerBacklogged, BacklogFewer
    <3> QED BY Zenon, <3>4, <3>5
  <2>8. ASSUME NEW q \in Proposals
        PROVE  MessagesTrue(q)'
    <3>1. Coordinator(q) \in Nodes /\ MessagesTrue(q)
      BY Zenon, CoordinatorFacts DEF IInv
    <3>2. Added(ch, msgs', n, Verifiers[p] \ {n}, result, p)
      BY <2>1, SentFacts, Zenon
    <3>3. ASSUME NEW s \in Nodes, NEW m \in Nodes, NEW t, In(msgs', s, m, t, q)
          PROVE  In(msgs, s, m, t, q) \/ (q = p /\ t = result /\ m # n)
      BY <3>2, <3>3, ZenonT(60) DEF Added, FewerMessages, Fewer
    <3>4. p \in IF result = "APPLY" THEN accepted'[n] ELSE rejected'[n]
      BY Zenon, <2>2
    <3>5. ASSUME NEW s, NEW m, m # n PROVE Tells(s, m, result, p)'
      BY Zenon, <3>4, <3>5 DEF Tells
    <3>6. ASSUME NEW s \in Nodes, NEW m \in Nodes, NEW t, In(msgs', s, m, t, q)
          PROVE  In(msgs, s, m, t, q) \/ Tells(s, m, t, q)'
      <4>1. CASE q = p /\ t = result /\ m # n
        <5>1. Tells(s, m, result, p)'
          BY Zenon, <3>5, <4>1
        <5> QED BY Zenon, <4>1, <5>1
      <4>2. In(msgs, s, m, t, q) \/ (q = p /\ t = result /\ m # n)
        BY <3>3, <3>6
      <4> QED BY Zenon, <4>1, <4>2
    <3>7. \A s, m \in Nodes : \A t : In(msgs', s, m, t, q) => In(msgs, s, m, t, q) \/ Tells(s, m, t, q)'
      BY Zenon, <3>6
    <3> QED BY Zenon, <2>3, <3>7, MessagesSent
  <2>9. \A q \in Proposals : VotesTrue(q)'
    BY <2>3, <2>4, VotesFrame, Zenon DEF Fewer
  <2>10. ASSUME NEW q \in Proposals
         PROVE  DecisionsFollow(q)'
    <3>1. Coordinator(q) \in Nodes /\ DecisionsFollow(q)
      BY Zenon, CoordinatorFacts DEF IInv
    <3> QED BY Zenon, <2>2, <3>1 DEF DecisionsFollow, Decided
  <2> QED BY Zenon, <2>7, <2>8, <2>9, <2>10
<1> QED BY Zenon, <1>1, <1>2

-----------------------------------------------------------------------------
(* The steps that call no manager. *)

Facts == \A p \in Proposals : MetOnce(p) /\ MessagesTrue(p) /\ VotesTrue(p) /\ DecisionsFollow(p)

\* A message that is handled was under way, and handling it takes it away.
LEMMA ReceiveFacts ==
    ASSUME IInv, NEW n \in Nodes, NEW s \in Nodes, NEW p, NEW t, Receive(n, s, t, p)
    PROVE  /\ In(msgs, s, n, t, p)
           /\ Pop(msgs, <<s, n>>) \in Messages
           /\ FewerMessages(Pop(msgs, <<s, n>>))
<1>1. msgs \in [Channels -> Seq(ConsensusMsg)]
  BY DEF IInv, TypeOK
<1>2. At(msgs, <<s, n>>, Msg(t, p)) /\ msgs[<<s, n>>] # <<>>
  BY DEF Receive, At
<1> QED BY <1>1, <1>2, PopFacts, Zenon DEF Messages, FewerMessages

\* The same for an update; if it was there once, it is there no more.
LEMMA UpdateFacts ==
    ASSUME IInv, NEW n \in Nodes, NEW s \in Nodes, NEW p, NEW t, Update(n, s, t, p)
    PROVE  /\ In(updates, s, n, t, p)
           /\ Pop(updates, <<s, n>>) \in Updates
           /\ \A u : Fewer(updates, Pop(updates, <<s, n>>), u)
           /\ Once(updates[<<s, n>>], Msg(t, p)) => ~In(Pop(updates, <<s, n>>), s, n, t, p)
<1>1. updates \in [Channels -> Seq(ProposalUpdate)]
  BY DEF IInv, TypeOK
<1>2. At(updates, <<s, n>>, Msg(t, p)) /\ updates[<<s, n>>] # <<>>
  BY Zenon DEF Update, At
<1> QED BY <1>1, <1>2, PopFacts DEF Updates

\* A step that leaves the queues, the backlog and the decisions as they are, or takes
\* something out of them, keeps the facts.
LEMMA QuietStep ==
    ASSUME IInv, FewerMessages(msgs'), FewerProposals(updates'), Fewer(updates, updates', "Valid"),
           FewerBacklogged, NoNewEvaluation, \A m \in Nodes : peers_verified'[m] \subseteq peers_verified[m],
           UNCHANGED historyVars
    PROVE  Facts'
<1>1. Grows /\ UNCHANGED decisions
  BY Zenon DEF Grows, historyVars, decisions
<1>2. \A m \in Nodes, q \in Proposals :
        In(updates, m, m, "Valid", q)' => In(updates, m, m, "Valid", q) \/ q \in validated'[m]
  BY Zenon DEF Fewer
<1>3. \A q \in Proposals : MetOnce(q)' /\ MessagesTrue(q)'
  BY Zenon, <1>1, MetOnceFrame, MessagesFrame
<1>4. \A q \in Proposals : VotesTrue(q)' /\ DecisionsFollow(q)'
  BY Zenon, <1>1, <1>2, VotesFrame, DecisionsFrame
<1> QED BY Zenon, <1>3, <1>4 DEF Facts

\* What the steps below cite of the variables that they leave alone.
LEMMA Unchanged ==
    /\ UNCHANGED msgs => FewerMessages(msgs')
    /\ UNCHANGED updates => FewerProposals(updates') /\ Fewer(updates, updates', "Valid")
    /\ UNCHANGED proposal_backlog => FewerBacklogged
    /\ UNCHANGED <<state, current>> => NoNewEvaluation
    /\ UNCHANGED peers_verified => \A m \in Nodes : peers_verified'[m] \subseteq peers_verified[m]
    /\ UNCHANGED historyVars => Grows
    /\ (TimeoutOnlyWhenCoordinating /\ UNCHANGED <<state, current, coordinator_timeout>>)
         => TimeoutOnlyWhenCoordinating'
<1>1. UNCHANGED msgs => FewerMessages(msgs')
  BY DEF FewerMessages, Fewer
<1>2. UNCHANGED updates => FewerProposals(updates') /\ Fewer(updates, updates', "Valid")
  BY DEF FewerProposals, Fewer
<1>3. UNCHANGED proposal_backlog => FewerBacklogged
  BY DEF FewerBacklogged, BacklogFewer
<1>4. UNCHANGED <<state, current>> => NoNewEvaluation
  BY DEF NoNewEvaluation, evaluating_proposal
<1>5. UNCHANGED historyVars => Grows
  BY DEF Grows, historyVars, decisions
<1>6. (TimeoutOnlyWhenCoordinating /\ UNCHANGED <<state, current, coordinator_timeout>>)
        => TimeoutOnlyWhenCoordinating'
  BY DEF TimeoutOnlyWhenCoordinating
<1> QED BY <1>1, <1>2, <1>3, <1>4, <1>5, <1>6

\* The steps that call no manager (timeouts, ignored and backlogged messages, counted votes,
\* verdicts passed on) preserve the invariant.
LEMMA NoCallStep ==
    ASSUME IInv, NEW n \in Nodes, NoCall(n)
    PROVE  Facts' /\ TimeoutOnlyWhenCoordinating'
<1> USE DEF engineVars, evaluation, backlogs
<1>0. TypeOK /\ TimeoutOnlyWhenCoordinating
  BY DEF IInv
<1>1. CASE MessageTimeout(n) \/ UpdateTimeout(n)
  BY Zenon, <1>0, <1>1, Unchanged, QuietStep DEF MessageTimeout, UpdateTimeout
<1>2. CASE NoneCreated(n)
  <2>1. FewerProposals(updates') /\ Fewer(updates, updates', "Valid")
    BY Zenon, <1>2, UpdateFacts DEF NoneCreated, FewerProposals
  <2>2. NoNewEvaluation
    BY <1>0, <1>2 DEF NoneCreated, NoNewEvaluation, evaluating_proposal, TypeOK
  <2>3. TimeoutOnlyWhenCoordinating'
    BY <1>0, <1>2 DEF NoneCreated, TimeoutOnlyWhenCoordinating, TypeOK
  <2> QED BY Zenon, <1>2, <2>1, <2>2, <2>3, Unchanged, QuietStep DEF NoneCreated
<1>3. ASSUME NEW p \in Proposals, NEW s \in Nodes, RequestBacklogged(n, s, p)
      PROVE  Facts' /\ TimeoutOnlyWhenCoordinating'
  <2>1. FewerMessages(msgs')
    BY <1>3, ReceiveFacts DEF RequestBacklogged
  <2> QED BY Zenon, <1>0, <1>3, <2>1, Unchanged, QuietStep DEF RequestBacklogged
<1>4. ASSUME NEW p \in Proposals, NEW s \in Nodes, MessageIgnored(n, s, p)
      PROVE  Facts' /\ TimeoutOnlyWhenCoordinating'
  <2>1. FewerMessages(msgs')
    BY Zenon, <1>4, ReceiveFacts DEF MessageIgnored
  <2> QED BY <1>0, <1>4, <2>1, Unchanged, QuietStep DEF MessageIgnored
<1>5. ASSUME NEW p \in Proposals, NEW s \in Nodes, UpdateIgnored(n, s, p)
      PROVE  Facts' /\ TimeoutOnlyWhenCoordinating'
  <2>1. FewerProposals(updates') /\ Fewer(updates, updates', "Valid")
    BY Zenon, <1>5, UpdateFacts DEF UpdateIgnored, FewerProposals
  <2> QED BY <1>0, <1>5, <2>1, Unchanged, QuietStep DEF UpdateIgnored
<1>6. ASSUME NEW p \in Proposals, NEW s \in Nodes, VerifiedCounted(n, s, p)
      PROVE  Facts' /\ TimeoutOnlyWhenCoordinating'
  <2>1. FewerMessages(msgs') /\ In(msgs, s, n, "VERIFIED", p)
    BY ZenonT(60), <1>6, ReceiveFacts DEF VerifiedCounted
  <2>2. p \in validated[s]
    BY <2>1 DEF IInv, MessagesTrue
  <2>3. UNCHANGED decisions
    BY <1>6 DEF VerifiedCounted, historyVars
  <2>4. \A q \in Proposals : MetOnce(q)' /\ MessagesTrue(q)' /\ DecisionsFollow(q)'
    BY <1>6, <2>1, <2>3, Unchanged, MetOnceFrame, MessagesFrame, DecisionsFrame DEF VerifiedCounted
  <2>5. ASSUME NEW q \in Proposals
        PROVE  VotesTrue(q)'
    BY <1>0, <1>6, <2>2 DEF IInv, TypeOK, VotesTrue, VerifiedCounted, evaluating_proposal, historyVars
  <2> QED BY <1>0, <1>6, <2>4, <2>5, Unchanged DEF VerifiedCounted, Facts
<1>7. ASSUME NEW p \in Proposals, NEW s \in Nodes, ProposalBacklogged(n, s, p)
      PROVE  Facts' /\ TimeoutOnlyWhenCoordinating'
  <2>1. /\ In(updates, s, n, "Proposal", p)
        /\ FewerProposals(updates') /\ Fewer(updates, updates', "Valid")
        /\ Once(updates[<<s, n>>], Msg("Proposal", p)) => ~In(updates', s, n, "Proposal", p)
    BY <1>7, UpdateFacts, Zenon DEF ProposalBacklogged, FewerProposals
  <2>2. UNCHANGED decisions /\ \A m \in Nodes, q \in Proposals : Decided(m, q)' <=> Decided(m, q)
    BY <1>7, Zenon DEF ProposalBacklogged, historyVars, Decided, decisions
  <2>3. \A q \in Proposals : MessagesTrue(q)' /\ DecisionsFollow(q)'
    BY <1>7, <2>2, Unchanged, MessagesFrame, DecisionsFrame, Zenon DEF ProposalBacklogged
  <2>4. \A q \in Proposals : VotesTrue(q)'
    BY <1>7, <2>1, Unchanged, VotesFrame, Zenon DEF ProposalBacklogged, Fewer
  <2>5. BacklogAdded(proposal_backlog, proposal_backlog', n, p)
    BY <1>0, <1>7, WithFacts, Zenon DEF ProposalBacklogged, TypeOK, Backlogs
  <2>6. ASSUME NEW q \in Proposals
        PROVE  MetOnce(q)'
    <3> DEFINE c == Coordinator(q)
    <3>1. c \in Nodes /\ MetOnce(q)
      BY CoordinatorFacts DEF IInv
    <3>2. (evaluating_proposal(c, q)' <=> evaluating_proposal(c, q)) /\ UNCHANGED created
      BY Zenon, <1>7 DEF ProposalBacklogged, evaluating_proposal, historyVars
    <3>3. CASE c = n /\ q = p
      <4>1. \A t \in Nodes : ~In(updates', t, n, "Proposal", p)
        BY <2>1, <3>1, <3>3, Zenon DEF MetOnce, FewerProposals, Fewer
      <4>2. ~Contains(proposal_backlog[n], p) /\ ~evaluating_proposal(n, p)
        BY Zenon, <2>1, <3>1, <3>3 DEF MetOnce, Known
      <4> QED BY Zenon, <2>1, <2>2, <2>5, <3>1, <3>2, <3>3, <4>1, <4>2 DEF MetOnce, BacklogAdded
    <3>4. CASE ~(c = n /\ q = p)
      <4>1. /\ Contains(proposal_backlog'[c], q) => Contains(proposal_backlog[c], q)
            /\ Contains(proposal_backlog[c], q) /\ Once(proposal_backlog[c], q) => Once(proposal_backlog'[c], q)
        BY Zenon, <2>5, <3>1, <3>4 DEF BacklogAdded
      <4>2. Known(c, q)' => Known(c, q)
        BY Zenon, <3>2, <4>1 DEF Known
      <4> QED BY <2>1, <2>2, <3>1, <3>2, <4>1, <4>2, Zenon DEF MetOnce, FewerProposals, Fewer
    <3> QED BY <3>3, <3>4
  <2> QED BY <1>0, <1>7, <2>3, <2>4, <2>6, Unchanged, Zenon DEF ProposalBacklogged, Facts
<1>8. ASSUME NEW p \in Proposals, ProposalValid(n, p)
      PROVE  Facts' /\ TimeoutOnlyWhenCoordinating'
  <2>1. /\ In(updates, n, n, "Valid", p)
        /\ FewerProposals(updates') /\ Fewer(updates, updates', "Valid")
    BY Zenon, <1>8, UpdateFacts DEF ProposalValid, FewerProposals
  <2>2. p \in validated[n]
    BY Zenon, <2>1 DEF IInv, VotesTrue
  <2>3. UNCHANGED decisions
    BY <1>8 DEF ProposalValid, historyVars
  <2>4. \A q \in Proposals : MetOnce(q)' /\ DecisionsFollow(q)'
    BY <1>8, <2>1, <2>3, Unchanged, MetOnceFrame, DecisionsFrame DEF ProposalValid
  <2>5. \A s, m \in Nodes : \A t, q :
          In(msgs', s, m, t, q) =>
            \/ In(msgs, s, m, t, q)
            \/ t = "REQUEST"
            \/ s = n /\ m = Coordinator(p) /\ t = "VERIFIED" /\ q = p
    <3>1. msgs \in Messages
      BY <1>0 DEF TypeOK, Messages
    <3>2. \/ Added(msgs, msgs', n, Verifiers[p] \ {n}, "REQUEST", p)
          \/ Added(msgs, msgs', n, {Coordinator(p)}, "VERIFIED", p)
      BY Zenon, <1>8, <3>1, SentFacts DEF ProposalValid
    <3>3. CASE Added(msgs, msgs', n, Verifiers[p] \ {n}, "REQUEST", p)
      BY Zenon, <3>3 DEF Added
    <3>4. CASE Added(msgs, msgs', n, {Coordinator(p)}, "VERIFIED", p)
      BY <3>4 DEF Added
    <3> QED BY Zenon, <3>2, <3>3, <3>4
  <2>6. \A q \in Proposals : MessagesTrue(q)'
    <3>1. UNCHANGED validated
      BY <1>8 DEF ProposalValid, historyVars
    <3>2. \A s, m : Tells(s, m, "REQUEST", p)' /\ Tells(n, Coordinator(p), "VERIFIED", p)'
      BY <2>2, <3>1 DEF Tells
    <3>3. \A s, m, q : Tells(s, m, "REQUEST", q)'
      BY DEF Tells
    <3>4. \A s, m \in Nodes : \A t, q : In(msgs', s, m, t, q) => In(msgs, s, m, t, q) \/ Tells(s, m, t, q)'
      BY Zenon, <2>5, <3>2, <3>3
    <3>5. Grows
      BY Zenon, <1>8, Unchanged DEF ProposalValid
    <3> QED BY <3>4, <3>5, MessagesSent
  <2>7. \A m \in Nodes : peers_verified'[m] \subseteq peers_verified[m] \cup (IF m = n THEN {n} ELSE {})
    BY <1>0, <1>8 DEF ProposalValid, TypeOK
  <2>8. ASSUME NEW q \in Proposals
        PROVE  VotesTrue(q)'
    <3> SUFFICES ASSUME NEW m \in Nodes
                 PROVE  /\ evaluating_proposal(m, q)' => \A v \in peers_verified'[m] : q \in validated'[v]
                        /\ In(updates, m, m, "Valid", q)' => q \in validated'[m]
      BY DEF VotesTrue
    <3>1. VotesTrue(q) /\ UNCHANGED validated
      BY <1>8 DEF IInv, ProposalValid, historyVars
    <3>2. evaluating_proposal(n, p) /\ (evaluating_proposal(m, q)' <=> evaluating_proposal(m, q))
      BY Zenon, <1>8 DEF ProposalValid, evaluating_proposal
    <3>3. evaluating_proposal(m, q) /\ m = n => q = p
      BY <3>2 DEF evaluating_proposal
    <3> QED BY <2>1, <2>2, <2>7, <3>1, <3>2, <3>3, Zenon DEF VotesTrue, Fewer
  <2> QED BY <1>0, <1>8, <2>4, <2>6, <2>8, Unchanged DEF ProposalValid, Facts
<1>9. ASSUME NEW p \in Proposals, InvalidAtVerifier(n, p)
      PROVE  Facts' /\ TimeoutOnlyWhenCoordinating'
  <2>1. FewerProposals(updates') /\ Fewer(updates, updates', "Valid")
    BY Zenon, <1>9, UpdateFacts DEF InvalidAtVerifier, FewerProposals
  <2>2. UNCHANGED decisions
    BY <1>9 DEF InvalidAtVerifier, historyVars
  <2>3. \A q \in Proposals : MetOnce(q)' /\ DecisionsFollow(q)'
    BY Zenon, <1>9, <2>1, <2>2, Unchanged, MetOnceFrame, DecisionsFrame DEF InvalidAtVerifier
  <2>4. \A q \in Proposals : VotesTrue(q)'
    BY <1>9, <2>1, Unchanged, VotesFrame, Zenon DEF InvalidAtVerifier, Fewer
  <2>5. Added(msgs, msgs', n, {Coordinator(p)}, "FAILED", p)
    <3>1. msgs \in Messages
      BY <1>0 DEF TypeOK, Messages
    <3> QED BY <1>9, <3>1, SentFacts, Zenon DEF InvalidAtVerifier
  <2>6. \A s, m \in Nodes : \A t, q :
          In(msgs', s, m, t, q) => In(msgs, s, m, t, q) \/ (m = Coordinator(p) /\ t = "FAILED" /\ q = p)
    BY <2>5 DEF Added
  <2>7. \A q \in Proposals : MessagesTrue(q)'
    <3>1. \A s : Tells(s, Coordinator(p), "FAILED", p)'
      BY DEF Tells
    <3>2. \A s, m \in Nodes : \A t, q : In(msgs', s, m, t, q) => In(msgs, s, m, t, q) \/ Tells(s, m, t, q)'
      BY Zenon, <2>6, <3>1
    <3>3. Grows
      BY Zenon, <1>9, Unchanged DEF InvalidAtVerifier
    <3> QED BY <3>2, <3>3, MessagesSent
  <2> QED BY Zenon, <1>0, <1>9, <2>3, <2>4, <2>7, Unchanged DEF InvalidAtVerifier, Facts
<1> QED BY <1>1, <1>2, <1>3, <1>4, <1>5, <1>6, <1>7, <1>8, <1>9 DEF NoCall

-----------------------------------------------------------------------------
(* The steps that call the manager. *)

\* A proposal that its coordinator takes from the backlog is nowhere else.
LEMMA TakenFromBacklog ==
    ASSUME IInv, NEW n \in Nodes, NEW p \in Proposals, NEW j \in DOMAIN proposal_backlog[n],
           p = proposal_backlog[n][j], proposal_backlog' = Without(proposal_backlog, n, j)
    PROVE  /\ FewerBacklogged
           /\ n = Coordinator(p) =>
                /\ p \in created /\ ~Decided(n, p) /\ ~evaluating_proposal(n, p)
                /\ ~Contains(proposal_backlog'[n], p)
                /\ \A s \in Nodes : ~In(updates, s, n, "Proposal", p)
<1>1. proposal_backlog \in Backlogs /\ MetOnce(p)
  BY DEF IInv, TypeOK, Backlogs
<1>2. /\ FewerBacklogged /\ Contains(proposal_backlog[n], p)
      /\ Once(proposal_backlog[n], p) => ~Contains(proposal_backlog'[n], p)
  BY <1>1, WithoutFacts DEF FewerBacklogged
<1> QED BY <1>1, <1>2, Zenon DEF MetOnce, Known

\* So is one that it takes from a queue.
LEMMA TakenFromQueue ==
    ASSUME IInv, NEW n \in Nodes, NEW s \in Nodes, NEW p \in Proposals,
           Update(n, s, "Proposal", p), n = Coordinator(p)
    PROVE  /\ p \in created /\ ~Decided(n, p) /\ ~Contains(proposal_backlog[n], p)
           /\ \A t \in Nodes : ~In(Pop(updates, <<s, n>>), t, n, "Proposal", p)
<1>1. /\ In(updates, s, n, "Proposal", p) /\ Fewer(updates, Pop(updates, <<s, n>>), "Proposal")
      /\ Once(updates[<<s, n>>], Msg("Proposal", p)) => ~In(Pop(updates, <<s, n>>), s, n, "Proposal", p)
  BY Zenon, UpdateFacts
<1>2. MetOnce(p)
  BY DEF IInv
<1> QED BY <1>1, <1>2, Zenon DEF MetOnce, Known, Fewer

\* And one that it evaluates.
LEMMA UnderEvaluation ==
    ASSUME IInv, NEW n \in Nodes, NEW p \in Proposals, evaluating_proposal(n, p), n = Coordinator(p)
    PROVE  /\ p \in created /\ ~Decided(n, p) /\ ~Contains(proposal_backlog[n], p)
           /\ \A s \in Nodes : ~In(updates, s, n, "Proposal", p)
<1>1. MetOnce(p)
  BY DEF IInv
<1> QED BY Zenon, <1>1 DEF MetOnce, Known

\* The timer stops with the evaluation that complete_coordination ends.
LEMMA CompleteTimer ==
    ASSUME IInv, NEW n \in Nodes, NEW p, NEW result, NEW ok \in BOOLEAN, NEW ch,
           complete_coordination(n, p, result, ok, ch)
    PROVE  TimeoutOnlyWhenCoordinating'
<1>1. CASE ok
  <2>1. /\ coordinator_timeout' = [coordinator_timeout EXCEPT ![n] = "inactive"]
        /\ state' = [state EXCEPT ![n] = "Idle"]
        /\ current' = [current EXCEPT ![n] = NoProposal]
    BY <1>1 DEF complete_coordination, Become
  <2>2. ASSUME NEW m \in Nodes, m # n
        PROVE  /\ coordinator_timeout'[m] = coordinator_timeout[m]
               /\ state'[m] = state[m] /\ current'[m] = current[m]
    BY <2>1, <2>2 DEF IInv, TypeOK
  <2>3. coordinator_timeout'[n] = "inactive"
    BY <2>1 DEF IInv, TypeOK
  <2> QED BY Zenon, <2>2, <2>3 DEF IInv, TimeoutOnlyWhenCoordinating
<1>2. CASE ~ok
  BY Zenon, <1>2 DEF complete_coordination, evaluation, IInv, TimeoutOnlyWhenCoordinating
<1> QED BY <1>1, <1>2

\* The coordinator completes a proposal while it evaluates it.
LEMMA CompleteEvaluated ==
    ASSUME IInv, NEW n \in Nodes, NEW p \in Proposals, NEW result \in {"APPLY", "REJECT"},
           NEW ok \in BOOLEAN, NEW ch \in Messages, FewerMessages(ch),
           complete_coordination(n, p, result, ok, ch),
           n = Coordinator(p), evaluating_proposal(n, p),
           result = "APPLY" => \A v \in Verifiers[p] : p \in validated[v],
           FewerProposals(updates'), Fewer(updates, updates', "Valid"),
           UNCHANGED <<proposal_backlog, created, validated>>
    PROVE  Facts' /\ TimeoutOnlyWhenCoordinating'
<1>1. /\ p \in created /\ ~Decided(n, p) /\ ~Contains(proposal_backlog'[n], p)
      /\ \A s \in Nodes : ~In(updates', s, n, "Proposal", p)
  BY UnderEvaluation, Zenon DEF FewerProposals, Fewer
<1>2. FewerBacklogged
  BY Zenon, Unchanged
<1> QED BY <1>1, <1>2, CompleteStep, CompleteTimer, Zenon DEF Facts

\* The steps in which check_proposal answers (a verification request, from the channel or the
\* backlog, and start_coordination) preserve it.
LEMMA CheckCallStep ==
    ASSUME IInv, NEW n \in Nodes, NEW p \in Proposals, NEW r, CheckCall(n, p, r)
    PROVE  Facts' /\ TimeoutOnlyWhenCoordinating'
<1>0. /\ TypeOK /\ TimeoutOnlyWhenCoordinating /\ updates \in Updates
      /\ \A u : Fewer(updates, updates, u)
  BY DEF IInv, TypeOK, Updates, Fewer
<1>1. CASE HandleBackloggedRequest(n, p, r)
  <2>1. PICK j \in DOMAIN proposal_backlog[n] :
          p = proposal_backlog[n][j] /\ proposal_backlog' = Without(proposal_backlog, n, j)
    BY <1>1 DEF HandleBackloggedRequest
  <2>2. state[n] = "Idle"
    BY Zenon, <1>1 DEF HandleBackloggedRequest, BackloggedRequest
  <2>3. CASE r = "error"
    <3>1. UNCHANGED historyVars /\ UNCHANGED <<msgs, updates, state, current, peers_verified, coordinator_timeout>>
      BY <1>1, <2>3 DEF HandleBackloggedRequest, evaluation, historyVars
    <3>2. FewerBacklogged
      BY Zenon, <2>1, TakenFromBacklog
    <3> QED BY Zenon, <1>0, <3>1, <3>2, Unchanged, QuietStep
  <2>4. CASE r # "error"
    <3>1. /\ Become(n, "EvaluatingProposal", p) /\ updates' = Verdict(updates, n, p, r) /\ Validate(n, p, r)
          /\ UNCHANGED <<coordinator_timeout, msgs, created, decisions>>
      BY <1>1, <2>4 DEF HandleBackloggedRequest
    <3>2. Facts'
      BY Zenon, <1>0, <2>1, <3>1, TakenFromBacklog, EvaluateStep, Unchanged DEF FewerProposals, Facts
    <3>3. TimeoutOnlyWhenCoordinating'
      BY <1>0, <2>2, <3>1 DEF TimeoutOnlyWhenCoordinating, Become, TypeOK
    <3> QED BY <3>2, <3>3
  <2> QED BY <2>3, <2>4
<1>2. ASSUME NEW s \in Nodes, RequestEvaluated(n, s, p, r)
      PROVE  Facts' /\ TimeoutOnlyWhenCoordinating'
  <2>1. FewerMessages(msgs')
    BY Zenon, <1>2, ReceiveFacts DEF RequestEvaluated
  <2>2. CASE r = "error"
    <3>1. /\ UNCHANGED historyVars
          /\ UNCHANGED <<proposal_backlog, updates, state, current, peers_verified, coordinator_timeout>>
      BY Zenon, <1>2, <2>2 DEF RequestEvaluated, evaluation, historyVars
    <3> QED BY Zenon, <1>0, <2>1, <3>1, Unchanged, QuietStep
  <2>3. CASE r # "error"
    <3>1. /\ Become(n, "EvaluatingProposal", p) /\ updates' = Verdict(updates, n, p, r) /\ Validate(n, p, r)
          /\ UNCHANGED <<coordinator_timeout, created, decisions>>
      BY Zenon, <1>2, <2>3 DEF RequestEvaluated
    <3>2. PICK j \in DOMAIN proposal_backlog[n] :
            p = proposal_backlog[n][j] /\ proposal_backlog' = Without(proposal_backlog, n, j)
      BY Zenon, <1>2, <2>3 DEF RequestEvaluated
    <3>3. Facts'
      BY <1>0, <2>1, <3>1, <3>2, TakenFromBacklog, EvaluateStep, Zenon DEF FewerProposals, Facts
    <3>4. coordinator_timeout[n] = "inactive"
      BY Zenon, <1>0, <1>2, <3>2, TakenFromBacklog
         DEF RequestEvaluated, EvaluatingOther, evaluating_proposal, TimeoutOnlyWhenCoordinating
    <3>5. TimeoutOnlyWhenCoordinating'
      BY <1>0, <3>1, <3>4 DEF TimeoutOnlyWhenCoordinating, Become, TypeOK
    <3> QED BY <3>3, <3>5
  <2> QED BY <2>2, <2>3
<1>3. ASSUME NEW ch \in Updates, start_coordination(n, p, r, ch), n = Coordinator(p), FewerBacklogged,
             FewerProposals(ch), Fewer(updates, ch, "Valid"), UNCHANGED <<msgs, created, decisions>>,
             p \in created, ~Decided(n, p), ~Contains(proposal_backlog'[n], p),
             \A s \in Nodes : ~In(ch, s, n, "Proposal", p)
      PROVE  Facts' /\ TimeoutOnlyWhenCoordinating'
  <2>1. Facts'
    BY Zenon, <1>3, EvaluateStep, Unchanged DEF start_coordination, Facts
  <2>2. TimeoutOnlyWhenCoordinating'
    BY <1>0, <1>3 DEF start_coordination, TimeoutOnlyWhenCoordinating, Become, TypeOK
  <2> QED BY <2>1, <2>2
<1>4. CASE CoordinateNext(n, p, r)
  <2>1. PICK j \in DOMAIN proposal_backlog[n] :
          /\ p = proposal_backlog[n][j] /\ proposal_backlog' = Without(proposal_backlog, n, j)
          /\ Coordinator(p) = n
    BY Zenon, <1>4 DEF CoordinateNext, TakeNextProposal, NextToCoordinate
  <2>2. start_coordination(n, p, r, updates) /\ UNCHANGED <<msgs, created, decisions>>
    BY Zenon, <1>4 DEF CoordinateNext, TakeNextProposal
  <2> QED BY Zenon, <1>0, <1>3, <2>1, <2>2, TakenFromBacklog DEF FewerProposals
<1>5. ASSUME NEW s \in Nodes, CoordinateProposal(n, s, p, r)
      PROVE  Facts' /\ TimeoutOnlyWhenCoordinating'
  <2>1. /\ start_coordination(n, p, r, Pop(updates, <<s, n>>)) /\ UNCHANGED <<msgs, created, decisions>>
        /\ UNCHANGED proposal_backlog /\ Update(n, s, "Proposal", p) /\ n = Coordinator(p)
    BY <1>5 DEF CoordinateProposal, ProposalToCoordinate, backlogs
  <2>2. Pop(updates, <<s, n>>) \in Updates /\ \A u : Fewer(updates, Pop(updates, <<s, n>>), u)
    BY Zenon, <2>1, UpdateFacts
  <2> QED BY Zenon, <1>3, <2>1, <2>2, TakenFromQueue, Unchanged DEF FewerProposals
<1> QED BY Zenon, <1>1, <1>2, <1>4, <1>5 DEF CheckCall

\* A verifier that follows its coordinator's decision keeps the facts.
LEMMA FollowStep ==
    ASSUME IInv, NEW n \in Nodes, NEW p \in Proposals, n # Coordinator(p), FewerMessages(msgs'),
           \/ Accept(n, p) /\ p \in accepted[Coordinator(p)]
           \/ Reject(n, p) /\ p \in rejected[Coordinator(p)],
           NoNewEvaluation, \A m \in Nodes : peers_verified'[m] \subseteq peers_verified[m],
           UNCHANGED <<proposal_backlog, updates, created, validated>>
    PROVE  Facts'
<1>1. /\ \A m \in Nodes, q \in Proposals :
           q \in accepted'[m] => q \in accepted[m] \/ (m = n /\ q = p /\ p \in accepted[Coordinator(p)])
      /\ \A m \in Nodes, q \in Proposals :
           q \in rejected'[m] => q \in rejected[m] \/ (m = n /\ q = p /\ p \in rejected[Coordinator(p)])
      /\ Grows
  <2>1. CASE Accept(n, p) /\ p \in accepted[Coordinator(p)]
    BY Zenon, <2>1 DEF Accept, IInv, TypeOK, Grows
  <2>2. CASE Reject(n, p) /\ p \in rejected[Coordinator(p)]
    BY Zenon, <2>2 DEF Reject, IInv, TypeOK, Grows
  <2> QED BY <2>1, <2>2, Zenon
<1>2. ASSUME NEW q \in Proposals
      PROVE  MetOnce(q)'
  <2> DEFINE c == Coordinator(q)
  <2>1. c \in Nodes /\ MetOnce(q)
    BY Zenon, CoordinatorFacts DEF IInv
  <2>2. Decided(c, q)' <=> Decided(c, q)
    BY Zenon, <1>1, <2>1 DEF Decided, Grows
  <2>3. evaluating_proposal(c, q)' => evaluating_proposal(c, q)
    BY Zenon, <2>1 DEF NoNewEvaluation
  <2>4. Known(c, q)' => Known(c, q)
    BY Zenon, <2>3 DEF Known
  <2> QED BY Zenon, <2>1, <2>2, <2>3, <2>4 DEF MetOnce
<1>3. \A q \in Proposals : MessagesTrue(q)' /\ VotesTrue(q)'
  BY Zenon, <1>1, MessagesFrame, VotesFrame
<1>4. ASSUME NEW q \in Proposals
      PROVE  DecisionsFollow(q)'
  <2>1. Coordinator(q) \in Nodes /\ DecisionsFollow(q)
    BY Zenon, CoordinatorFacts DEF IInv
  <2> QED BY ZenonT(60), <1>1, <2>1 DEF DecisionsFollow, Grows
<1> QED BY Zenon, <1>2, <1>3, <1>4 DEF Facts

\* The steps that call accept_proposal (the last vote, a RESULT APPLY) preserve it.
LEMMA AcceptCallStep ==
    ASSUME IInv, NEW n \in Nodes, NEW p \in Proposals, NEW ok \in BOOLEAN, AcceptCall(n, p, ok)
    PROVE  Facts' /\ TimeoutOnlyWhenCoordinating'
<1>0. TypeOK /\ TimeoutOnlyWhenCoordinating
  BY DEF IInv
<1>1. ASSUME NEW s \in Nodes, VerifiedByAll(n, s, p, ok)
      PROVE  Facts' /\ TimeoutOnlyWhenCoordinating'
  <2>1. /\ In(msgs, s, n, "VERIFIED", p) /\ Pop(msgs, <<s, n>>) \in Messages
        /\ FewerMessages(Pop(msgs, <<s, n>>))
    BY <1>1, ReceiveFacts DEF VerifiedByAll
  <2>2. n = Coordinator(p) /\ p \in validated[s]
    BY Zenon, <2>1 DEF IInv, MessagesTrue
  <2>3. evaluating_proposal(n, p) /\ UNCHANGED <<proposal_backlog, updates, created, validated>>
    BY <1>1 DEF VerifiedByAll, backlogs
  <2>4. CASE ok
    <3>1. complete_coordination(n, p, "APPLY", TRUE, Pop(msgs, <<s, n>>))
      BY <1>1, <2>4, Zenon DEF VerifiedByAll
    <3>2. \A v \in Verifiers[p] : p \in validated[v]
      BY Zenon, <1>1, <2>2, <2>3 DEF VerifiedByAll, AllVerified, IInv, VotesTrue
    <3> QED BY <2>1, <2>2, <2>3, <3>1, <3>2, CompleteEvaluated, Unchanged, Zenon
  <2>5. CASE ~ok
    <3>1. /\ peers_verified' = [peers_verified EXCEPT ![n] = @ \cup {s}]
          /\ msgs' = Pop(msgs, <<s, n>>) /\ UNCHANGED <<state, current, coordinator_timeout, decisions>>
      BY <1>1, <2>5 DEF VerifiedByAll
    <3>2. Grows
      BY Zenon, <2>3, <3>1 DEF Grows, decisions
    <3>3. \A q \in Proposals : MetOnce(q)' /\ MessagesTrue(q)' /\ DecisionsFollow(q)'
      BY ZenonT(60), <2>1, <2>3, <3>1, <3>2, Unchanged, MetOnceFrame, MessagesFrame, DecisionsFrame
    <3>4. ASSUME NEW q \in Proposals
          PROVE  VotesTrue(q)'
      BY <1>0, <2>2, <2>3, <3>1 DEF IInv, TypeOK, VotesTrue, evaluating_proposal
    <3> QED BY <1>0, <3>1, <3>3, <3>4, Unchanged DEF Facts
  <2> QED BY <2>4, <2>5
<1>2. ASSUME NEW s \in Nodes, ApplyResult(n, s, p, ok)
      PROVE  Facts' /\ TimeoutOnlyWhenCoordinating'
  <2>1. In(msgs, s, n, "APPLY", p) /\ FewerMessages(msgs')
    BY <1>2, ReceiveFacts DEF ApplyResult
  <2>2. n # Coordinator(p) /\ p \in accepted[Coordinator(p)]
    BY Zenon, <2>1 DEF IInv, MessagesTrue
  <2>3. CASE ok
    <3>1. /\ Become(n, "Idle", NoProposal) /\ Accept(n, p) /\ evaluating_proposal(n, p)
          /\ UNCHANGED <<coordinator_timeout, proposal_backlog, updates, created, validated>>
      BY <1>2, <2>3 DEF ApplyResult, backlogs
    <3>2. NoNewEvaluation /\ \A m \in Nodes : peers_verified'[m] \subseteq peers_verified[m]
      BY <1>0, <3>1 DEF NoNewEvaluation, Become, evaluating_proposal, TypeOK
    <3>3. TimeoutOnlyWhenCoordinating'
      BY <1>0, <2>2, <3>1 DEF TimeoutOnlyWhenCoordinating, Become, evaluating_proposal, TypeOK
    <3> QED BY Zenon, <2>1, <2>2, <3>1, <3>2, <3>3, FollowStep
  <2>4. CASE ~ok
    <3>1. /\ UNCHANGED historyVars
          /\ UNCHANGED <<proposal_backlog, updates, state, current, peers_verified, coordinator_timeout>>
      BY <1>2, <2>4 DEF ApplyResult, evaluation, historyVars, backlogs
    <3> QED BY Zenon, <1>0, <2>1, <3>1, Unchanged, QuietStep
  <2> QED BY <2>3, <2>4
<1> QED BY <1>1, <1>2 DEF AcceptCall

\* The steps that call reject_proposal (timeout, invalid, a failed vote, a RESULT REJECT)
\* preserve it.
LEMMA RejectCallStep ==
    ASSUME IInv, NEW n \in Nodes, NEW p \in Proposals, NEW ok \in BOOLEAN, RejectCall(n, p, ok)
    PROVE  Facts' /\ TimeoutOnlyWhenCoordinating'
<1>0. /\ TypeOK /\ TimeoutOnlyWhenCoordinating
      /\ msgs \in Messages /\ FewerMessages(msgs)
  BY DEF IInv, TypeOK, Messages, FewerMessages, Fewer
<1>1. CASE AbortTimedOut(n, p, ok)
  <2>1. evaluating_proposal(n, p) /\ n = Coordinator(p)
    BY Zenon, <1>0, <1>1 DEF AbortTimedOut, TimedOut, evaluating_proposal, TimeoutOnlyWhenCoordinating
  <2>2. /\ complete_coordination(n, p, "REJECT", ok, msgs)
        /\ UNCHANGED <<proposal_backlog, updates, created, validated>>
    BY <1>1 DEF AbortTimedOut, backlogs
  <2> QED BY Zenon, <1>0, <2>1, <2>2, CompleteEvaluated, Unchanged
<1>2. CASE InvalidAtCoordinator(n, p, ok)
  <2>1. FewerProposals(updates') /\ Fewer(updates, updates', "Valid")
    BY Zenon, <1>2, UpdateFacts DEF InvalidAtCoordinator, FewerProposals
  <2>2. /\ complete_coordination(n, p, "REJECT", ok, msgs) /\ evaluating_proposal(n, p) /\ n = Coordinator(p)
        /\ UNCHANGED <<proposal_backlog, created, validated>>
    BY <1>2 DEF InvalidAtCoordinator, backlogs
  <2> QED BY <1>0, <2>1, <2>2, CompleteEvaluated, Zenon
<1>3. ASSUME NEW s \in Nodes, FailedByPeer(n, s, p, ok)
      PROVE  Facts' /\ TimeoutOnlyWhenCoordinating'
  <2>1. /\ In(msgs, s, n, "FAILED", p) /\ Pop(msgs, <<s, n>>) \in Messages
        /\ FewerMessages(Pop(msgs, <<s, n>>))
    BY <1>3, ReceiveFacts DEF FailedByPeer
  <2>2. n = Coordinator(p)
    BY Zenon, <2>1 DEF IInv, MessagesTrue
  <2>3. /\ complete_coordination(n, p, "REJECT", ok, Pop(msgs, <<s, n>>)) /\ evaluating_proposal(n, p)
        /\ UNCHANGED <<proposal_backlog, updates, created, validated>>
    BY <1>3 DEF FailedByPeer, backlogs
  <2> QED BY Zenon, <2>1, <2>2, <2>3, CompleteEvaluated, Unchanged
<1>4. ASSUME NEW s \in Nodes, RejectResult(n, s, p, ok)
      PROVE  Facts' /\ TimeoutOnlyWhenCoordinating'
  <2>1. In(msgs, s, n, "REJECT", p) /\ FewerMessages(msgs')
    BY <1>4, ReceiveFacts DEF RejectResult
  <2>2. n # Coordinator(p) /\ p \in rejected[Coordinator(p)]
    BY Zenon, <2>1 DEF IInv, MessagesTrue
  <2>3. UNCHANGED <<coordinator_timeout, proposal_backlog, updates, created, validated>>
    BY <1>4 DEF RejectResult, backlogs
  <2>4. /\ NoNewEvaluation /\ \A m \in Nodes : peers_verified'[m] \subseteq peers_verified[m]
        /\ TimeoutOnlyWhenCoordinating'
    <3>1. CASE ok /\ evaluating_proposal(n, p)
      <4>1. Become(n, "Idle", NoProposal)
        BY <1>4, <3>1 DEF RejectResult
      <4>2. NoNewEvaluation /\ \A m \in Nodes : peers_verified'[m] \subseteq peers_verified[m]
        BY <1>0, <4>1 DEF NoNewEvaluation, Become, evaluating_proposal, TypeOK
      <4>3. TimeoutOnlyWhenCoordinating'
        BY <1>0, <2>2, <2>3, <3>1, <4>1 DEF TimeoutOnlyWhenCoordinating, Become, evaluating_proposal, TypeOK
      <4> QED BY Zenon, <4>2, <4>3
    <3>2. CASE ~(ok /\ evaluating_proposal(n, p))
      <4>1. UNCHANGED <<state, current, peers_verified>>
        BY <1>4, <3>2 DEF RejectResult, evaluation
      <4> QED BY Zenon, <1>0, <2>3, <4>1, Unchanged
    <3> QED BY <3>1, <3>2
  <2>5. CASE ok
    <3>1. Reject(n, p)
      BY <1>4, <2>5 DEF RejectResult
    <3> QED BY Zenon, <2>1, <2>2, <2>3, <2>4, <3>1, FollowStep
  <2>6. CASE ~ok
    <3>1. UNCHANGED historyVars
      BY <1>4, <2>3, <2>6 DEF RejectResult, historyVars
    <3> QED BY Zenon, <2>1, <2>3, <2>4, <3>1, QuietStep, Unchanged
  <2> QED BY <2>5, <2>6
<1> QED BY <1>1, <1>2, <1>3, <1>4 DEF RejectCall

\* start_coordination, when check_proposal fails and the proposal is rejected, preserves it.
LEMMA CheckRejectCallStep ==
    ASSUME IInv, NEW n \in Nodes, NEW p \in Proposals, NEW ok \in BOOLEAN, CheckRejectCall(n, p, ok)
    PROVE  Facts' /\ TimeoutOnlyWhenCoordinating'
<1>0. msgs \in Messages /\ FewerMessages(msgs)
  BY DEF IInv, TypeOK, Messages, FewerMessages, Fewer
<1>1. CASE CoordinateNextFails(n, p, ok)
  <2>1. PICK j \in DOMAIN proposal_backlog[n] :
          /\ p = proposal_backlog[n][j] /\ proposal_backlog' = Without(proposal_backlog, n, j)
          /\ Coordinator(p) = n
    BY ZenonT(60), <1>1 DEF CoordinateNextFails, TakeNextProposal, NextToCoordinate
  <2>2. complete_coordination(n, p, "REJECT", ok, msgs) /\ UNCHANGED <<updates, created, validated>>
    BY <1>1 DEF CoordinateNextFails, TakeNextProposal
  <2>3. /\ FewerBacklogged /\ n = Coordinator(p) /\ p \in created /\ ~Decided(n, p)
        /\ ~Contains(proposal_backlog'[n], p)
        /\ \A s \in Nodes : ~In(updates', s, n, "Proposal", p)
    BY Zenon, <2>1, <2>2, TakenFromBacklog
  <2>4. FewerProposals(updates') /\ Fewer(updates, updates', "Valid")
    BY Zenon, <2>2, Unchanged
  <2>5. Facts'
    BY <1>0, <2>2, <2>3, <2>4, CompleteStep, Zenon DEF Facts
  <2> QED BY <2>2, <2>5, CompleteTimer
<1>2. ASSUME NEW s \in Nodes, CoordinateProposalFails(n, s, p, ok)
      PROVE  Facts' /\ TimeoutOnlyWhenCoordinating'
  <2>1. /\ complete_coordination(n, p, "REJECT", ok, msgs) /\ updates' = Pop(updates, <<s, n>>)
        /\ UNCHANGED <<proposal_backlog, created, validated>>
        /\ Update(n, s, "Proposal", p) /\ n = Coordinator(p)
    BY <1>2 DEF CoordinateProposalFails, ProposalToCoordinate, backlogs
  <2>2. FewerProposals(updates') /\ Fewer(updates, updates', "Valid")
    BY <2>1, UpdateFacts, Zenon DEF FewerProposals
  <2>3. /\ p \in created /\ ~Decided(n, p) /\ ~Contains(proposal_backlog'[n], p)
        /\ \A t \in Nodes : ~In(updates', t, n, "Proposal", p)
    BY <2>1, TakenFromQueue
  <2>4. Facts'
    BY <1>0, <2>1, <2>2, <2>3, CompleteStep, Unchanged, Zenon DEF Facts
  <2> QED BY <2>1, <2>4, CompleteTimer
<1> QED BY <1>1, <1>2 DEF CheckRejectCall

-----------------------------------------------------------------------------
(* create_proposal and the environment. *)

\* A new proposal, sent by n to a set of nodes, reaches its coordinator at most once.
LEMMA NewProposalStep ==
    ASSUME IInv, NEW n \in Nodes, NEW p \in Proposals, p \notin created, created' = created \cup {p},
           \A s, m \in Nodes : \A q :
             In(updates', s, m, "Proposal", q) => In(updates, s, m, "Proposal", q) \/ (s = n /\ q = p),
           \A s, m \in Nodes : \A q :
             q # p /\ Once(updates[<<s, m>>], Msg("Proposal", q)) => Once(updates'[<<s, m>>], Msg("Proposal", q)),
           ~In(updates, n, Coordinator(p), "Proposal", p)
             => Once(updates'[<<n, Coordinator(p)>>], Msg("Proposal", p)),
           Fewer(updates, updates', "Valid"), NoNewEvaluation,
           \A m \in Nodes : peers_verified'[m] \subseteq peers_verified[m],
           UNCHANGED <<proposal_backlog, msgs, validated, decisions>>
    PROVE  Facts'
<1>1. Grows
  BY Zenon DEF Grows, decisions
<1>2. \A q \in Proposals : MessagesTrue(q)' /\ VotesTrue(q)' /\ DecisionsFollow(q)'
  BY <1>1, MessagesFrame, VotesFrame, DecisionsFrame, Unchanged, Zenon DEF Fewer
<1>3. ASSUME NEW q \in Proposals
      PROVE  MetOnce(q)'
  <2> DEFINE c == Coordinator(q)
  <2>1. c \in Nodes /\ MetOnce(q)
    BY Zenon, CoordinatorFacts DEF IInv
  <2>2. Decided(c, q)' <=> Decided(c, q)
    BY Zenon DEF Decided, decisions
  <2>3. evaluating_proposal(c, q)' => evaluating_proposal(c, q)
    BY Zenon, <2>1 DEF NoNewEvaluation
  <2>4. Known(c, q)' => Known(c, q)
    BY <2>3, Zenon DEF Known
  <2>5. CASE q = p
    <3>1. /\ \A s \in Nodes : ~In(updates, s, c, "Proposal", q)
          /\ ~Contains(proposal_backlog[c], q) /\ ~evaluating_proposal(c, q) /\ ~Decided(c, q)
      BY <2>1, <2>5, Zenon DEF MetOnce
    <3>2. ~Known(c, q) /\ (\A s \in Nodes : In(updates', s, c, "Proposal", q) => s = n)
      BY <2>1, <3>1, Zenon DEF Known
    <3> QED BY <2>1, <2>2, <2>3, <2>4, <2>5, <3>1, <3>2, Zenon DEF MetOnce
  <2>6. CASE q # p
    BY Zenon, <2>1, <2>2, <2>3, <2>4, <2>6 DEF MetOnce
  <2> QED BY Zenon, <2>5, <2>6
<1> QED BY Zenon, <1>2, <1>3 DEF Facts

\* Queues to which messages of one type are added hold no more of another type.
LEMMA AddedFewer ==
    ASSUME NEW ch, NEW ch2, NEW a, NEW to, NEW u, NEW q, NEW t, t # u,
           Added(ch, ch2, a, to, u, q), AddedOnce(ch, ch2, a, to, u, q)
    PROVE  Fewer(ch, ch2, t)
<1>1. ASSUME NEW s \in Nodes, NEW n \in Nodes, NEW p
      PROVE  In(ch2, s, n, t, p) => In(ch, s, n, t, p)
  BY DEF Added
<1>2. ASSUME NEW s \in Nodes, NEW n \in Nodes, NEW p
      PROVE  Once(ch[<<s, n>>], Msg(t, p)) => Once(ch2[<<s, n>>], Msg(t, p))
  BY Zenon DEF AddedOnce
<1> QED BY Zenon, <1>1, <1>2 DEF Fewer

\* create_proposal preserves it.
LEMMA CreateStep ==
    ASSUME IInv, NEW n \in Nodes, NEW p \in (Proposals \ created) \cup {NoProposal}, CreateProposal(n, p)
    PROVE  Facts' /\ TimeoutOnlyWhenCoordinating'
<1>0. TypeOK /\ TimeoutOnlyWhenCoordinating /\ updates \in [Channels -> Seq(ProposalUpdate)]
  BY DEF IInv, TypeOK
<1>1. /\ Become(n, "AwaitingProposal", NoProposal) /\ state[n] = "Idle"
      /\ UNCHANGED <<coordinator_timeout, proposal_backlog, msgs, validated, decisions>>
  BY DEF CreateProposal, backlogs
<1>2. TimeoutOnlyWhenCoordinating'
  BY <1>0, <1>1 DEF TimeoutOnlyWhenCoordinating, Become, TypeOK
<1>3. NoNewEvaluation /\ \A m \in Nodes : peers_verified'[m] \subseteq peers_verified[m]
  BY ZenonT(60), <1>0, <1>1 DEF NoNewEvaluation, Become, evaluating_proposal, TypeOK
<1>4. CASE p = NoProposal
  <2>1. updates' = Push(updates, <<n, n>>, Msg("None", NoProposal)) /\ UNCHANGED created
    BY <1>4 DEF CreateProposal
  <2>2. /\ Added(updates, updates', n, {n}, "None", NoProposal)
        /\ AddedOnce(updates, updates', n, {n}, "None", NoProposal)
    <3>1. Msg("None", NoProposal) \in ProposalUpdate
      BY MsgFacts
    <3> QED BY <1>0, <2>1, <3>1, PushFacts, Zenon
  <2>3. FewerProposals(updates') /\ Fewer(updates, updates', "Valid")
    <3>1. "None" # "Proposal" /\ "None" # "Valid"
      OBVIOUS
    <3>2. Fewer(updates, updates', "Proposal")
      BY Zenon, <2>2, <3>1, AddedFewer
    <3>3. Fewer(updates, updates', "Valid")
      BY Zenon, <2>2, <3>1, AddedFewer
    <3> QED BY Zenon, <3>2, <3>3 DEF FewerProposals
  <2>4. UNCHANGED historyVars
    BY <1>1, <2>1 DEF historyVars
  <2> QED BY <1>1, <1>2, <1>3, <2>3, <2>4, Unchanged, QuietStep
<1>5. CASE p # NoProposal
  <2> DEFINE ch == Broadcast(updates, n, "Proposal", p)
             c == Coordinator(p)
  <2>1. p \in Proposals /\ p \notin created /\ c \in Nodes
    BY Zenon, <1>5, CoordinatorFacts
  <2>2. updates' = Push(ch, <<n, n>>, Msg("Proposal", p)) /\ created' = created \cup {p}
    BY <1>5 DEF CreateProposal
  <2>3. Msg("Proposal", p) \in ProposalUpdate
    BY <2>1, MsgFacts
  <2>4. /\ ch \in [Channels -> Seq(ProposalUpdate)]
        /\ Added(updates, ch, n, Verifiers[p] \ {n}, "Proposal", p)
        /\ AddedOnce(updates, ch, n, Verifiers[p] \ {n}, "Proposal", p)
    BY <1>0, <2>3, SendAllFacts, Zenon DEF Broadcast
  <2> HIDE DEF ch
  <2>5. Added(ch, updates', n, {n}, "Proposal", p) /\ AddedOnce(ch, updates', n, {n}, "Proposal", p)
    BY <2>2, <2>3, <2>4, PushFacts, Zenon
  <2>6. \A s, m \in Nodes : \A q :
          In(updates', s, m, "Proposal", q) => In(updates, s, m, "Proposal", q) \/ (s = n /\ q = p)
    <3>1. ASSUME NEW s \in Nodes, NEW m \in Nodes, NEW q, In(updates', s, m, "Proposal", q)
          PROVE  In(updates, s, m, "Proposal", q) \/ (s = n /\ q = p)
      <4>1. In(ch, s, m, "Proposal", q) \/ (s = n /\ q = p)
        BY <2>5, <3>1 DEF Added
      <4>2. In(ch, s, m, "Proposal", q) => In(updates, s, m, "Proposal", q) \/ (s = n /\ q = p)
        BY <2>4 DEF Added
      <4> QED BY Zenon, <4>1, <4>2
    <3> QED BY Zenon, <3>1
  <2>7. \A s, m \in Nodes : \A q :
          q # p /\ Once(updates[<<s, m>>], Msg("Proposal", q)) => Once(updates'[<<s, m>>], Msg("Proposal", q))
    BY <2>4, <2>5, Zenon DEF AddedOnce
  <2>8. ASSUME ~In(updates, n, c, "Proposal", p)
        PROVE  Once(updates'[<<n, c>>], Msg("Proposal", p))
    <3>1. Once(ch[<<n, c>>], Msg("Proposal", p))
      BY Zenon, <2>1, <2>4, <2>8 DEF AddedOnce
    <3>2. c = n => ~In(ch, n, c, "Proposal", p)
      BY Zenon, <2>1, <2>4, <2>8 DEF Added
    <3> QED BY <2>1, <2>5, <3>1, <3>2, Zenon DEF AddedOnce
  <2>9. Fewer(updates, updates', "Valid")
    <3>0. "Proposal" # "Valid"
      OBVIOUS
    <3>1. Fewer(updates, ch, "Valid")
      BY Zenon, <2>4, <3>0, AddedFewer
    <3>2. Fewer(ch, updates', "Valid")
      BY Zenon, <2>5, <3>0, AddedFewer
    <3> QED BY <3>1, <3>2, Zenon DEF Fewer
  <2> QED BY <1>1, <1>2, <1>3, <2>1, <2>2, <2>6, <2>7, <2>8, <2>9, NewProposalStep, Zenon
<1> QED BY <1>4, <1>5

\* create_proposal preserves it when it fails part way through its sends.
LEMMA CreateFailsStep ==
    ASSUME IInv, NEW n \in Nodes, NEW p \in Proposals \ created, NEW to, CreateProposalFails(n, p, to)
    PROVE  Facts' /\ TimeoutOnlyWhenCoordinating'
<1>1. updates \in [Channels -> Seq(ProposalUpdate)] /\ Msg("Proposal", p) \in ProposalUpdate
  BY MsgFacts DEF IInv, TypeOK
<1>2. /\ updates' = SendAll(updates, n, to, Msg("Proposal", p)) /\ created' = created \cup {p}
      /\ UNCHANGED <<state, current, peers_verified, coordinator_timeout>>
      /\ UNCHANGED <<proposal_backlog, msgs, validated, decisions>>
  BY VerifiersAssumption DEF CreateProposalFails, engineVars, evaluation, backlogs
<1>3. Added(updates, updates', n, to, "Proposal", p) /\ AddedOnce(updates, updates', n, to, "Proposal", p)
  BY <1>1, <1>2, SendAllFacts
<1>4. \A s, m \in Nodes : \A q :
        In(updates', s, m, "Proposal", q) => In(updates, s, m, "Proposal", q) \/ (s = n /\ q = p)
  BY <1>3 DEF Added
<1>5. /\ \A s, m \in Nodes : \A q :
           q # p /\ Once(updates[<<s, m>>], Msg("Proposal", q)) => Once(updates'[<<s, m>>], Msg("Proposal", q))
      /\ ~In(updates, n, Coordinator(p), "Proposal", p)
           => Once(updates'[<<n, Coordinator(p)>>], Msg("Proposal", p))
  BY <1>3, CoordinatorFacts, Zenon DEF AddedOnce
<1>6. Fewer(updates, updates', "Valid")
  <2>1. "Proposal" # "Valid"
    OBVIOUS
  <2> QED BY Zenon, <1>3, <2>1, AddedFewer
<1>7. Facts'
  BY Zenon, <1>2, <1>4, <1>5, <1>6, Unchanged, NewProposalStep
<1> QED BY Zenon, <1>2, <1>7, Unchanged DEF IInv

\* Lost messages, timeouts, stops and starts preserve it.
LEMMA EnvironmentStep ==
    ASSUME IInv, Disturbances
    PROVE  Facts' /\ TimeoutOnlyWhenCoordinating'
<1> USE DEF engineVars, evaluation, backlogs
<1>0. /\ TypeOK /\ TimeoutOnlyWhenCoordinating
      /\ msgs \in [Channels -> Seq(ConsensusMsg)] /\ updates \in [Channels -> Seq(ProposalUpdate)]
  BY Zenon DEF IInv, TypeOK
<1>1. ASSUME NEW s \in Nodes, NEW n \in Nodes, LoseMessage(<<s, n>>)
      PROVE  Facts' /\ TimeoutOnlyWhenCoordinating'
  <2>1. FewerMessages(msgs')
    BY <1>0, <1>1, PopFacts, ZenonT(60) DEF LoseMessage, FewerMessages
  <2> QED BY <1>0, <1>1, <2>1, Unchanged, QuietStep DEF LoseMessage
<1>2. ASSUME NEW s \in Nodes, NEW n \in Nodes, LoseProposal(<<s, n>>)
      PROVE  Facts' /\ TimeoutOnlyWhenCoordinating'
  <2>1. FewerProposals(updates') /\ Fewer(updates, updates', "Valid")
    BY <1>0, <1>2, PopFacts, Zenon DEF LoseProposal, FewerProposals
  <2> QED BY <1>0, <1>2, <2>1, Unchanged, QuietStep DEF LoseProposal
<1>3. ASSUME NEW n \in Nodes, TimeoutElapses(n)
      PROVE  Facts' /\ TimeoutOnlyWhenCoordinating'
  <2>1. TimeoutOnlyWhenCoordinating'
    BY <1>0, <1>3 DEF TimeoutElapses, TimeoutOnlyWhenCoordinating, TypeOK
  <2> QED BY Zenon, <1>3, <2>1, Unchanged, QuietStep DEF TimeoutElapses
<1>4. ASSUME NEW n \in Nodes, Stop(n)
      PROVE  Facts' /\ TimeoutOnlyWhenCoordinating'
  <2>1. FewerProposals(updates') /\ Fewer(updates, updates', "Valid")
    BY <1>0, <1>4, ClearFacts, Zenon DEF Stop, FewerProposals
  <2>2. FewerBacklogged
    <3>1. \A q : ~Contains(<<>>, q) /\ Once(<<>>, q)
      BY DEF Contains, Once
    <3>2. \A m \in Nodes : proposal_backlog'[m] = IF m = n THEN <<>> ELSE proposal_backlog[m]
      BY <1>0, <1>4 DEF Stop, TypeOK
    <3> QED BY <3>1, <3>2 DEF FewerBacklogged, BacklogFewer
  <2>3. NoNewEvaluation /\ \A m \in Nodes : peers_verified'[m] \subseteq peers_verified[m]
    BY <1>0, <1>4 DEF Stop, NoNewEvaluation, Become, evaluating_proposal, TypeOK
  <2>4. TimeoutOnlyWhenCoordinating'
    BY <1>0, <1>4 DEF Stop, Become, TimeoutOnlyWhenCoordinating, TypeOK
  <2> QED BY Zenon, <1>4, <2>1, <2>2, <2>3, <2>4, Unchanged, QuietStep DEF Stop
<1>5. ASSUME NEW n \in Nodes, Start(n)
      PROVE  Facts' /\ TimeoutOnlyWhenCoordinating'
  BY Zenon, <1>0, <1>5, Unchanged, QuietStep DEF Start
<1>6. \A c \in Channels : \E s, n \in Nodes : c = <<s, n>>
  BY DEF Channels
<1> QED BY <1>1, <1>2, <1>3, <1>4, <1>5, <1>6 DEF Disturbances

\* Every step that calls the manager preserves it.
LEMMA CallsStep ==
    ASSUME IInv, NEW n \in Nodes, Answers(n) \/ \E p \in Proposals \ created : Creates(n, p)
    PROVE  Facts' /\ TimeoutOnlyWhenCoordinating'
<1>2. CASE \E p \in Proposals : \/ \E r : CheckCall(n, p, r)
                                \/ \E ok \in BOOLEAN : AcceptCall(n, p, ok)
  BY <1>2, CheckCallStep, AcceptCallStep
<1>3. CASE \E p \in Proposals, ok \in BOOLEAN : RejectCall(n, p, ok) \/ CheckRejectCall(n, p, ok)
  BY <1>3, RejectCallStep, CheckRejectCallStep
<1>4. CASE CreateProposal(n, NoProposal) \/ \E p \in Proposals \ created : Creates(n, p)
  BY <1>4, CreateStep, CreateFailsStep DEF Creates
<1>5. CASE CreateProposalFails(n, NoProposal, {})
  <2>1. TimeoutOnlyWhenCoordinating
    BY DEF IInv
  <2>2. UNCHANGED <<updates, state, current, peers_verified, coordinator_timeout, proposal_backlog>>
        /\ UNCHANGED msgs /\ UNCHANGED historyVars
    BY <1>5 DEF CreateProposalFails, engineVars, evaluation, backlogs, historyVars
  <2> QED BY <2>1, <2>2, Unchanged, QuietStep
<1> QED BY <1>2, <1>3, <1>4, <1>5 DEF Answers
=============================================================================
