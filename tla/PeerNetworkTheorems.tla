------------------------ MODULE PeerNetworkTheorems ------------------------
(***************************************************************************)
(* The authorization manager and the map of peers, which have a lock each, *)
(* agree on who is authorized: for every set of nodes and connections and  *)
(* every workload.                                                         *)
(***************************************************************************)
EXTENDS PeerNetwork, TLAPS

\* What a leaf is tried with, unless it names its provers.
USE SMTT(20), ZenonT(20), SMTT(30)

\* The peers in a node's map, and those that its manager answers for.
Mapped(pm) == DOMAIN pm.peers.kv
Trusted(st, rm) == {id \in DOMAIN st : st[id] = "Authorized" /\ id \notin rm}

\* Everything is kept per node, and whom a node trusts it has in its map, or is removing.
NetInv ==
    /\ DOMAIN peers = Nodes /\ DOMAIN states = Nodes /\ DOMAIN removals = Nodes /\ DOMAIN notifying = Nodes
    /\ \A n \in Nodes : /\ "peers" \in DOMAIN peers[n]
                        /\ Trusted(states[n], removals[n]) \subseteq Mapped(peers[n]) \cup notifying[n]

\* What a node keeps changes at n alone.
OnlyAt(n, f, g) == DOMAIN g = Nodes /\ \A m \in Nodes \ {n} : g[m] = f[m]

-----------------------------------------------------------------------------
(* The maps. *)

\* What BiHashMap::insert leaves as keys.
LEMMA InsertKeys ==
    ASSUME NEW m, NEW k, NEW v
    PROVE  DOMAIN insert(m, k, v).kv = DOMAIN m.kv \cup {k}
  BY DEF insert, With

\* What BiHashMap::remove_by_key leaves as keys.
LEMMA RemoveKeys ==
    ASSUME NEW m, NEW k
    PROVE  DOMAIN remove_by_key(m, k).kv = DOMAIN m.kv \ {k}
  BY DEF remove_by_key, Without, Restrict

\* What PeerMap::insert leaves as peers.
LEMMA InsertFacts ==
    ASSUME NEW pm, NEW id, NEW c, NEW e, "peers" \in DOMAIN pm
    PROVE  /\ Mapped(PeerInsert(pm, id, c, e)) = Mapped(pm) \cup {id}
           /\ "peers" \in DOMAIN PeerInsert(pm, id, c, e)
<1>1. PeerInsert(pm, id, c, e).peers = insert(pm.peers, id, c) /\ "peers" \in DOMAIN PeerInsert(pm, id, c, e)
  BY DEF PeerInsert
<1> QED BY <1>1, InsertKeys DEF Mapped

\* What PeerMap::remove leaves as peers.
LEMMA RemoveFacts ==
    ASSUME NEW pm, NEW id
    PROVE  /\ Mapped(PeerRemove(pm, id)) = Mapped(pm) \ {id}
           /\ "peers" \in DOMAIN PeerRemove(pm, id)
<1>1. PeerRemove(pm, id).peers = remove_by_key(pm.peers, id) /\ "peers" \in DOMAIN PeerRemove(pm, id)
  BY DEF PeerRemove
<1> QED BY <1>1, RemoveKeys DEF Mapped

\* What PeerMap::update leaves as peers.
LEMMA UpdateFacts ==
    ASSUME NEW pm, NEW old, NEW new
    PROVE  /\ Mapped(PeerUpdate(pm, old, new)) = (Mapped(pm) \ {old}) \cup {new}
           /\ "peers" \in DOMAIN PeerUpdate(pm, old, new)
<1>1. /\ PeerUpdate(pm, old, new).peers = insert(remove_by_key(pm.peers, old), new, pm.peers.kv[old])
      /\ "peers" \in DOMAIN PeerUpdate(pm, old, new)
  BY DEF PeerUpdate
<1> QED BY <1>1, InsertKeys, RemoveKeys DEF Mapped

\* Entering a state trusts nobody but the peer that it is entered for, if that.
LEMMA EnterTrust ==
    ASSUME NEW st, NEW rm, NEW id, NEW s
    PROVE  /\ s # "Authorized" => Trusted(With(st, id, s), rm) \subseteq Trusted(st, rm)
           /\ Trusted(With(st, id, s), rm) \subseteq Trusted(st, rm) \cup {id}
  BY DEF Trusted, With

\* A peer that is forgotten is not trusted.
LEMMA ForgetTrust ==
    ASSUME NEW st, NEW rm, NEW id
    PROVE  Trusted(Without(st, id), rm) \subseteq Trusted(st, rm) \ {id}
  BY DEF Trusted, Without, Restrict

\* next_state drains the removals first, which changes nothing of whom the node trusts.
LEMMA DrainedTrust ==
    ASSUME NEW n
    PROVE  \A rm : Trusted(Drained(n), rm) \subseteq Trusted(states[n], removals[n])
  BY DEF Trusted, Drained, Restrict

-----------------------------------------------------------------------------
(* The steps. *)

\* A step of node n is judged by what it leaves of n's manager, map and listeners.
LEMMA StepAt ==
    ASSUME NetInv, NEW n \in Nodes, OnlyAt(n, peers, peers'), OnlyAt(n, states, states'),
           OnlyAt(n, removals, removals'), OnlyAt(n, notifying, notifying'), "peers" \in DOMAIN peers'[n],
           Trusted(states'[n], removals'[n]) \subseteq Mapped(peers'[n]) \cup notifying'[n]
    PROVE  NetInv'
  BY DEF NetInv, OnlyAt

\* The threads that touch neither the maps nor the manager.
LEMMA QuietStep ==
    ASSUME NetInv, UNCHANGED <<peers, states, removals, notifying>>
    PROVE  NetInv'
  BY DEF NetInv

\* Connecting and accepting add to a node's map.
LEMMA AddStep ==
    ASSUME NetInv, NEW c \in Conns, connect_peer(c) \/ Accept(c)
    PROVE  NetInv'
<1>0. Link[c].from \in Nodes /\ Link[c].to \in Nodes
  BY LinkAssumption
<1>1. ASSUME NEW n \in Nodes, NEW id, NEW e, peers' = [peers EXCEPT ![n] = PeerInsert(@, id, c, e)],
             UNCHANGED <<states, removals, notifying>>
      PROVE  NetInv'
  <2>1. /\ OnlyAt(n, peers, peers') /\ peers'[n] = PeerInsert(peers[n], id, c, e)
        /\ OnlyAt(n, states, states') /\ OnlyAt(n, removals, removals') /\ OnlyAt(n, notifying, notifying')
    BY <1>1 DEF NetInv, OnlyAt
  <2>2. "peers" \in DOMAIN peers'[n] /\ Mapped(peers'[n]) = Mapped(peers[n]) \cup {id}
    BY <2>1, InsertFacts DEF NetInv
  <2>3. Trusted(states'[n], removals'[n]) \subseteq Mapped(peers'[n]) \cup notifying'[n]
    BY <1>1, <2>2 DEF NetInv
  <2> QED BY <2>1, <2>2, <2>3, StepAt
<1>2. CASE connect_peer(c)
  <2>1. UNCHANGED <<states, removals, notifying>>
    BY <1>2 DEF connect_peer, leaving
  <2>2. CASE UNCHANGED peers
    BY <2>1, <2>2, QuietStep
  <2>3. CASE ~ UNCHANGED peers
    <3>1. peers' = [peers EXCEPT ![Link[c].from] =
                       PeerInsert(@, Dialled(c), c, Listening(Link[c].to))]
      BY <1>2, <2>3 DEF connect_peer
    <3> QED BY Zenon, <1>0, <1>1, <2>1, <3>1
  <2> QED BY <2>2, <2>3
<1>3. CASE Accept(c)
  <2>1. UNCHANGED <<states, removals, notifying>>
    BY <1>3 DEF Accept, leaving
  <2>2. \/ peers' = [peers EXCEPT ![Link[c].to] = PeerInsert(@, Service(c), c, Inproc)]
        \/ peers' = [peers EXCEPT ![Link[c].to] = PeerInsert(@, Temp(c), c, Ephemeral(c))]
    BY Zenon, <1>3 DEF Accept, Incoming
  <2> QED BY <1>0, <1>1, <2>1, <2>2
<1> QED BY <1>2, <1>3

\* A connection that is found gone: the peer leaves the map before the listeners are told.
LEMMA LossStep ==
    ASSUME NetInv, NEW n \in Nodes, NEW id, Lost(n, id) \/ Notify(n, id)
    PROVE  NetInv'
<1>1. CASE Lost(n, id)
  <2>1. /\ OnlyAt(n, peers, peers') /\ peers'[n] = PeerRemove(peers[n], id)
        /\ OnlyAt(n, notifying, notifying') /\ notifying'[n] = notifying[n] \cup {id}
        /\ OnlyAt(n, states, states') /\ OnlyAt(n, removals, removals')
        /\ UNCHANGED <<states, removals>>
    BY <1>1 DEF Lost, NetInv, OnlyAt
  <2>2. "peers" \in DOMAIN peers'[n] /\ Mapped(peers'[n]) = Mapped(peers[n]) \ {id}
    BY <2>1, RemoveFacts
  <2>3. Trusted(states'[n], removals'[n]) \subseteq Mapped(peers'[n]) \cup notifying'[n]
    BY <2>1, <2>2 DEF NetInv
  <2> QED BY <2>1, <2>2, <2>3, StepAt
<1>2. CASE Notify(n, id)
  <2>1. /\ OnlyAt(n, notifying, notifying') /\ notifying'[n] = notifying[n] \ {id}
        /\ OnlyAt(n, removals, removals') /\ removals'[n] = removals[n] \cup {id}
        /\ OnlyAt(n, states, states') /\ OnlyAt(n, peers, peers')
        /\ UNCHANGED <<states, peers>>
    BY <1>2 DEF Notify, NetInv, OnlyAt
  <2>2. Trusted(states'[n], removals'[n]) = Trusted(states[n], removals[n]) \ {id}
    BY <2>1 DEF Trusted
  <2>3. Trusted(states'[n], removals'[n]) \subseteq Mapped(peers'[n]) \cup notifying'[n]
    BY <2>1, <2>2 DEF NetInv
  <2>4. "peers" \in DOMAIN peers'[n]
    BY <2>1 DEF NetInv
  <2> QED BY Zenon, <2>1, <2>3, <2>4, StepAt
<1> QED BY <1>1, <1>2

\* A step of n's manager that leaves the map alone and trusts nobody whom it did not trust.
LEMMA ManagerStep ==
    ASSUME NetInv, NEW n \in Nodes, NEW st, NEW rm, Becomes(n, st), removals' = [removals EXCEPT ![n] = rm],
           UNCHANGED <<peers, notifying>>, Trusted(st, rm) \subseteq Trusted(states[n], removals[n])
    PROVE  NetInv'
<1>1. /\ OnlyAt(n, states, states') /\ states'[n] = st
      /\ OnlyAt(n, removals, removals') /\ removals'[n] = rm
      /\ OnlyAt(n, peers, peers') /\ OnlyAt(n, notifying, notifying')
  BY DEF Becomes, NetInv, OnlyAt
<1>2. /\ "peers" \in DOMAIN peers'[n]
      /\ Trusted(states'[n], removals'[n]) \subseteq Mapped(peers'[n]) \cup notifying'[n]
  BY <1>1 DEF NetInv
<1> QED BY Zenon, <1>1, <1>2, StepAt

\* HandleConnectRequest: the sender is known already, or becomes Internal or Connecting.
LEMMA ConnectStep ==
    ASSUME NetInv, NEW n \in Nodes, HandleConnectRequest(n)
    PROVE  NetInv'
<1>1. PICK st : /\ Becomes(n, st)
                /\ \/ st = Drained(n)
                   \/ \E id, s : s # "Authorized" /\ st = With(Drained(n), id, s)
  BY DEF HandleConnectRequest
<1>2. removals' = [removals EXCEPT ![n] = {}] /\ UNCHANGED <<peers, notifying>>
  BY DEF HandleConnectRequest, Handles, leaving
<1>3. Trusted(st, {}) \subseteq Trusted(states[n], removals[n])
  BY <1>1, EnterTrust, DrainedTrust
<1> QED BY Zenon, <1>1, <1>2, <1>3, ManagerStep

\* HandleTrustRequest: the peer gets its name in the map as it becomes authorized under it, and
\* the manager forgets the ID that the map no longer has.
LEMMA TrustStep ==
    ASSUME NetInv, NEW n \in Nodes, HandleTrustRequest(n)
    PROVE  NetInv'
<1> DEFINE from == Head(received[n]).from
           new == Named(Head(received[n]).msg.arg)
           forgotten == Without(Drained(n), from)
<1>1. removals' = [removals EXCEPT ![n] = {}] /\ UNCHANGED notifying
  BY DEF HandleTrustRequest, Handles, leaving
<1>2. CASE Becomes(n, Drained(n)) /\ UNCHANGED peers
  BY Zenon, <1>1, <1>2, DrainedTrust, ManagerStep
<1>3. Trusted(forgotten, {}) \subseteq Trusted(states[n], removals[n]) \ {from}
  <2> HIDE DEF from
  <2> QED BY ForgetTrust, DrainedTrust
<1>4. CASE peers' = [peers EXCEPT ![n].peers = remove_by_key(@, from)] /\ Becomes(n, forgotten)
  <2> HIDE DEF from, forgotten
  <2>1. /\ OnlyAt(n, peers, peers') /\ peers'[n] = [peers[n] EXCEPT !.peers = remove_by_key(@, from)]
        /\ OnlyAt(n, states, states') /\ states'[n] = forgotten
        /\ OnlyAt(n, removals, removals') /\ removals'[n] = {} /\ OnlyAt(n, notifying, notifying')
    BY <1>1, <1>4 DEF Becomes, NetInv, OnlyAt
  <2>2. "peers" \in DOMAIN peers'[n] /\ peers'[n].peers = remove_by_key(peers[n].peers, from)
    BY <2>1 DEF NetInv
  <2>3. Mapped(peers'[n]) = Mapped(peers[n]) \ {from}
    BY <2>2, RemoveKeys DEF Mapped
  <2>4. Trusted(states'[n], removals'[n]) \subseteq Mapped(peers'[n]) \cup notifying'[n]
    BY <1>1, <1>3, <2>1, <2>3 DEF NetInv
  <2> QED BY Zenon, <2>1, <2>2, <2>4, StepAt
<1>5. CASE peers' = [peers EXCEPT ![n] = PeerUpdate(@, from, new)] /\ Becomes(n, With(forgotten, new, "Authorized"))
  <2> HIDE DEF from, new, forgotten
  <2>1. /\ OnlyAt(n, peers, peers') /\ peers'[n] = PeerUpdate(peers[n], from, new)
        /\ OnlyAt(n, states, states') /\ states'[n] = With(forgotten, new, "Authorized")
        /\ OnlyAt(n, removals, removals') /\ removals'[n] = {} /\ OnlyAt(n, notifying, notifying')
    BY <1>1, <1>5 DEF Becomes, NetInv, OnlyAt
  <2>2. "peers" \in DOMAIN peers'[n] /\ Mapped(peers'[n]) = (Mapped(peers[n]) \ {from}) \cup {new}
    BY <2>1, UpdateFacts
  <2>3. Trusted(states'[n], removals'[n]) \subseteq Trusted(forgotten, {}) \cup {new}
    BY <2>1, EnterTrust
  <2>4. Trusted(states'[n], removals'[n]) \subseteq Mapped(peers'[n]) \cup notifying'[n]
    BY <1>1, <1>3, <2>2, <2>3 DEF NetInv
  <2> QED BY Zenon, <2>1, <2>2, <2>4, StepAt
<1> QED BY <1>2, <1>4, <1>5 DEF HandleTrustRequest

\* HandleAuthorizationError: the peer leaves the map as the manager forgets it, unless it is
\* internal, and then it stays in both.
LEMMA ErrorStep ==
    ASSUME NetInv, NEW n \in Nodes, HandleAuthorizationError(n)
    PROVE  NetInv'
<1> DEFINE from == Head(received[n]).from
           was == Get(Drained(n), from)
<1>1. UNCHANGED notifying /\ \E rm : removals' = [removals EXCEPT ![n] = rm]
  BY Zenon DEF HandleAuthorizationError, Handles, leaving
<1>2. CASE was = "Internal"
  <2>1. Becomes(n, Drained(n)) /\ UNCHANGED peers
    BY <1>2 DEF HandleAuthorizationError
  <2> QED BY ZenonT(60), <1>1, <2>1, DrainedTrust, ManagerStep
<1>3. CASE was # "Internal"
  <2>1. Becomes(n, Without(Drained(n), from)) /\ peers' = [peers EXCEPT ![n] = PeerRemove(@, from)]
    BY Zenon, <1>3 DEF HandleAuthorizationError
  <2> HIDE DEF from, was
  <2>2. PICK rm : removals' = [removals EXCEPT ![n] = rm]
    BY Zenon, <1>1
  <2>3. /\ OnlyAt(n, peers, peers') /\ peers'[n] = PeerRemove(peers[n], from)
        /\ OnlyAt(n, states, states') /\ states'[n] = Without(Drained(n), from)
        /\ OnlyAt(n, removals, removals') /\ removals'[n] = rm /\ OnlyAt(n, notifying, notifying')
    BY <1>1, <2>1, <2>2 DEF Becomes, NetInv, OnlyAt
  <2>4. "peers" \in DOMAIN peers'[n] /\ Mapped(peers'[n]) = Mapped(peers[n]) \ {from}
    BY <2>3, RemoveFacts
  <2>5. Trusted(states'[n], removals'[n]) \subseteq Trusted(states[n], removals[n]) \ {from}
    BY <2>3, ForgetTrust, DrainedTrust
  <2>6. Trusted(states'[n], removals'[n]) \subseteq Mapped(peers'[n]) \cup notifying'[n]
    BY <1>1, <2>4, <2>5 DEF NetInv
  <2> QED BY <2>3, <2>4, <2>6, StepAt
<1> QED BY <1>2, <1>3

\* Every step of the network keeps the invariant.
LEMMA NetStep == NetInv /\ [Next]_vars => NetInv'
<1> SUFFICES ASSUME NetInv, [Next]_vars PROVE NetInv'
  OBVIOUS
<1>1. CASE UNCHANGED vars
  BY <1>1, QuietStep DEF vars, leaving
<1>2. ASSUME NEW c \in Conns, connect_peer(c) \/ Accept(c) \/ Close(c) \/ Refuse(c)
      PROVE  NetInv'
  BY <1>2, AddStep, QuietStep DEF Close, Refuse, leaving
<1>3. ASSUME NEW n \in Nodes, Handler(n)
      PROVE  NetInv'
  BY <1>3, ConnectStep, TrustStep, ErrorStep, QuietStep
     DEF Handler, HandleConnectResponse, HandleAuthorize, Handles, leaving
<1>4. ASSUME NEW n \in Nodes, is_authorized(n)
      PROVE  NetInv'
  BY Zenon, <1>4, DrainedTrust, ManagerStep DEF is_authorized, leaving
<1>5. ASSUME NEW n \in Nodes, \/ CallbackReturns(n) \/ SendNext(n) \/ Submit(n)
                              \/ \E c \in Conns : ReactorDrops(n, c) \/ Recv(n, c) \/ SendConnectRequest(c)
                              \/ \E id : Heartbeat(n, id)
      PROVE  NetInv'
  BY Zenon, <1>5, QuietStep
     DEF CallbackReturns, SendNext, SendConnectRequest, NetworkSend, Submit, ReactorDrops, Recv, Heartbeat, leaving
<1>6. ASSUME NEW n \in Nodes, NEW id, Lost(n, id) \/ Notify(n, id)
      PROVE  NetInv'
  BY <1>6, LossStep
<1> QED BY <1>1, <1>2, <1>3, <1>4, <1>5, <1>6 DEF Next, Thread

\* The manager's states and the map of peers do not part, however the handlers, the threads
\* that find connections gone and the listeners they tell interleave: a peer that counts as
\* authorized is in the map, or the news that it is not is on its way.
THEOREM AuthorizedArePeers == FairSpec => []AuthorizedIsPeer
<1>1. Init => NetInv
  BY DEF Init, NetInv, Trusted
<1>2. NetInv => AuthorizedIsPeer
  BY DEF NetInv, AuthorizedIsPeer, Authorized, Trusted, Mapped, Get
<1> QED BY <1>1, <1>2, NetStep, PTL DEF FairSpec
=============================================================================
