-------------------------- MODULE ServicesTheorems --------------------------
(***************************************************************************)
(* A service is called only between its start and its stop: for every set  *)
(* of services, every capacity of the channels and every workload.         *)
(***************************************************************************)
EXTENDS Services, TLAPS

\* What a leaf is tried with, unless it names its provers.
USE SMTT(20), ZenonT(20), SMTT(30)

\* The orchestrator's map holds started services only, which nobody waits for: a service is
\* saved once its start has returned, and is removed before its stop begins.
CallsInv ==
    /\ service \in [ServiceIds -> {"new", "connecting", "started", "disconnecting", "disconnected",
                                   "failed", "ended"}]
    /\ managed \subseteq Orchestrated
    /\ expected \subseteq ServiceIds
    /\ \A s \in managed : service[s] = "started"
    /\ \A s \in expected : service[s] \in {"connecting", "disconnecting"}
    /\ CalledWhileStarted

-----------------------------------------------------------------------------
\* A connect or disconnect request of a service outside the map that does not wait for one.
LEMMA CallStep ==
    ASSUME CallsInv, NEW s \in ServiceIds, NEW type, NEW during \in {"connecting", "disconnecting"},
           Call(s, type, during), s \notin managed', managed' \subseteq managed, s \notin expected,
           UNCHANGED strayed
    PROVE  CallsInv'
<1>1. PICK to \in {"failed", during} :
          service' = [service EXCEPT ![s] = to] /\ expected' \in {expected, expected \cup {s}}
             /\ (s \in expected' => to = during)
  BY DEF Call
<1>2. service' \in [ServiceIds -> {"new", "connecting", "started", "disconnecting", "disconnected",
                                   "failed", "ended"}]
  BY <1>1 DEF CallsInv
<1>3. \A x \in managed' : service'[x] = "started"
  BY <1>1 DEF CallsInv, ServiceIds
<1>4. \A x \in expected' : service'[x] \in {"connecting", "disconnecting"}
  BY <1>1 DEF CallsInv
<1> QED BY <1>1, <1>2, <1>3, <1>4 DEF CallsInv, CalledWhileStarted

\* A message from the node, of which a reply ends the wait of the service it is for.
LEMMA RouteStep ==
    ASSUME CallsInv, NEW h, NEW m, Route(h, m)
    PROVE  CallsInv'
<1>1. UNCHANGED <<managed, strayed>>
  BY DEF Route
<1>2. CASE ~ Awaited(m)
  BY <1>1, <1>2 DEF Route, CallsInv, CalledWhileStarted
<1>3. CASE Awaited(m)
  <2> DEFINE s == m.service
  <2>1. s \in expected /\ s \in ServiceIds /\ s \notin managed
    BY <1>3 DEF Awaited, CallsInv
  <2>2. PICK to \in {"started", "disconnected", "failed"} :
            service' = [service EXCEPT ![s] = to] /\ expected' = expected \ {s}
    BY <1>3 DEF Route, Answered
  <2> HIDE DEF s
  <2>3. \A x \in managed : service'[x] = "started"
    BY <2>1, <2>2 DEF CallsInv, ServiceIds
  <2>4. \A x \in expected' : service'[x] \in {"connecting", "disconnecting"}
    BY <2>1, <2>2 DEF CallsInv
  <2> QED BY <1>1, <2>1, <2>2, <2>3, <2>4 DEF CallsInv, CalledWhileStarted
<1> QED BY <1>2, <1>3

\* Threads that touch neither the services nor those that wait.
LEMMA QuietStep ==
    ASSUME CallsInv, UNCHANGED <<expected, service, managed, strayed>>
    PROVE  CallsInv'
  BY DEF CallsInv, CalledWhileStarted

\* Every step of the service threads keeps the invariant.
LEMMA CallsStep == CallsInv /\ [Next]_vars => CallsInv'
<1> SUFFICES ASSUME CallsInv, [Next]_vars PROVE CallsInv'
  OBVIOUS
<1> USE HostsAssumption DEF ServiceIds
<1>1. CASE HostThreads
  <2>1. CASE ProcessorIncoming
    BY <2>1, RouteStep DEF ProcessorIncoming
  <2>2. CASE OrchestratorIncoming
    BY <2>2, RouteStep DEF OrchestratorIncoming
  <2>3. CASE ProcessorInbound
    BY <2>3, QuietStep DEF ProcessorInbound
  <2>4. CASE OrchestratorInbound
    <3>1. UNCHANGED <<expected, service, managed>> /\ strayed' = strayed
      BY <2>4 DEF OrchestratorInbound, CallsInv
    <3> QED BY <3>1, QuietStep
  <2>5. CASE \E h \in Hosts : SendUp(h)
    BY <2>5, QuietStep DEF SendUp
  <2> QED BY <1>1, <2>1, <2>2, <2>3, <2>4, <2>5 DEF HostThreads
<1>2. CASE NodeThreads \/ Ends
  BY <1>2, QuietStep DEF NodeThreads, Ends, Pass, Dispatch, SendOut, Timeout
<1>3. CASE AdminThread
  <2>1. CASE AdminHandles
    BY <2>1 DEF AdminHandles, CallsInv, CalledWhileStarted
  <2>2. CASE StopAdmin
    <3>1. Admin \notin managed /\ Admin \notin expected
      BY <2>2 DEF CallsInv, StopAdmin
    <3> QED BY <2>2, <3>1, CallStep DEF StopAdmin
  <2>3. CASE AdminEnds
    BY <2>3 DEF AdminEnds, CallsInv, CalledWhileStarted
  <2>4. ASSUME NEW s \in Orchestrated, Save(s) PROVE CallsInv'
    BY <2>4 DEF Save, CallsInv, CalledWhileStarted
  <2>5. ASSUME NEW s \in Orchestrated, ShutdownService(s) PROVE CallsInv'
    <3>1. s \notin expected
      BY <2>5 DEF CallsInv, ShutdownService
    <3> QED BY <2>5, <3>1, CallStep DEF ShutdownService
  <2> QED BY <1>3, <2>1, <2>2, <2>3, <2>4, <2>5 DEF AdminThread
<1>4. CASE StartAdmin
  <2>1. Admin \notin managed /\ Admin \notin expected
    BY <1>4 DEF CallsInv, StartAdmin
  <2> QED BY <1>4, <2>1, CallStep DEF StartAdmin
<1>5. ASSUME NEW s \in Orchestrated, Initialize(s) PROVE CallsInv'
  <2>1. s \notin managed /\ s \notin expected
    BY <1>5 DEF CallsInv, Initialize
  <2> QED BY <1>5, <2>1, CallStep DEF Initialize
<1>6. CASE \E s \in ServiceIds : PeerSends(s) \/ \E to \in ServiceIds : ServiceSends(s, to)
  BY <1>6, QuietStep DEF PeerSends, ServiceSends
<1>7. CASE CtrlC \/ Shutdown \/ Joined
  BY <1>7, QuietStep DEF CtrlC, Shutdown, Joined
<1>8. CASE UNCHANGED vars
  BY <1>8, QuietStep DEF vars
<1> QED BY <1>1, <1>2, <1>3, <1>4, <1>5, <1>6, <1>7, <1>8 DEF Next

\* The orchestrator calls handle_message of started services only, whatever is being started,
\* stopped or sent by the other threads meanwhile.
THEOREM CallsAreWhileStarted == Spec => []CalledWhileStarted
<1>1. Init => CallsInv
  BY DEF Init, CallsInv, CalledWhileStarted, ServiceIds
<1>2. CallsInv => CalledWhileStarted
  BY DEF CallsInv
<1> QED BY <1>1, <1>2, CallsStep, PTL DEF Spec
=============================================================================
