---------------------------- MODULE AtomicCommit ----------------------------
(***************************************************************************)
(* What two-phase consensus promises to the services that use it, without  *)
(* engines, messages or coordinators: managers find proposals valid, and   *)
(* accept or reject them.  A proposal is accepted only once all of its     *)
(* required verifiers have found it valid, and is never accepted at one    *)
(* node and rejected at another.                                           *)
(***************************************************************************)
CONSTANTS Nodes, Proposals, Verifiers

VARIABLES
    validated,    \* validated[n]: the proposals n's manager has found valid
    accepted,     \* accepted[n]: those it has been told to accept, and did
    rejected      \* rejected[n]: those it has been told to reject, and did

commitVars == <<validated, accepted, rejected>>

Init ==
    /\ validated = [n \in Nodes |-> {}]
    /\ accepted = [n \in Nodes |-> {}]
    /\ rejected = [n \in Nodes |-> {}]

Validate(n, p) ==
    /\ validated' = [validated EXCEPT ![n] = @ \cup {p}]
    /\ UNCHANGED <<accepted, rejected>>

Accept(n, p) ==
    /\ \A v \in Verifiers[p] : p \in validated[v]
    /\ \A m \in Nodes : p \notin rejected[m]
    /\ accepted' = [accepted EXCEPT ![n] = @ \cup {p}]
    /\ UNCHANGED <<validated, rejected>>

Reject(n, p) ==
    /\ \A m \in Nodes : p \notin accepted[m]
    /\ rejected' = [rejected EXCEPT ![n] = @ \cup {p}]
    /\ UNCHANGED <<validated, accepted>>

Next == \E n \in Nodes, p \in Proposals : Validate(n, p) \/ Accept(n, p) \/ Reject(n, p)

Spec == Init /\ [][Next]_commitVars
=============================================================================
