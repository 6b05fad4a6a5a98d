---------------------------- MODULE MCTwoPhase ----------------------------
(* Instances of TwoPhase for TLC: two engines with two proposals, or three with one. *)
EXTENDS TwoPhase, TLC

CONSTANTS p1, p2, p3

VARIABLE subject

\* Nodes 1 and 2 verify p1 and p2; all three of them p3.
Groups == (p1 :> {1, 2}) @@ (p2 :> {1, 2}) @@ (p3 :> Nodes)

\* Node 1 makes p1 and node 2 makes p2; p3 may be made by the last of its verifiers.
OneEach == (p1 :> {1}) @@ (p2 :> {2}) @@ (p3 :> {3})

Used == IF subject = "two" THEN {p1, p2} ELSE {p3}

MCInit == Init /\ subject \in {"two", "three"}

\* Of three engines, one at a time is inside its loop.
MayRun(n) ==
    IF subject = "two" THEN n # 3
    ELSE \A m \in Nodes \ {n} : pc[m] \in {"abort", "stopped"}

\* Two engines do not stop, and what they create and send arrives; of three, one is down at a time.
MCNext ==
    /\ UNCHANGED subject
    /\ \/ \E n \in Nodes : MayRun(n) /\ (NoCall(n) \/ Calls(n))
       \/ IF subject = "two" THEN \E n \in Nodes : TimeoutElapses(n) ELSE Environment
    /\ created' \subseteq Used
    /\ \A m, n \in Nodes : pc'[m] = "stopped" /\ pc'[n] = "stopped" => m = n
    /\ subject = "two" /\ created' # created => state' # state

MCSpec == MCInit /\ [][MCNext]_<<vars, subject>>
=============================================================================
