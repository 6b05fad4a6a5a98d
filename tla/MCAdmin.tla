------------------------------ MODULE MCAdmin -------------------------------
(* Instances of Admin for TLC. *)
EXTENDS Admin, TLC

\* a, b and s are rivals for one ID, s of node 1 alone; t has three members, u is within
\* t's; x and y share node 3 and have coordinators of their own.
AllMembers == "a" :> {1, 2} @@ "b" :> {1, 2} @@ "s" :> {1} @@ "t" :> {1, 2, 3} @@ "u" :> {1, 3}
                @@ "x" :> {1, 3} @@ "y" :> {2, 3}
AllDefinitions == DOMAIN AllMembers
AllIds == [d \in AllDefinitions |-> IF d \in {"a", "b", "s"} THEN "c" ELSE d]

Create(d, n) == [action |-> "create", circuit |-> d, requester |-> n]
Vote(d, n, v) == [action |-> "vote", circuit |-> d, requester |-> n, vote |-> v]
Workload(payloads, most, strangers, faults) ==
    [payloads |-> payloads, most |-> most, strangers |-> strangers, faults |-> faults]

\* Rivals proposed and voted on by two nodes.
Rivals ==
    Workload({Create("a", 1), Create("b", 2), Create("s", 1), Vote("a", 2, "ACCEPT"), Vote("b", 1, "ACCEPT"),
              Vote("a", 2, "REJECT")}, 3, {}, {})

\* The same, with everything that may fail: writes, or restarts and connections.
Failing(strangers, faults) ==
    Workload({Create("a", 1), Create("b", 2), Vote("a", 2, "ACCEPT")}, 3, strangers, faults)

\* Votes of two nodes that meet.
Votes ==
    Workload({Create("t", 1), Vote("t", 2, "ACCEPT"), Vote("t", 3, "ACCEPT")}, 3, {}, {})

\* Circuits of different members and one coordinator, proposed among strangers.
Peers == Workload({Create("t", 1), Create("u", 3)}, 2, {<<1, 2>>, <<1, 3>>, <<3, 1>>}, {})

\* A circuit proposed twice, while peers come and go.
LostPeers == Workload({Create("t", 1)}, 2, {<<1, 2>>, <<1, 3>>}, {"disconnect"})

\* Circuits of two coordinators.
Shared == Workload({Create("x", 1), Create("y", 2)}, 2, {}, {})

Agreeing == {Rivals, Failing({}, FaultKinds \ {"restart"}),
             Failing({<<1, 2>>}, FaultKinds \ {"store", "disconnect"}), Votes, Peers, LostPeers}
TwoCoordinators == {Shared}
=============================================================================
