----------------------------- MODULE MCScabbard -----------------------------
(* Instances of Scabbard for TLC. *)
EXTENDS Scabbard

CONSTANTS b1, b2

\* A batch is valid unless it has been applied.
AppliedOnce == {<<b1>>, <<b2>>, <<b1, b2>>, <<b2, b1>>}

\* b2 is valid after b1.
InOrder == {<<b1>>, <<b1, b1>>, <<b1, b2>>}

AllNodes == [p \in Proposals |-> Nodes]

AnyService == [b \in Batches |-> Nodes]
OneServiceEach == [b \in Batches |-> IF b = b1 THEN {1} ELSE {2}]
=============================================================================
