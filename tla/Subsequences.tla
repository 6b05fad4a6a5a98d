---------------------------- MODULE Subsequences ----------------------------
(***************************************************************************)
(* The elements of a sequence at some of its places, in order.  SelectSeq  *)
(* takes the test as an operator, and no theorem can be proved about that; *)
(* Keep takes the places at which the test holds.                          *)
(***************************************************************************)
EXTENDS Naturals, Sequences

Keep(s, I) ==
    LET kept[i \in 0..Len(s)] ==
            IF i = 0 THEN <<>>
            ELSE IF i \in I THEN Append(kept[i - 1], s[i]) ELSE kept[i - 1]
    IN kept[Len(s)]
=============================================================================
