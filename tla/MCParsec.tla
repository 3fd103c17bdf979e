------------------------------ MODULE MCParsec ------------------------------
(* Parsec for TLC. *)
EXTENDS Parsec, TLC

Leaves == [kind : {"item", "eos"}]
Or(Left, Right) == [kind : {"or"}, left : Left, right : Right]
Shallow == Leaves \cup Or(Leaves, Leaves)
Nested == Shallow \cup Or(Shallow, Shallow)
Depths == [p \in Nested |-> IF p \in Leaves THEN 0 ELSE IF p \in Shallow THEN 1 ELSE 2]

=============================================================================
