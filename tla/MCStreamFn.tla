----------------------------- MODULE MCStreamFn -----------------------------
(* StreamFn for TLC. *)
EXTENDS StreamFn, TLC

Vector == <<"a", "b">>
Ints == -1 .. 3
EvenPasses(item) == item % 2 = 0
Doubled(item) == 2 * item

=============================================================================
