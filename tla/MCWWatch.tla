------------------------------ MODULE MCWWatch ------------------------------
(* WWatch for TLC: strings of two letters and the comma. *)
EXTENDS WWatch, TLC

TwoFiles == {<<"a">>, <<"b">>}
ShortArguments == BoundedSeq({"a", "comma"}, 3)

=============================================================================
