----------------------------- MODULE MCPrintHex -----------------------------
(* PrintHex for TLC. *)
EXTENDS PrintHex, TLC

SomeColumns == -2 .. 14
SomeLines == -1 .. 5

=============================================================================
