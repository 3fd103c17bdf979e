----------------------------- MODULE CardInput -----------------------------
(***************************************************************************)
(* `card -`: main() of card.cc reads its standard input with               *)
(* read_block_by_block(), and its callback gathers every span it is shown, *)
(* but processes only half of a full one.  Beside it, a callback that may  *)
(* answer anything.                                                        *)
(***************************************************************************)
EXTENDS ReadBlocks, FiniteSets

VARIABLES
  callback,  \* "main" or "any"
  gathered   \* the buffer of main()

inputVars == <<callback, gathered>>

(* main() answers 10 and passes a bufferSize of 20. *)
Half == bufferSize \div 2

InputInit == Init /\ callback \in {"main", "any"} /\ gathered = <<>>

GatherSpan ==
  /\ callback = "main"
  /\ RunCallBack /\ processed' = clamp(Half)
  /\ gathered' = gathered \o buffer
  /\ UNCHANGED callback

AnyCallBack == callback = "any" /\ RunCallBack /\ UNCHANGED inputVars

Loop == (ReadFile \/ ShiftBuffer) /\ UNCHANGED inputVars

InputNext == GatherSpan \/ AnyCallBack \/ Loop \/ (Over /\ UNCHANGED inputVars)

InputSpec == InputInit /\ [][InputNext]_<<vars, inputVars>>

(* The loop keeps running: the callback returns. *)
FairInputSpec == InputSpec /\ WF_<<vars, inputVars>>(InputNext)

-----------------------------------------------------------------------------
(* What main() has gathered when the loop ends: each byte that was read     *)
(* behind the first half buffer comes twice, the others once, and none is   *)
(* missing, wherever the file ends or a read fails (card.cc:135-146).       *)
ShownTwice ==
  callback = "main" /\ pc = "crash" =>
    \A i \in 1 .. got :
      Cardinality({k \in DOMAIN gathered : gathered[k] = i}) = IF i <= Half THEN 1 ELSE 2

=============================================================================
