---------------------------- MODULE CardProgram ----------------------------
(***************************************************************************)
(* card.cc run on a file: read_all_bytes() of myio.hh, read_cards() and    *)
(* the counting in main().  The file is read in several calls, and other   *)
(* programs may cut it or write more of it in between.                     *)
(***************************************************************************)
EXTENDS Cards, Integers

CONSTANTS
  Zero,       \* the character of a vector's initial value
  MaxLength,  \* bound: the length of the file
  MaxChanges  \* bound: how often others change its length

ASSUME ZeroAssumption == Zero \in Others

ASSUME BoundAssumption == MaxLength \in Nat /\ MaxChanges \in Nat

VARIABLES
  text,     \* what the file holds when all is written
  written,  \* how much of it is there now
  phase,    \* "open", "size", "vector", "read", "cards", "count"; "summary",
            \* "report" after a runtime_error, "abort" after another exception
  length,   \* the size taken, -1 standing for that of a failed ftell()
  numRead,  \* how many bytes fread() returned
  counted,  \* how many of the cards found are in stats
  stats,    \* how often each card was found
  changes

vars == <<cardVars, text, written, phase, length, numRead, counted, stats, changes>>

Characters == Suits \cup Faces \cup Spaces \cup Others

TypeOK ==
  /\ text \in Seq(Characters) /\ written \in 0 .. Len(text)
  /\ phase \in {"open", "size", "vector", "read", "cards", "count",
                "summary", "report", "abort"}
  /\ length \in -1 .. Len(text) /\ numRead \in 0 .. Len(text)
  /\ counted \in 0 .. Len(result)
  /\ stats \in [Suits \X Faces -> Nat]
  /\ changes \in 0 .. MaxChanges

Init ==
  /\ data = <<>> /\ start = 1 /\ pc = "loop" /\ result = <<>> /\ overread = 0
  /\ text \in BoundedSeq(Characters, MaxLength)
  /\ written \in 0 .. Len(text)
  /\ phase = "open"
  /\ length = 0 /\ numRead = 0
  /\ counted = 0 /\ stats = [c \in Suits \X Faces |-> 0]
  /\ changes = 0

Goto(from, to) == phase = from /\ phase' = to

-----------------------------------------------------------------------------
(* Another program cuts the file, or writes more of it. *)
Change ==
  /\ changes < MaxChanges /\ changes' = changes + 1
  /\ phase \in {"open", "size", "vector", "read"}
  /\ written' \in 0 .. Len(text) \ {written}
  /\ UNCHANGED <<cardVars, text, phase, length, numRead, counted, stats>>

(* CFile(path, "rb"), which throws a runtime_error if it cannot open. *)
Open ==
  /\ Goto("open", "size") \/ Goto("open", "report")
  /\ UNCHANGED <<cardVars, text, written, length, numRead, counted, stats, changes>>

(* seek() to the end, tell(), seek() to the start.  A pipe cannot be        *)
(* sought: nobody looks at that answer, and ftell() returns -1.             *)
TakeSize ==
  /\ Goto("size", "vector")
  /\ length' \in {written, -1}
  /\ UNCHANGED <<cardVars, text, written, numRead, counted, stats, changes>>

(* A vector of -1 bytes as a size_t: a length_error, which is no            *)
(* runtime_error.  main() does not catch it.                                *)
MakeVector ==
  /\ Goto("vector", IF length = -1 THEN "abort" ELSE "read")
  /\ UNCHANGED <<cardVars, text, written, length, numRead, counted, stats, changes>>

(* The vector after n bytes were read into it. *)
Vector(n) == SubSeq(text, 1, n) \o [i \in 1 .. length - n |-> Zero]

(* fread(): as much as there is now, or less after an error; it is not      *)
(* looked at how much.                                                      *)
Read(n) ==
  /\ Goto("read", "cards")
  /\ n <= length /\ n <= written
  /\ numRead' = n
  /\ Start(Vector(n))
  /\ UNCHANGED <<text, written, length, counted, stats, changes>>

ReadCards ==
  /\ phase = "cards"
  /\ Step
  /\ UNCHANGED <<text, written, phase, length, numRead, counted, stats, changes>>

CardsRead ==
  /\ Goto("cards", "count")
  /\ Returned
  /\ UNCHANGED <<cardVars, text, written, length, numRead, counted, stats, changes>>

(* stats[c]++ *)
Count ==
  LET i == result[counted + 1]
  IN  /\ phase = "count" /\ counted < Len(result)
      /\ counted' = counted + 1
      /\ stats' = [stats EXCEPT ![<<data[i], data[i + 1]>>] = @ + 1]
      /\ UNCHANGED <<cardVars, text, written, phase, length, numRead, changes>>

Summarise ==
  /\ Goto("count", "summary")
  /\ counted = Len(result)
  /\ UNCHANGED <<cardVars, text, written, length, numRead, counted, stats, changes>>

-----------------------------------------------------------------------------
Run ==
  \/ Open \/ TakeSize \/ MakeVector \/ (\E n \in 0 .. Len(text) : Read(n))
  \/ ReadCards \/ CardsRead \/ Count \/ Summarise

Ended == phase \in {"summary", "report", "abort"}

Next == Run \/ Change \/ (Ended /\ UNCHANGED vars)

Spec == Init /\ [][Next]_vars

(* The program keeps running; others need not touch the file. *)
FairSpec == Spec /\ WF_vars(Run)

-----------------------------------------------------------------------------
(* Properties. *)

(* The summary counts exactly the cards in the bytes that were read, a suit *)
(* with its face right behind it: no other character costs or adds a card,  *)
(* nor do the zeros at the end of the buffer when the file shrank after its *)
(* size was taken, nor what lies behind the buffer.                         *)
CountsWhatWasRead ==
  phase = "summary" =>
    \A s \in Suits, f \in Faces :
      stats[<<s, f>>] =
        Cardinality({i \in 1 .. numRead - 1 : text[i] = s /\ text[i + 1] = f})

(* Trailing white space makes the pass read past the end of the data, but   *)
(* never more than one character past it (card.cc:114).                     *)
OverreadByOne == overread <= 1 /\ start <= Len(data) + 1

(* The program ends, and without a summary only when the file could not be  *)
(* opened or sought, whatever others do to it meanwhile.                    *)
Ends == <>(phase = "summary" \/ phase = "report" \/ (phase = "abort" /\ length = -1))

=============================================================================
