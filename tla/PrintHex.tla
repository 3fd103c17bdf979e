------------------------------ MODULE PrintHex ------------------------------
(***************************************************************************)
(* print_hex() of disasm.cc: bytes as two hexadecimal digits each, so many *)
(* on a line as the columns allow, at most options.lines lines and then    *)
(* how many lines were left out.  A byte is its position, a line its width.*)
(***************************************************************************)
EXTENDS Integers, Sequences, FiniteSets

CONSTANTS
  MaxLength,   \* bound: how many bytes there are
  Columns,     \* values of options.columns
  Lines,       \* values of options.lines
  Separators,  \* lengths of options.seperator
  SizeLimit    \* 2^w for a size_t of w bits

ASSUME OptionAssumption ==
  /\ MaxLength \in Nat /\ Columns \subseteq Int /\ Lines \subseteq Int
  /\ Separators \subseteq Nat
  /\ SizeLimit \in Nat \ {0}
  /\ \A c \in Columns : -SizeLimit < c /\ c < SizeLimit

VARIABLES
  columns, maxLines, sepLen,  \* options
  length,  \* end - begin
  cur,     \* cur - begin
  pc,      \* "print"; "done"; "crash" when the program divides by zero
  lines,   \* lines ended
  width,   \* characters of the line that is being printed
  widest,  \* characters of the longest line ended, "... more" included
  more     \* the number in "... more", 0 without that line

vars == <<columns, maxLines, sepLen, length, cur, pc, lines, width, widest, more>>

(* Mutant: the separator is forgotten. *)
numPerLine_NoSeparator == (columns % SizeLimit) \div 2

(* columns is converted to size_t, wrapping around if it is negative. *)
numPerLine == (columns % SizeLimit) \div (2 + sepLen)

TypeOK ==
  /\ columns \in Columns /\ maxLines \in Lines /\ sepLen \in Separators
  /\ length \in 0 .. MaxLength /\ cur \in 0 .. length
  /\ pc \in {"print", "done", "crash"}
  /\ lines \in 0 .. cur /\ width \in Nat /\ widest \in Nat
  /\ more \in Int

(* No bytes: an empty string at once. *)
Init ==
  /\ columns \in Columns /\ maxLines \in Lines /\ sepLen \in Separators
  /\ length \in 0 .. MaxLength
  /\ cur = 0 /\ lines = 0 /\ width = 0 /\ widest = 0 /\ more = 0
  /\ pc = IF length < 1 THEN "done" ELSE "print"

-----------------------------------------------------------------------------
(* A line ends after the byte cur when it is full or the byte is the last.  *)
LineEnds == (cur + 1) % numPerLine = 0 \/ cur + 1 = length

(* Mutant: the number of lines is rounded down. *)
LinesNeeded_Floor == length \div numPerLine

(* ceil(length * 1.0 / numPerLine) *)
LinesNeeded == (length + numPerLine - 1) \div numPerLine

(* The number in "... more" is printed as the bytes are, in hexadecimal; an *)
(* int of 32 bits has at most eight digits.                                 *)
HexDigits(n) == Cardinality({d \in 0 .. 7 : n >= 16^d})

(* The line "... n more", if there is one. *)
RestWidth(n) == IF n > 0 THEN 4 + HexDigits(n) + 5 ELSE 0

Wider(a, b) == IF a > b THEN a ELSE b

DivideByZero ==
  /\ pc = "print" /\ numPerLine = 0
  /\ pc' = "crash"
  /\ UNCHANGED <<columns, maxLines, sepLen, length, cur, lines, width, widest, more>>

(* A byte, and the separator after it. *)
PrintByte ==
  /\ pc = "print" /\ numPerLine > 0 /\ ~LineEnds
  /\ cur' = cur + 1
  /\ width' = width + 2 + sepLen
  /\ UNCHANGED <<columns, maxLines, sepLen, length, pc, lines, widest, more>>

(* A byte that ends its line; after the last line allowed the rest is only  *)
(* counted, in a line of its own.                                           *)
EndLine ==
  LET rem == IF lines' = maxLines THEN LinesNeeded - maxLines ELSE 0
  IN  /\ pc = "print" /\ numPerLine > 0 /\ LineEnds
      /\ cur' = cur + 1
      /\ lines' = lines + 1
      /\ width' = 0
      /\ more' = rem
      /\ widest' = Wider(widest, Wider(width + 2, RestWidth(rem)))
      /\ pc' = IF lines' = maxLines \/ cur' = length THEN "done" ELSE "print"
      /\ UNCHANGED <<columns, maxLines, sepLen, length>>

Next ==
  \/ DivideByZero \/ PrintByte \/ EndLine
  \/ pc \in {"done", "crash"} /\ UNCHANGED vars

Spec == Init /\ [][Next]_vars

-----------------------------------------------------------------------------
(* Properties. *)

(* What is printed and what is only counted add up to the data: the lines   *)
(* hold the first bytes, and so many more lines would hold the others.      *)
RestIsCounted ==
  pc = "done" =>
    /\ more >= 0 /\ (more > 0 <=> cur < length)
    /\ length > 0 =>
         lines + more = Cardinality({p \in 1 .. length : p % numPerLine = 0 \/ p = length})

(* A line is wider than the columns asked for only if it is the one that    *)
(* counts the rest, which nothing keeps to them (disasm.cc:44); a negative  *)
(* number of columns counts as a very large one.                            *)
FitsColumns ==
  widest > columns % SizeLimit => more > 0 /\ widest = RestWidth(more)

=============================================================================
