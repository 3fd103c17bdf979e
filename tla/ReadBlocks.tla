----------------------------- MODULE ReadBlocks -----------------------------
(***************************************************************************)
(* read_block_by_block() of myio.hh: a file goes through a buffer of fixed *)
(* size; a callback sees all that is in the buffer and says how much of it *)
(* is processed, and the rest moves to the front.  A byte is its position  *)
(* in the file.  size_t arithmetic wraps around at SizeLimit.              *)
(***************************************************************************)
EXTENDS Integers, Sequences

CONSTANTS
  bufferSize,
  MaxFile,    \* bound: the length of the file
  SizeLimit   \* 2^w for a size_t of w bits

ASSUME SizeAssumption ==
  bufferSize \in Nat /\ MaxFile \in Nat /\ SizeLimit \in Nat /\ SizeLimit > bufferSize + 1

VARIABLES
  pc,         \* "read", "call", "shift" in the loop; "done"; "crash"
  fileLength, \* how many bytes the file has
  got,        \* how many of them fread() has returned
  buffer,     \* the valid bytes of buffer
  offset, remaining, numRead, open,
  eof,        \* file.eof() || file.error()
  processed,
  consumed    \* history: the bytes processed so far

vars == <<pc, fileLength, got, buffer, offset, remaining, numRead, open, eof,
          processed, consumed>>

available == Len(buffer)

TypeOK ==
  /\ pc \in {"read", "call", "shift", "done", "crash"}
  /\ got \in 0 .. fileLength /\ fileLength \in 0 .. MaxFile
  /\ buffer \in Seq(1 .. fileLength) /\ available <= bufferSize
  /\ offset \in 0 .. SizeLimit - 1
  /\ remaining \in 0 .. bufferSize /\ numRead \in 0 .. remaining
  /\ open \in BOOLEAN /\ eof \in BOOLEAN
  /\ processed \in 0 .. bufferSize + 1
  /\ consumed \in 0 .. fileLength

(* Without room or with a file that is bad() it returns at once. *)
Init ==
  /\ pc = "done" \/ (bufferSize > 0 /\ pc = "read")
  /\ fileLength \in 0 .. MaxFile
  /\ got = 0 /\ buffer = <<>>
  /\ offset = 0 /\ remaining = 0 /\ numRead = 0
  /\ open = TRUE /\ eof = FALSE
  /\ processed = 0 /\ consumed = 0

-----------------------------------------------------------------------------
(* fread() returns less than it is asked for only at the end of the file or *)
(* on an error, and sets a flag then.                                       *)
fread(n, length) ==
  /\ n <= length /\ n <= fileLength - got
  /\ got' = got + n
  /\ eof' = (eof \/ n < length)

(* Mutant: the bytes go in front of those that were kept. *)
Filled_AtFront(n) == [i \in 1 .. n |-> got + i] \o buffer

(* The n bytes read go behind those that were kept. *)
Filled(n) == buffer \o [i \in 1 .. n |-> got + i]

(* readFile(): nothing is read once the file is closed. *)
ReadFile ==
  /\ pc = "read" /\ pc' = "call"
  /\ remaining' = bufferSize - offset
  /\ \E n \in 0 .. bufferSize :
       /\ IF open THEN fread(n, bufferSize - offset) ELSE n = 0 /\ UNCHANGED <<got, eof>>
       /\ numRead' = n
       /\ buffer' = Filled(n)
  /\ UNCHANGED <<fileLength, offset, open, processed, consumed>>

Least(a, b) == IF a < b THEN a ELSE b
Greatest(a, b) == IF a > b THEN a ELSE b

(* Mutants: the answer is not bounded below; not bounded above. *)
clamp_NoMinimum(answer) == Least(answer, available)

clamp_NoMaximum(answer) == Greatest(answer, 1)

clamp(answer) == Greatest(Least(answer, available), 1)

(* runCallBack(), whose function may answer anything, and the test for the  *)
(* end of the file after it.                                                *)
RunCallBack ==
  /\ pc = "call" /\ pc' = "shift"
  /\ \E answer \in 0 .. bufferSize + 1 : processed' = clamp(answer)
  /\ open' = (open /\ ~(numRead # remaining /\ eof))
  /\ UNCHANGED <<fileLength, got, buffer, offset, remaining, numRead, eof, consumed>>

(* shiftBuffer() and the test of the loop.  A newOffset that wrapped around *)
(* makes memmove() run off the buffer, which ends the program.              *)
ShiftBuffer ==
  LET newOffset == (available - processed) % SizeLimit
  IN  /\ pc = "shift"
      /\ offset' = newOffset
      /\ IF newOffset > bufferSize
         THEN pc' = "crash" /\ UNCHANGED <<buffer, consumed>>
         ELSE /\ pc' = IF available > 0 THEN "read" ELSE "done"
              /\ buffer' = SubSeq(buffer, processed + 1, available)
              /\ consumed' = consumed + processed
      /\ UNCHANGED <<fileLength, got, remaining, numRead, open, eof, processed>>

Over == pc \in {"done", "crash"} /\ UNCHANGED vars

Next == ReadFile \/ RunCallBack \/ ShiftBuffer \/ Over

Spec == Init /\ [][Next]_vars

(* The loop keeps running: the callback returns. *)
FairSpec == Spec /\ WF_vars(Next)

-----------------------------------------------------------------------------
(* Properties. *)

(* The callback always sees the unprocessed bytes from the first one on,    *)
(* with none skipped, repeated or moved, however little it processes, and   *)
(* the buffer is never filled beyond its size.                              *)
SpanContinues ==
  pc # "crash" => /\ buffer = [i \in 1 .. available |-> consumed + i]
                  /\ available <= bufferSize
                  /\ consumed + available = got

(* The only run off the buffer is the one at the very end: what was read    *)
(* is processed by then (myio.hh:96-99, 110).                               *)
CrashOnlyWhenDrained ==
  pc = "crash" => available = 0 /\ consumed = got /\ ~open

(* The loop ends, whatever the callback answers: at least one byte goes in  *)
(* each round.                                                              *)
LoopEnds == <>(pc \in {"done", "crash"})

(* "if (processed > available) processed = available" (myio.hh:96-97): the  *)
(* callback is never credited with more than it was shown.                  *)
NeverPastAvailable == pc = "shift" => processed <= available

=============================================================================
